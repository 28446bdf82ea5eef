------------------------- MODULE AutoMachine_proofs -------------------------
(***************************************************************************)
(* Proofs about the machine, on its own and driven by the metronome.       *)
(*                                                                         *)
(* BaseMachine.  For any threads: its type invariant, and how its steps    *)
(* move frames.  For one thread, whose callbacks call it only once the new *)
(* state is recorded: that the status, the current state and what the      *)
(* states have been told agree.  The inductive invariant says what the     *)
(* frame that runs relies on, and that the frames below it have only their *)
(* own status left to write.                                               *)
(*                                                                         *)
(* AutoMachine.  A running machine is never lost by the metronome.  The    *)
(* inductive invariant says who is about to repair a machine that runs     *)
(* unregistered: a frame that will register it on its way out, or one that *)
(* has unregistered it and has yet to read or to write the status.         *)
(* With one client, the metronome's ticks leave a machine that is not      *)
(* stopped its current state: they never write the status, nor an index    *)
(* of no state.                                                            *)
(***************************************************************************)
EXTENDS AutoMachine, SequenceTheorems, TLAPS


\* A state that a frame is about to make current is in the list.
Listed(r) ==
    r = Null \/ (HasIndex(IndexOf[r]) /\ GetState(IndexOf[r]) # Null)

\* Only start ends with a write of the status, only resume with onResume.
Shaped(f) ==
    /\ f.pc = "running" => f.op = "start"
    /\ f.pc \in {"resumeState", "onResume"} => f.op = "resume"

FrameOK(f) == Listed(f.new) /\ Shaped(f)

StacksOK ==
    /\ stack \in [Threads -> Seq(Frame)]
    /\ \A t \in Threads : \A i \in 1 .. Len(stack[t]) : FrameOK(stack[t][i])

StatesOK ==
    /\ states \in Seq(Reference)
    /\ \A i \in DOMAIN states : states[i] # Null => IndexOf[states[i]] = i - 1

CurrentOK ==
    /\ current \in -1 .. Len(states) - 1
    /\ current >= 0 => GetState(current) # Null

\* MachineTypeOK with what the pending changes of state need to preserve it.
MachineInv ==
    /\ StatesOK
    /\ CurrentOK
    /\ status \in Statuses
    /\ StacksOK
    /\ live \in SUBSET StateObjects

-----------------------------------------------------------------------------
(* The three ways a step changes a stack.                                  *)

\* A new frame leaves those below it as they are.
LEMMA PushFacts ==
    ASSUME stack \in [Threads -> Seq(Frame)], NEW t \in Threads, NEW f \in Frame,
           Push(t, f)
    PROVE  /\ stack' \in [Threads -> Seq(Frame)]
           /\ \A u \in Threads \ {t} : stack'[u] = stack[u]
           /\ Len(stack'[t]) = Len(stack[t]) + 1
           /\ \A i \in 1 .. Len(stack[t]) : stack'[t][i] = stack[t][i]
           /\ stack'[t][Len(stack[t]) + 1] = f
<1>1. stack' = [stack EXCEPT ![t] = Append(stack[t], f)]
  BY DEF Push
<1>2. stack'[t] = Append(stack[t], f)
  BY <1>1
<1>3. stack[t] \in Seq(Frame) /\ Append(stack[t], f) \in Seq(Frame)
  OBVIOUS
<1> QED
  BY <1>1, <1>2, <1>3

\* A return removes the top frame only.
LEMMA PopFacts ==
    ASSUME stack \in [Threads -> Seq(Frame)], NEW t \in Threads,
           stack[t] # <<>>, Pop(t)
    PROVE  /\ stack' \in [Threads -> Seq(Frame)]
           /\ \A u \in Threads \ {t} : stack'[u] = stack[u]
           /\ Len(stack[t]) \in Nat \ {0}
           /\ Len(stack'[t]) = Len(stack[t]) - 1
           /\ \A i \in 1 .. Len(stack[t]) - 1 : stack'[t][i] = stack[t][i]
<1>1. stack' = [stack EXCEPT ![t] = SubSeq(stack[t], 1, Len(stack[t]) - 1)]
  BY DEF Pop
<1>2. stack'[t] = SubSeq(stack[t], 1, Len(stack[t]) - 1)
  BY <1>1
<1>3. stack[t] \in Seq(Frame) /\ Len(stack[t]) \in Nat \ {0}
  OBVIOUS
<1>4. /\ stack'[t] \in Seq(Frame)
      /\ Len(stack'[t]) = Len(stack[t]) - 1
      /\ \A i \in 1 .. Len(stack[t]) - 1 : stack'[t][i] = stack[t][i]
  <2> DEFINE n == Len(stack[t]) - 1
  <2>1. n \in Nat /\ \A i \in 1 .. n : stack[t][i] \in Frame
    BY <1>3
  <2> HIDE DEF n
  <2>2. /\ SubSeq(stack[t], 1, n) \in Seq(Frame)
        /\ Len(SubSeq(stack[t], 1, n)) = IF 1 <= n THEN n - 1 + 1 ELSE 0
        /\ \A i \in 1 .. n - 1 + 1 : SubSeq(stack[t], 1, n)[i] = stack[t][1 + i - 1]
    BY <2>1, SubSeqProperties
  <2> QED
    <3>1. stack'[t] = SubSeq(stack[t], 1, n)
      BY <1>2 DEF n
    <3>2. Len(stack'[t]) = n
      BY <2>1, <2>2, <3>1
    <3>3. \A i \in 1 .. n : stack'[t][i] = stack[t][i]
      BY <2>1, <2>2, <3>1
    <3> QED
      BY <2>2, <3>1, <3>2, <3>3 DEF n
<1> QED
  BY <1>1, <1>2, <1>3, <1>4

\* A step inside a method replaces the top frame only.
LEMMA BecomeFacts ==
    ASSUME stack \in [Threads -> Seq(Frame)], NEW t \in Threads, NEW f \in Frame,
           stack[t] # <<>>, Become(t, f)
    PROVE  /\ stack' \in [Threads -> Seq(Frame)]
           /\ \A u \in Threads \ {t} : stack'[u] = stack[u]
           /\ Len(stack[t]) \in Nat \ {0}
           /\ Len(stack'[t]) = Len(stack[t])
           /\ \A i \in 1 .. Len(stack[t]) - 1 : stack'[t][i] = stack[t][i]
           /\ stack'[t][Len(stack[t])] = f
<1>1. stack' = [stack EXCEPT ![t] = [stack[t] EXCEPT ![Len(stack[t])] = f]]
  BY DEF Become
<1>2. stack'[t] = [stack[t] EXCEPT ![Len(stack[t])] = f]
  BY <1>1
<1>3. stack[t] \in Seq(Frame) /\ Len(stack[t]) \in Nat \ {0}
  OBVIOUS
<1>4. [stack[t] EXCEPT ![Len(stack[t])] = f] \in Seq(Frame)
  BY <1>3
<1> QED
  BY <1>1, <1>2, <1>3, <1>4

\* What these three steps do to the pending states, when the list is unchanged:
\* every frame but a new or replaced one is a frame that was there before.
LEMMA SameFramesListed ==
    ASSUME StacksOK, states' = states, stack' \in [Threads -> Seq(Frame)],
           \A u \in Threads : \A i \in 1 .. Len(stack'[u]) :
               \/ FrameOK(stack'[u][i])
               \/ i \in 1 .. Len(stack[u]) /\ stack'[u][i] = stack[u][i]
    PROVE  StacksOK'
<1>1. \A u \in Threads : \A i \in 1 .. Len(stack'[u]) : FrameOK(stack'[u][i])
  BY DEF StacksOK
<1> QED
  BY <1>1 DEF StacksOK, FrameOK, Shaped, Listed, HasIndex, GetState

LEMMA PushKeepsStacks ==
    ASSUME StacksOK, NEW t \in Threads, NEW f \in Frame, FrameOK(f),
           states' = states, Push(t, f)
    PROVE  StacksOK'
<1>1. stack \in [Threads -> Seq(Frame)]
  BY DEF StacksOK
<1>2. /\ stack' \in [Threads -> Seq(Frame)]
      /\ \A u \in Threads \ {t} : stack'[u] = stack[u]
      /\ Len(stack'[t]) = Len(stack[t]) + 1
      /\ \A i \in 1 .. Len(stack[t]) : stack'[t][i] = stack[t][i]
      /\ stack'[t][Len(stack[t]) + 1] = f
  BY <1>1, PushFacts
<1>3. \A u \in Threads : \A i \in 1 .. Len(stack'[u]) :
        \/ FrameOK(stack'[u][i])
        \/ i \in 1 .. Len(stack[u]) /\ stack'[u][i] = stack[u][i]
  <2>1. Len(stack[t]) \in Nat
    BY <1>1
  <2>2. ASSUME NEW i \in 1 .. Len(stack'[t]) PROVE i \in 1 .. Len(stack[t]) \/ i = Len(stack[t]) + 1
    BY <1>2, <2>1
  <2>3. \A i \in 1 .. Len(stack'[t]) :
          \/ FrameOK(stack'[t][i])
          \/ i \in 1 .. Len(stack[t]) /\ stack'[t][i] = stack[t][i]
    BY <1>2, <2>2
  <2> QED
    BY <1>2, <2>3
<1> QED
  BY <1>2, <1>3, SameFramesListed

LEMMA PopKeepsStacks ==
    ASSUME StacksOK, NEW t \in Threads, stack[t] # <<>>, states' = states, Pop(t)
    PROVE  StacksOK'
<1>1. stack \in [Threads -> Seq(Frame)]
  BY DEF StacksOK
<1>2. \A u \in Threads : \A i \in 1 .. Len(stack'[u]) :
        i \in 1 .. Len(stack[u]) /\ stack'[u][i] = stack[u][i]
  BY <1>1, PopFacts
<1> QED
  BY <1>1, <1>2, PopFacts, SameFramesListed

LEMMA BecomeKeepsStacks ==
    ASSUME StacksOK, NEW t \in Threads, NEW f \in Frame, FrameOK(f),
           stack[t] # <<>>, states' = states, Become(t, f)
    PROVE  StacksOK'
<1>1. stack \in [Threads -> Seq(Frame)]
  BY DEF StacksOK
<1>2. /\ stack' \in [Threads -> Seq(Frame)]
      /\ \A u \in Threads \ {t} : stack'[u] = stack[u]
      /\ Len(stack[t]) \in Nat \ {0}
      /\ Len(stack'[t]) = Len(stack[t])
      /\ \A i \in 1 .. Len(stack[t]) - 1 : stack'[t][i] = stack[t][i]
      /\ stack'[t][Len(stack[t])] = f
  BY <1>1, BecomeFacts
<1>3. \A u \in Threads : \A i \in 1 .. Len(stack'[u]) :
        \/ FrameOK(stack'[u][i])
        \/ i \in 1 .. Len(stack[u]) /\ stack'[u][i] = stack[u][i]
  <2>1. ASSUME NEW i \in 1 .. Len(stack[t])
        PROVE  i \in 1 .. Len(stack[t]) - 1 \/ i = Len(stack[t])
    BY <1>2
  <2>2. \A i \in 1 .. Len(stack'[t]) :
          \/ FrameOK(stack'[t][i])
          \/ i \in 1 .. Len(stack[t]) /\ stack'[t][i] = stack[t][i]
    BY <1>2, <2>1
  <2> QED
    BY <1>2, <2>2
<1> QED
  BY <1>2, <1>3, SameFramesListed

\* The running frame of a thread inside a method.
LEMMA TopFacts ==
    ASSUME StacksOK, NEW t \in Threads, stack[t] # <<>>
    PROVE  Top(t) \in Frame /\ FrameOK(Top(t))
<1>1. stack[t] \in Seq(Frame) /\ Len(stack[t]) \in 1 .. Len(stack[t])
  BY DEF StacksOK
<1> QED
  BY <1>1 DEF StacksOK, Top

\* A step to another pc in the same frame.
LEMMA GotoKeepsStacks ==
    ASSUME StacksOK, NEW t \in Threads, NEW pc \in Pcs, stack[t] # <<>>,
           Shaped([Top(t) EXCEPT !.pc = pc]), states' = states, Goto(t, pc)
    PROVE  StacksOK'
<1> DEFINE f == [Top(t) EXCEPT !.pc = pc]
<1>1. f \in Frame /\ f.new = Top(t).new
  BY TopFacts DEF Frame
<1>2. FrameOK(f) /\ Become(t, f)
  BY <1>1, TopFacts DEF Goto, FrameOK
<1> QED
  BY <1>1, <1>2, BecomeKeepsStacks

-----------------------------------------------------------------------------
(* The invariant, action by action.                                        *)

\* The other parts of the invariant only read the list.
LEMMA SameMachine ==
    ASSUME MachineInv, StacksOK', UNCHANGED <<states, current>>,
           status' \in Statuses, live' \in SUBSET StateObjects
    PROVE  MachineInv'
BY DEF MachineInv, StatesOK, CurrentOK, HasIndex, GetState

\* The current state is in the list, if there is one.
LEMMA CurrentStateListed ==
    ASSUME MachineInv
    PROVE  CurrentState \in Reference
BY DEF MachineInv, StatesOK, CurrentOK, CurrentState, GetState, Reference

\* addState keeps every state at its own index; nothing is current or running.
LEMMA AddStateStep ==
    ASSUME MachineInv, NEW o \in StateObjects, AddState(o)
    PROVE  MachineInv'
<1> DEFINE n == IF HasIndex(IndexOf[o]) THEN Len(states) ELSE IndexOf[o] + 1
<1>1. /\ IndexOf[o] \in Nat /\ Len(states) \in Nat
      /\ states \in Seq(Reference) /\ o # Null
      /\ DOMAIN states = 1 .. Len(states)
  BY IndexAssumption, NullAssumption DEF MachineInv, StatesOK
<1>2. n \in Nat /\ IndexOf[o] + 1 \in 1 .. n
  BY <1>1 DEF HasIndex
<1>3. states' = [i \in 1 .. n |->
                   IF i = IndexOf[o] + 1 THEN o
                   ELSE IF i <= Len(states) THEN states[i] ELSE Null]
  BY DEF AddState, WithState
<1> HIDE DEF n
<1>4. \A i \in 1 .. n : states'[i] \in Reference
  BY <1>1, <1>2, <1>3 DEF Reference
<1>5. states' \in [1 .. n -> Reference]
  BY <1>3, <1>4
<1>6. states' \in Seq(Reference) /\ Len(states') = n /\ DOMAIN states' = 1 .. n
  BY <1>2, <1>5
<1>7. StatesOK'
  <2>1. ASSUME NEW i \in 1 .. n, states'[i] # Null
        PROVE  IndexOf[states'[i]] = i - 1
    <3>1. CASE i = IndexOf[o] + 1
      BY <1>1, <1>3, <3>1
    <3>2. CASE i # IndexOf[o] + 1
      <4>1. i \in DOMAIN states /\ states'[i] = states[i]
        BY <1>1, <1>2, <1>3, <2>1, <3>2
      <4> QED
        BY <2>1, <4>1 DEF MachineInv, StatesOK
    <3> QED
      BY <3>1, <3>2
  <2> QED
    BY <1>6, <2>1 DEF StatesOK
<1>8. CurrentOK'
  BY <1>2, <1>6 DEF AddState, CurrentOK
<1>9. StacksOK'
  <2>1. /\ stack' = stack
        /\ stack \in [Threads -> Seq(Frame)]
        /\ \A t \in Threads : stack[t] = <<>>
    BY DEF AddState, Quiescent, MachineInv, StacksOK
  <2> QED
    BY <2>1 DEF StacksOK
<1> QED
  BY <1>7, <1>8, <1>9 DEF MachineInv, AddState

\* A call of any method, from outside or from a callback.
LEMMA PushStep ==
    ASSUME MachineInv, NEW t \in Threads, NEW op \in Operations,
           Push(t, [op |-> op, pc |-> "check", old |-> Null, new |-> Null]),
           UNCHANGED <<states, current, status, live, threw>>
    PROVE  MachineInv'
<1> DEFINE f == [op |-> op, pc |-> "check", old |-> Null, new |-> Null]
<1>1. f \in Frame /\ f.new = Null
  BY DEF Frame, Pcs, Reference
<1>2. FrameOK(f)
  BY <1>1 DEF FrameOK, Listed, Shaped
<1>3. StacksOK'
  BY <1>1, <1>2, PushKeepsStacks DEF MachineInv
<1> QED
  BY <1>3, SameMachine DEF MachineInv

LEMMA PopStep ==
    ASSUME MachineInv, NEW t \in Threads, stack[t] # <<>>, Pop(t),
           UNCHANGED <<states, current, status, live>>
    PROVE  MachineInv'
<1>1. StacksOK'
  BY PopKeepsStacks DEF MachineInv
<1> QED
  BY <1>1, SameMachine DEF MachineInv

LEMMA GotoStep ==
    ASSUME MachineInv, NEW t \in Threads, stack[t] # <<>>, NEW pc \in Pcs, Goto(t, pc),
           Shaped([Top(t) EXCEPT !.pc = pc]),
           UNCHANGED <<states, current>>,
           status' \in Statuses, live' \in SUBSET StateObjects
    PROVE  MachineInv'
<1>1. StacksOK'
  BY GotoKeepsStacks DEF MachineInv
<1> QED
  BY <1>1, SameMachine

\* A state found in the list is listed, at its own index.
LEMMA FoundIsListed ==
    ASSUME MachineInv, NEW k, HasIndex(k)
    PROVE  GetState(k) \in Reference /\ Listed(GetState(k))
<1>1. states[k + 1] \in Reference
  BY DEF MachineInv, StatesOK, HasIndex
<1>2. ASSUME states[k + 1] # Null PROVE IndexOf[states[k + 1]] + 1 = k + 1
  <2>1. k + 1 \in Int /\ IndexOf[states[k + 1]] = (k + 1) - 1
    BY <1>2 DEF MachineInv, StatesOK, HasIndex
  <2> QED
    BY <2>1
<1> QED
  BY <1>1, <1>2 DEF GetState, Listed, HasIndex

\* Only start writes the status after its change of state.
LEMMA AfterChangeShaped ==
    ASSUME NEW f \in Frame
    PROVE  AfterChange(f.op) \in Pcs /\ Shaped([f EXCEPT !.pc = AfterChange(f.op)])
BY DEF AfterChange, Pcs, Shaped, Frame

\* One step of a method.
LEMMA InsideStep ==
    ASSUME MachineInv, NEW t \in Threads, Inside(t)
    PROVE  MachineInv'
<1> USE DEF Pcs, Callbacks, Operations, Statuses, At, FrameOK, Shaped
<1>1. /\ status \in Statuses /\ live \in SUBSET StateObjects
      /\ stack[t] # <<>> => Top(t) \in Frame /\ FrameOK(Top(t))
  BY TopFacts DEF MachineInv
<1>2. CASE Check(t)
  <2> DEFINE op == Top(t).op
  <2>1. stack[t] # <<>> /\ op \in Operations
    BY <1>1, <1>2 DEF Check, Frame
  <2>2. CASE ~Allowed(op)
    <3>1. Goto(t, "return") /\ UNCHANGED <<states, current, status, live, threw>>
      BY <1>2, <2>2 DEF Check
    <3> QED
      BY <1>1, <2>1, <3>1, GotoStep
  <2>3. CASE Allowed(op) /\ op = "start"
    <3>1. CASE HasIndex(0)
      <4> DEFINE f == [Top(t) EXCEPT !.pc = "change", !.new = GetState(0)]
      <4>1. Become(t, f) /\ UNCHANGED <<states, current, status, live, threw>>
        BY <1>2, <2>3, <3>1 DEF Check
      <4>2. f \in Frame /\ FrameOK(f)
        BY <1>1, <2>1, <3>1, FoundIsListed DEF Frame
      <4>3. StacksOK'
        BY <2>1, <4>1, <4>2, BecomeKeepsStacks DEF MachineInv
      <4> QED
        BY <1>1, <4>1, <4>3, SameMachine
    <3>2. CASE ~HasIndex(0)
      <4>1. Pop(t) /\ UNCHANGED <<states, current, status, live, threw>>
        BY <1>2, <2>3, <3>2 DEF Check
      <4> QED
        BY <2>1, <4>1, PopStep
    <3> QED
      BY <3>1, <3>2
  <2>4. CASE Allowed(op) /\ op = "stop"
    <3>1. Goto(t, "halt") /\ UNCHANGED <<states, current, status, live, threw>>
      BY <1>2, <2>4 DEF Check
    <3> QED
      BY <1>1, <2>1, <3>1, GotoStep
  <2>5. CASE Allowed(op) /\ op \in {"pause", "resume", "tick"}
    <3>1. Goto(t, "begin") /\ UNCHANGED <<states, current, status, live, threw>>
      BY <1>2, <2>5 DEF Check
    <3> QED
      BY <1>1, <2>1, <3>1, GotoStep
  <2> QED
    BY <2>1, <2>2, <2>3, <2>4, <2>5
<1>3. CASE Halt(t)
  BY <1>1, <1>3, GotoStep DEF Halt
<1>4. CASE Begin(t)
  <2> DEFINE op == Top(t).op
             next == CASE op = "pause"  -> "onPause"
                       [] op = "resume" -> "resumeState"
                       [] OTHER -> IF CurrentState = Null THEN "return" ELSE "evaluate"
             f == [Top(t) EXCEPT !.pc = next, !.old = CurrentState]
  <2>1. /\ stack[t] # <<>>
        /\ Become(t, f) /\ UNCHANGED <<states, current, status, live, threw>>
    BY <1>4 DEF Begin
  <2>2. next \in Pcs
    OBVIOUS
  <2> HIDE DEF next
  <2>3. f \in Frame /\ FrameOK(f)
    <3>1. f \in Frame /\ f.new = Top(t).new /\ f.op = op /\ f.pc = next
      BY <1>1, <2>1, <2>2, CurrentStateListed DEF Frame
    <3>2. next \in {"resumeState", "onResume"} => op = "resume"
      BY DEF next
    <3>3. next # "running"
      BY DEF next
    <3> QED
      BY <1>1, <2>1, <3>1, <3>2, <3>3
  <2>4. StacksOK'
    BY <2>1, <2>3, BecomeKeepsStacks DEF MachineInv
  <2> QED
    BY <1>1, <2>1, <2>4, SameMachine
<1>5. CASE NoTransition(t)
  BY <1>1, <1>5, GotoStep DEF NoTransition
<1>6. CASE Transition(t)
  <2>1. /\ stack[t] # <<>> /\ UNCHANGED <<states, current, status, live, threw>>
    BY <1>6 DEF Transition
  <2>2. PICK k \in Targets[Top(t).old] :
          IF HasIndex(k) /\ (AssertsEnabled => GetState(k) # Null)
          THEN Become(t, [Top(t) EXCEPT !.pc = "change", !.new = GetState(k)])
          ELSE Pop(t)
    BY <1>6 DEF Transition
  <2>3. CASE HasIndex(k) /\ (AssertsEnabled => GetState(k) # Null)
    <3> DEFINE f == [Top(t) EXCEPT !.pc = "change", !.new = GetState(k)]
    <3>1. Become(t, f)
      BY <2>2, <2>3
    <3>2. GetState(k) \in Reference /\ Listed(GetState(k))
      BY <2>3, FoundIsListed
    <3>3. f \in Frame /\ FrameOK(f)
      BY <1>1, <2>1, <3>2 DEF Frame
    <3>4. StacksOK'
      BY <2>1, <3>1, <3>3, BecomeKeepsStacks DEF MachineInv
    <3> QED
      BY <1>1, <2>1, <3>4, SameMachine
  <2>4. CASE ~(HasIndex(k) /\ (AssertsEnabled => GetState(k) # Null))
    BY <2>1, <2>2, <2>4, PopStep
  <2> QED
    BY <2>3, <2>4
<1>7. CASE Change(t)
  <2>1. /\ stack[t] # <<>> /\ UNCHANGED <<states, current, status, live, threw>>
    BY <1>7 DEF Change
  <2>2. CASE CurrentState = Top(t).new
    <3>1. Goto(t, AfterChange(Top(t).op))
      BY <1>7, <2>2 DEF Change
    <3>2. AfterChange(Top(t).op) \in Pcs /\ Shaped([Top(t) EXCEPT !.pc = AfterChange(Top(t).op)])
      BY <1>1, <2>1, AfterChangeShaped
    <3> HIDE DEF Shaped
    <3> QED
      BY <1>1, <2>1, <3>1, <3>2, GotoStep
  <2>3. CASE CurrentState # Top(t).new
    <3> DEFINE f == [Top(t) EXCEPT !.pc = "enterState", !.old = CurrentState]
    <3>1. Become(t, f)
      BY <1>7, <2>3 DEF Change
    <3>2. f \in Frame /\ FrameOK(f)
      BY <1>1, <2>1, CurrentStateListed DEF Frame
    <3>3. StacksOK'
      BY <2>1, <3>1, <3>2, BecomeKeepsStacks DEF MachineInv
    <3> QED
      BY <1>1, <2>1, <3>3, SameMachine
  <2> QED
    BY <2>2, <2>3
<1>8. CASE ExitOld(t)
  BY <1>1, <1>8, GotoStep DEF ExitOld
<1>9. CASE SetCurrentState(t)
  <2> DEFINE r == Top(t).new
  <2>1. /\ stack[t] # <<>> /\ Goto(t, "onEnter") /\ UNCHANGED <<states, status>>
        /\ current' = IF r = Null THEN -1 ELSE IndexOf[r]
        /\ live' = live \cup ({r} \ {Null})
    BY <1>9 DEF SetCurrentState
  <2>2. r \in Reference /\ Listed(r)
    BY <1>1, <2>1 DEF Frame
  <2>3. StacksOK'
    BY <2>1, GotoKeepsStacks DEF MachineInv
  <2>4. CurrentOK'
    <3>1. CASE r = Null
      BY <2>1, <3>1 DEF MachineInv, StatesOK, CurrentOK
    <3>2. CASE r # Null
      <4>1. IndexOf[r] \in Nat /\ HasIndex(IndexOf[r]) /\ GetState(IndexOf[r]) # Null
        BY <2>2, <3>2, IndexAssumption DEF Reference, Listed
      <4>2. current' = IndexOf[r] /\ states' = states
        BY <2>1, <3>2
      <4>3. IndexOf[r] \in -1 .. Len(states) - 1
        BY <4>1 DEF HasIndex, MachineInv, StatesOK
      <4> QED
        BY <4>1, <4>2, <4>3 DEF CurrentOK, GetState
    <3> QED
      BY <3>1, <3>2
  <2>5. live' \in SUBSET StateObjects
    BY <1>1, <2>1, <2>2 DEF Reference
  <2> QED
    BY <2>1, <2>3, <2>4, <2>5 DEF MachineInv, StatesOK
<1>10. CASE NotifyChanged(t)
  BY <1>1, <1>10, GotoStep DEF NotifyChanged
<1>11. CASE ChangeDone(t)
  <2>1. AfterChange(Top(t).op) \in Pcs /\ Shaped([Top(t) EXCEPT !.pc = AfterChange(Top(t).op)])
    BY <1>1, <1>11, AfterChangeShaped DEF ChangeDone
  <2> HIDE DEF Shaped
  <2> QED
    BY <1>1, <1>11, <2>1, GotoStep DEF ChangeDone
<1>12. CASE SetRunning(t)
  BY <1>1, <1>12, GotoStep DEF SetRunning
<1>13. CASE SetPaused(t)
  BY <1>1, <1>13, GotoStep DEF SetPaused
<1>14. CASE SetResumed(t)
  BY <1>1, <1>14, GotoStep DEF SetResumed
<1>15. CASE LastCallback(t)
  BY <1>1, <1>15, GotoStep DEF LastCallback
<1>16. CASE Throw(t)
  BY <1>16, PopStep DEF Throw, InUserCode
<1> QED
  BY <1>2, <1>3, <1>4, <1>5, <1>6, <1>7, <1>8, <1>9, <1>10, <1>11, <1>12,
     <1>13, <1>14, <1>15, <1>16 DEF Inside

\* Every step of the machine keeps its invariant.
LEMMA MachineStep ==
    ASSUME MachineInv, [MachineNext]_machineVars
    PROVE  MachineInv'
<1>1. CASE \E o \in StateObjects : AddState(o)
  BY <1>1, AddStateStep
<1>2. ASSUME NEW t \in Threads, NEW op \in Operations, Call(t, op)
      PROVE  MachineInv'
  BY <1>2, PushStep DEF Call
<1>3. ASSUME NEW t \in Threads, Inside(t)
      PROVE  MachineInv'
  BY <1>3, InsideStep
<1>4. ASSUME NEW t \in Threads, Return(t)
      PROVE  MachineInv'
  BY <1>4, PopStep DEF Return, At
<1>5. CASE UNCHANGED machineVars
  BY <1>5 DEF machineVars, MachineInv, StatesOK, CurrentOK, StacksOK, Listed,
              HasIndex, GetState, FrameOK, Shaped
<1> QED
  BY <1>1, <1>2, <1>3, <1>4, <1>5 DEF MachineNext

LEMMA MachineInitially ==
    ASSUME MachineInit
    PROVE  MachineInv
BY DEF MachineInit, MachineInv, StatesOK, CurrentOK, StacksOK, Statuses, Reference

LEMMA MachineTyped ==
    ASSUME MachineInv
    PROVE  MachineTypeOK
BY DEF MachineInv, StatesOK, CurrentOK, StacksOK, MachineTypeOK

\* Whatever threads and callbacks call, and wherever user code throws, the
\* machine keeps its states at their own indexes and its current index, if any,
\* at one of them.
THEOREM MachineTypeCorrect == MachineSpec => []MachineTypeOK
<1>1. MachineInit => MachineInv
  BY MachineInitially
<1>2. MachineInv /\ [MachineNext]_machineVars => MachineInv'
  BY MachineStep
<1>3. MachineInv => MachineTypeOK
  BY MachineTyped
<1> QED
  BY <1>1, <1>2, <1>3, PTL DEF MachineSpec

-----------------------------------------------------------------------------
(* Frames of a kind, in any stack: what keeps one there.                   *)

AnyFrame(S) == \E t \in Threads : \E i \in 1 .. Len(stack[t]) : stack[t][i] \in S

\* A call leaves the frames below it, and adds its own.
LEMMA PushKeepsFrame ==
    ASSUME NEW S, MachineInv, NEW t \in Threads, NEW f \in Frame, Push(t, f),
           AnyFrame(S) \/ f \in S
    PROVE  AnyFrame(S)'
<1>1. stack \in [Threads -> Seq(Frame)]
  BY DEF MachineInv, StacksOK
<1>2. /\ \A u \in Threads \ {t} : stack'[u] = stack[u]
      /\ Len(stack[t]) \in Nat
      /\ Len(stack'[t]) = Len(stack[t]) + 1
      /\ \A i \in 1 .. Len(stack[t]) : stack'[t][i] = stack[t][i]
      /\ stack'[t][Len(stack[t]) + 1] = f
  BY <1>1, PushFacts
<1>3. CASE f \in S
  <2>1. Len(stack[t]) + 1 \in 1 .. Len(stack'[t]) /\ stack'[t][Len(stack[t]) + 1] \in S
    BY <1>2, <1>3
  <2> QED
    BY <2>1 DEF AnyFrame
<1>4. CASE AnyFrame(S)
  <2>1. PICK u \in Threads : \E i \in 1 .. Len(stack[u]) : stack[u][i] \in S
    BY <1>4 DEF AnyFrame
  <2>2. PICK i \in 1 .. Len(stack[u]) : stack[u][i] \in S
    BY <2>1
  <2>3. i \in 1 .. Len(stack'[u]) /\ stack'[u][i] = stack[u][i]
    BY <1>1, <1>2
  <2> QED
    BY <2>2, <2>3 DEF AnyFrame
<1> QED
  BY <1>3, <1>4

\* A method that returns or is abandoned loses its own frame only.
LEMMA PopKeepsFrame ==
    ASSUME NEW S, MachineInv, NEW t \in Threads, stack[t] # <<>>, Pop(t),
           AnyFrame(S), Top(t) \notin S
    PROVE  AnyFrame(S)'
<1>1. stack \in [Threads -> Seq(Frame)]
  BY DEF MachineInv, StacksOK
<1>2. /\ \A u \in Threads \ {t} : stack'[u] = stack[u]
      /\ Len(stack[t]) \in Nat \ {0}
      /\ Len(stack'[t]) = Len(stack[t]) - 1
      /\ \A i \in 1 .. Len(stack[t]) - 1 : stack'[t][i] = stack[t][i]
  BY <1>1, PopFacts
<1>3. PICK u \in Threads : \E i \in 1 .. Len(stack[u]) : stack[u][i] \in S
  BY DEF AnyFrame
<1>4. PICK i \in 1 .. Len(stack[u]) : stack[u][i] \in S
  BY <1>3
<1>5. u # t \/ i # Len(stack[t])
  BY <1>4 DEF Top
<1>6. i \in 1 .. Len(stack'[u]) /\ stack'[u][i] = stack[u][i]
  BY <1>1, <1>2, <1>5
<1> QED
  BY <1>4, <1>6 DEF AnyFrame

\* A step inside a method replaces its own frame only.
LEMMA BecomeKeepsFrame ==
    ASSUME NEW S, MachineInv, NEW t \in Threads, stack[t] # <<>>, NEW f \in Frame,
           Become(t, f), f \in S \/ (AnyFrame(S) /\ Top(t) \notin S)
    PROVE  AnyFrame(S)'
<1>1. stack \in [Threads -> Seq(Frame)]
  BY DEF MachineInv, StacksOK
<1>2. /\ \A u \in Threads \ {t} : stack'[u] = stack[u]
      /\ Len(stack[t]) \in Nat \ {0}
      /\ Len(stack'[t]) = Len(stack[t])
      /\ \A i \in 1 .. Len(stack[t]) - 1 : stack'[t][i] = stack[t][i]
      /\ stack'[t][Len(stack[t])] = f
  BY <1>1, BecomeFacts
<1>3. CASE f \in S
  BY <1>2, <1>3 DEF AnyFrame
<1>4. CASE AnyFrame(S) /\ Top(t) \notin S
  <2>1. PICK u \in Threads : \E i \in 1 .. Len(stack[u]) : stack[u][i] \in S
    BY <1>4 DEF AnyFrame
  <2>2. PICK i \in 1 .. Len(stack[u]) : stack[u][i] \in S
    BY <2>1
  <2>3. u # t \/ i # Len(stack[t])
    BY <1>4, <2>2 DEF Top
  <2>4. i \in 1 .. Len(stack'[u]) /\ stack'[u][i] = stack[u][i]
    BY <1>1, <1>2, <2>3
  <2> QED
    BY <2>2, <2>4 DEF AnyFrame
<1> QED
  BY <1>3, <1>4

-----------------------------------------------------------------------------
(* One thread: what holds between the callbacks of a method, and in the    *)
(* calls that those callbacks make.                                        *)

\* Callbacks after which a method writes nothing but the status, and start that last.
LateCallbacks == {"onEnter", "exitState", "pauseState", "onResume"}

\* Where a change of state is, before it writes the index and after that.
Changing == {"change", "enterState", "onExit"}
Entered == {"onEnter", "exitState", "running"}

Built == DefaultBuilt /\ (AssertsEnabled \/ TargetsBuilt)

\* A state that is found where its index says, and not another one in its place.
Found(r) == r = Null \/ (HasIndex(IndexOf[r]) /\ GetState(IndexOf[r]) = r)

\* What the frame that runs relies on.
Doing(f) ==
    /\ f.pc \in {"check", "halt"} => f.new = Null
    /\ f.pc = "halt" => f.op = "stop"
    /\ f.pc = "begin" => /\ f.op \in {"pause", "resume", "tick"}
                         /\ status = IF f.op = "resume" THEN "Paused" ELSE "Running"
    /\ f.pc = "onPause" => status = "Running"
    /\ f.pc = "resumeState" => status = "Paused"
    /\ f.pc = "evaluate" =>
         f.op = "tick" /\ status = "Running" /\ f.old = CurrentState /\ f.old # Null
    /\ f.pc \in Changing =>
         /\ status = IF f.op \in {"start", "stop"} THEN "Stopped" ELSE "Running"
         /\ Found(f.new)
         /\ f.op = "stop" => f.new = Null
         /\ f.op # "stop" /\ Built => f.new # Null
    /\ f.pc \in {"enterState", "onExit"} => f.old = CurrentState
    /\ f.pc = "onExit" => live = {}

\* The outermost call of t is a start that is at work.
Starting(t) ==
    /\ stack[t] # <<>>
    /\ stack[t][1].op = "start" /\ stack[t][1].pc \notin {"check", "return"}

HasEntered(t) == Starting(t) /\ stack[t][1].pc \in Entered

\* No call from a callback of start does anything, as the machine is still stopped.
CallsOK(t) ==
    /\ \A i \in 1 .. Len(stack[t]) - 1 : stack[t][i].pc \in LateCallbacks
    /\ \A i \in 2 .. Len(stack[t]) : stack[t][i].op # "start"
    /\ Starting(t) =>
         status = "Stopped" /\ \A i \in 2 .. Len(stack[t]) : stack[t][i].pc \in {"check", "return"}
    /\ stack[t] # <<>> => Doing(Top(t))

\* The current state, by the status and by what the calls are at.
StateOK(t) ==
    /\ NotStoppedHasState
    /\ HasEntered(t) /\ Built => current # -1
    /\ ~threw /\ status = "Stopped" =>
         \/ current = -1
         \/ HasEntered(t)
         \/ stack[t] # <<>> /\ Top(t).op = "stop" /\ Top(t).pc \in Changing
    /\ live \subseteq {CurrentState}
    /\ ~threw => live = {CurrentState} \ {Null} \/ At(t, "onExit")

CallInv(t) == MachineInv /\ CallsOK(t) /\ StateOK(t)

\* The frame at the top, for a thread that is in a call.
LEMMA WorkFacts ==
    ASSUME NEW t \in Threads, CallInv(t), stack[t] # <<>>
    PROVE  /\ Len(stack[t]) \in Nat \ {0}
           /\ Top(t) = stack[t][Len(stack[t])] /\ Top(t) \in Frame
           /\ Doing(Top(t))
           /\ Top(t).op = "start" => Len(stack[t]) = 1
<1>1. stack[t] \in Seq(Frame) /\ Len(stack[t]) \in Nat \ {0}
  BY DEF CallInv, MachineInv, StacksOK
<1>2. \A n \in Nat \ {0} : n # 1 => n \in 2 .. n
  OBVIOUS
<1>3. Top(t) \in Frame
  BY TopFacts DEF CallInv, MachineInv
<1>4. Top(t) = stack[t][Len(stack[t])]
  BY DEF Top
<1>5. Doing(Top(t)) /\ \A i \in 2 .. Len(stack[t]) : stack[t][i].op # "start"
  BY DEF CallInv, CallsOK
<1> QED
  BY <1>1, <1>2, <1>3, <1>4, <1>5

\* A step of a method that is at work, which is no call that start has refused.
LEMMA WorkStep ==
    ASSUME NEW t \in Threads, CallInv(t), MachineInv', stack[t] # <<>>,
           NEW f \in Frame, Become(t, f), Top(t).pc \notin {"check", "return"},
           f.op = Top(t).op, f.pc # "check", UNCHANGED threw, Doing(f)',
           f.op = "start" /\ f.pc # "return" => status' = "Stopped",
           f.op = "start" /\ f.pc \in Entered /\ Built' => current' # -1,
           NotStoppedHasState', live' \subseteq {CurrentState'},
           ~threw => live' = {CurrentState'} \ {Null} \/ f.pc = "onExit",
           ~threw /\ status' = "Stopped" =>
             \/ current' = -1
             \/ f.op = "start" /\ f.pc \in Entered
             \/ f.op = "stop" /\ f.pc \in Changing
    PROVE  CallInv(t)'
<1> DEFINE n == Len(stack[t])
<1>1. n \in Nat \ {0} /\ Top(t) = stack[t][n] /\ (Top(t).op = "start" => n = 1)
  BY WorkFacts
<1>2. /\ stack'[t] # <<>> /\ Len(stack'[t]) = n /\ stack'[t][n] = f
      /\ \A i \in 1 .. n - 1 : stack'[t][i] = stack[t][i]
  <2>1. stack \in [Threads -> Seq(Frame)]
    BY DEF CallInv, MachineInv, StacksOK
  <2>2. /\ stack' \in [Threads -> Seq(Frame)] /\ Len(stack'[t]) = n /\ stack'[t][n] = f
        /\ \A i \in 1 .. n - 1 : stack'[t][i] = stack[t][i]
    BY <2>1, BecomeFacts
  <2> QED
    BY <1>1, <2>2
<1>3. /\ \A i \in 1 .. n - 1 : stack[t][i].pc \in LateCallbacks
      /\ \A i \in 2 .. n : stack[t][i].op # "start"
      /\ Starting(t) => \A i \in 2 .. n : stack[t][i].pc \in {"check", "return"}
  BY DEF CallInv, CallsOK
<1> HIDE DEF n
<1>4. n # 1 => n \in 2 .. n /\ 1 \in 1 .. n - 1
  BY <1>1
<1>5. Top(t)' = f
  BY <1>2 DEF Top
<1>6. n # 1 => ~Starting(t) /\ ~Starting(t)'
  BY <1>1, <1>2, <1>3, <1>4 DEF Starting
<1>7. n = 1 => stack'[t][1] = f
  BY <1>2
<1>8. \A i \in 1 .. n - 1 : stack'[t][i].pc \in LateCallbacks
  BY <1>2, <1>3
<1>9. ASSUME NEW i \in 2 .. n
      PROVE  stack'[t][i].op # "start"
  <2>1. CASE i = n
    BY <1>1, <1>2, <1>3, <2>1
  <2>2. CASE i # n
    BY <1>1, <1>2, <1>3, <2>2
  <2> QED
    BY <2>1, <2>2
<1>10. Starting(t)' =>
         status' = "Stopped" /\ \A i \in 2 .. n : stack'[t][i].pc \in {"check", "return"}
  <2>1. n = 1 => \A i \in 2 .. n : FALSE
    OBVIOUS
  <2> QED
    BY <1>6, <1>7, <2>1 DEF Starting
<1>11. CallsOK(t)'
  BY <1>2, <1>5, <1>8, <1>9, <1>10 DEF CallsOK
<1>12. HasEntered(t)' <=> n = 1 /\ f.op = "start" /\ f.pc \in Entered
  BY <1>2, <1>6, <1>7 DEF HasEntered, Starting, Entered
<1>13. At(t, "onExit")' <=> f.pc = "onExit"
  BY <1>2, <1>5 DEF At
<1>14. StateOK(t)'
  <2>1. HasEntered(t)' /\ Built' => current' # -1
    BY <1>12
  <2>2. ~threw' /\ status' = "Stopped" =>
          \/ current' = -1
          \/ HasEntered(t)'
          \/ stack'[t] # <<>> /\ Top(t)'.op = "stop" /\ Top(t)'.pc \in Changing
    BY <1>1, <1>2, <1>5, <1>12
  <2>3. ~threw' => live' = {CurrentState'} \ {Null} \/ At(t, "onExit")'
    BY <1>13
  <2> QED
    BY <2>1, <2>2, <2>3 DEF StateOK
<1> QED
  BY <1>11, <1>14 DEF CallInv

\* The states do not change while a call has not returned.
LEMMA SameStates ==
    ASSUME UNCHANGED states
    PROVE  /\ Built' = Built
           /\ \A r : Found(r)' = Found(r)
           /\ current' = current => CurrentState' = CurrentState
BY DEF Built, DefaultBuilt, TargetsBuilt, Found, CurrentState, HasIndex, GetState

LEMMA CallStep ==
    ASSUME NEW t \in Threads, CallInv(t), MachineInv', NEW op \in Operations, Call(t, op),
           ReentrantFrom \subseteq LateCallbacks, "start" \notin ReentrantOps
    PROVE  CallInv(t)'
<1> DEFINE f == [op |-> op, pc |-> "check", old |-> Null, new |-> Null]  n == Len(stack[t])
<1>1. f \in Frame /\ f.op = op /\ f.pc = "check" /\ f.new = Null
  BY DEF Frame, Pcs, Reference
<1>2. UNCHANGED <<states, current, status, live, threw>> /\ Push(t, f)
  BY DEF Call
<1>3. /\ n \in Nat /\ (stack[t] = <<>> <=> n = 0)
      /\ Len(stack'[t]) = n + 1 /\ stack'[t][n + 1] = f
      /\ \A i \in 1 .. n : stack'[t][i] = stack[t][i]
  <2>1. stack \in [Threads -> Seq(Frame)] /\ stack[t] \in Seq(Frame)
    BY DEF CallInv, MachineInv, StacksOK
  <2> QED
    BY <1>1, <1>2, <2>1, PushFacts
<1>4. stack[t] # <<>> => Top(t) = stack[t][n] /\ Top(t).pc \in LateCallbacks /\ op # "start"
  BY DEF Call, MayCall, Top
<1>5. /\ \A i \in 1 .. n - 1 : stack[t][i].pc \in LateCallbacks
      /\ \A i \in 2 .. n : stack[t][i].op # "start"
      /\ Starting(t) =>
           status = "Stopped" /\ \A i \in 2 .. n : stack[t][i].pc \in {"check", "return"}
  BY DEF CallInv, CallsOK
<1> HIDE DEF f, n
<1>6. n # 0 => stack'[t][1] = stack[t][1]
  BY <1>3
<1>7. Len(stack'[t]) # 0 /\ Top(t)' = f
  BY <1>3 DEF Top
<1>8. stack'[t] # <<>>
  <2>1. stack'[t] = <<>> => Len(stack'[t]) = 0
    OBVIOUS
  <2> QED
    BY <1>7, <2>1
<1>9. n = 0 => stack'[t][1].pc = "check" /\ ~Starting(t)
  BY <1>1, <1>3 DEF Starting
<1>10. Starting(t)' <=> Starting(t)
  BY <1>3, <1>6, <1>8, <1>9 DEF Starting
<1>11. HasEntered(t)' <=> HasEntered(t)
  BY <1>3, <1>6, <1>9, <1>10 DEF HasEntered
<1>12. \A i \in 1 .. n : stack'[t][i].pc \in LateCallbacks
  <2> SUFFICES ASSUME NEW i \in 1 .. n
               PROVE  stack'[t][i].pc \in LateCallbacks
    OBVIOUS
  <2>1. CASE i = n
    BY <1>3, <1>4, <2>1
  <2>2. CASE i # n
    BY <1>3, <1>5, <2>2
  <2> QED
    BY <2>1, <2>2
<1>13. ASSUME NEW i \in 2 .. n + 1
       PROVE  /\ stack'[t][i].op # "start"
              /\ Starting(t)' => stack'[t][i].pc \in {"check", "return"}
  <2>1. CASE i = n + 1
    <3>1. n # 0
      BY <1>3, <2>1
    <3> QED
      BY <1>1, <1>3, <1>4, <2>1, <3>1
  <2>2. CASE i # n + 1
    <3>1. i \in 2 .. n /\ i \in 1 .. n
      BY <1>3, <2>2
    <3> QED
      BY <1>3, <1>5, <1>10, <3>1
  <2> QED
    BY <2>1, <2>2
<1>14. Doing(f)'
  BY <1>1 DEF Doing, Changing
<1>15. CallsOK(t)'
  <2>1. Len(stack'[t]) - 1 = n
    BY <1>3
  <2>2. Doing(Top(t))'
    BY <1>7, <1>14 DEF Doing
  <2> QED
    BY <1>2, <1>3, <1>5, <1>10, <1>12, <1>13, <2>1, <2>2 DEF CallsOK
<1>16. CurrentState' = CurrentState /\ Built' = Built
  BY <1>2, SameStates
<1>17. ~At(t, "onExit") /\ (stack[t] # <<>> => Top(t).pc \notin Changing)
  BY <1>4 DEF At, LateCallbacks, Changing
<1>18. StateOK(t) /\ NotStoppedHasState'
  BY <1>2 DEF CallInv, StateOK, NotStoppedHasState, DefaultBuilt, TargetsBuilt, HasIndex, GetState
<1>19. StateOK(t)'
  BY <1>2, <1>11, <1>16, <1>17, <1>18 DEF StateOK
<1> QED
  BY <1>15, <1>19 DEF CallInv

\* A method returns, or its callback throws.
LEMMA LeaveStep ==
    ASSUME NEW t \in Threads, CallInv(t), MachineInv', stack[t] # <<>>, Pop(t),
           UNCHANGED <<states, current, status, live>>,
           threw' = TRUE \/ (threw' = threw /\ Top(t).pc \notin Changing \cup Entered)
    PROVE  CallInv(t)'
<1> DEFINE n == Len(stack[t])
<1>1. n \in Nat \ {0} /\ Top(t) = stack[t][n]
  BY WorkFacts
<1>2. /\ stack'[t] \in Seq(Frame) /\ Len(stack'[t]) = n - 1
      /\ \A i \in 1 .. n - 1 : stack'[t][i] = stack[t][i]
  <2>1. stack \in [Threads -> Seq(Frame)]
    BY DEF CallInv, MachineInv, StacksOK
  <2> QED
    BY <2>1, PopFacts
<1>3. /\ \A i \in 1 .. n - 1 : stack[t][i].pc \in LateCallbacks
      /\ \A i \in 2 .. n : stack[t][i].op # "start"
      /\ Starting(t) =>
           status = "Stopped" /\ \A i \in 2 .. n : stack[t][i].pc \in {"check", "return"}
  BY DEF CallInv, CallsOK
<1> HIDE DEF n
<1>4. stack'[t] = <<>> <=> n = 1
  BY <1>1, <1>2
<1>5. n # 1 => 1 \in 1 .. n - 1 /\ n - 1 \in 1 .. n - 1
  BY <1>1
<1>6. Starting(t)' <=> n # 1 /\ Starting(t)
  BY <1>2, <1>4, <1>5 DEF Starting
<1>7. HasEntered(t)' <=> n # 1 /\ HasEntered(t)
  BY <1>2, <1>5, <1>6 DEF HasEntered
<1>8. stack'[t] # <<>> => Top(t)'.pc \in LateCallbacks
  BY <1>2, <1>3, <1>4, <1>5 DEF Top
<1>9. \A i \in 1 .. n - 1 : stack'[t][i].pc \in LateCallbacks
  BY <1>2, <1>3
<1>10. \A i \in 2 .. n - 1 : i \in 1 .. n - 1 /\ i \in 2 .. n
  BY <1>1
<1>11. /\ \A i \in 2 .. n - 1 : stack'[t][i].op # "start"
       /\ Starting(t)' => status' = "Stopped" /\ \A i \in 2 .. n - 1 : stack'[t][i].pc \in {"check", "return"}
  BY <1>2, <1>3, <1>6, <1>10
<1>12. stack'[t] # <<>> => Doing(Top(t))'
  BY <1>8 DEF Doing, LateCallbacks, Changing
<1>13. CallsOK(t)'
  <2>1. \A i \in 1 .. n - 1 - 1 : i \in 1 .. n - 1
    BY <1>1
  <2> QED
    BY <1>2, <1>9, <1>11, <1>12, <2>1 DEF CallsOK
<1>14. CurrentState' = CurrentState /\ Built' = Built
  BY SameStates
<1>15. StateOK(t) /\ NotStoppedHasState'
  BY DEF CallInv, StateOK, NotStoppedHasState, DefaultBuilt, TargetsBuilt, HasIndex, GetState
<1>16. \/ threw' = threw /\ ~At(t, "onExit") /\ Top(t).pc \notin Changing /\ (HasEntered(t) => n # 1)
       \/ threw'
  BY <1>1 DEF At, Changing, HasEntered
<1>17. StateOK(t)'
  <2>1. HasEntered(t)' /\ Built' => current' # -1
    BY <1>7, <1>14, <1>15 DEF StateOK
  <2>2. ~threw' => ~threw /\ ~At(t, "onExit") /\ Top(t).pc \notin Changing /\ (HasEntered(t) => HasEntered(t)')
    BY <1>7, <1>16
  <2> QED
    BY <1>14, <1>15, <2>1, <2>2 DEF StateOK
<1> QED
  BY <1>13, <1>17 DEF CallInv

\* The first step of a method.
LEMMA EnterStep ==
    ASSUME NEW t \in Threads, CallInv(t), MachineInv', stack[t] # <<>>, Top(t).pc = "check",
           NEW f \in Frame, Become(t, f), f.op = Top(t).op,
           UNCHANGED <<states, current, status, live, threw>>, Doing(f),
           \/ f.pc = "return"
           \/ f.pc = "change" /\ f.op = "start"
           \/ f.pc \in {"halt", "begin"} /\ f.op # "start" /\ status # "Stopped"
    PROVE  CallInv(t)'
<1> DEFINE n == Len(stack[t])
<1>1. n \in Nat \ {0} /\ Top(t) = stack[t][n] /\ (Top(t).op = "start" => n = 1)
  BY WorkFacts
<1>2. /\ stack'[t] # <<>> /\ Len(stack'[t]) = n /\ stack'[t][n] = f
      /\ \A i \in 1 .. n - 1 : stack'[t][i] = stack[t][i]
  <2>1. stack \in [Threads -> Seq(Frame)]
    BY DEF CallInv, MachineInv, StacksOK
  <2>2. /\ stack' \in [Threads -> Seq(Frame)] /\ Len(stack'[t]) = n /\ stack'[t][n] = f
        /\ \A i \in 1 .. n - 1 : stack'[t][i] = stack[t][i]
    BY <2>1, BecomeFacts
  <2> QED
    BY <1>1, <2>2
<1>3. /\ \A i \in 1 .. n - 1 : stack[t][i].pc \in LateCallbacks
      /\ \A i \in 2 .. n : stack[t][i].op # "start"
      /\ Starting(t) =>
           status = "Stopped" /\ \A i \in 2 .. n : stack[t][i].pc \in {"check", "return"}
  BY DEF CallInv, CallsOK
<1> HIDE DEF n
<1>4. n # 1 => n \in 2 .. n /\ 1 \in 1 .. n - 1
  BY <1>1
<1>5. Top(t)' = f
  BY <1>2 DEF Top
<1>6. n = 1 => ~Starting(t) /\ (Starting(t)' => f.op = "start" /\ f.pc = "change")
  BY <1>1, <1>2 DEF Starting
<1>7. n # 1 => (Starting(t)' <=> Starting(t)) /\ f.pc # "change"
  BY <1>1, <1>2, <1>4 DEF Starting
<1>8. Starting(t)' => status = "Stopped"
  BY <1>3, <1>6, <1>7 DEF Doing, Changing
<1>9. HasEntered(t)' <=> HasEntered(t)
  <2>1. n = 1 => ~HasEntered(t) /\ ~HasEntered(t)'
    BY <1>2, <1>6 DEF HasEntered, Entered
  <2>2. n # 1 => (HasEntered(t)' <=> HasEntered(t))
    BY <1>2, <1>4, <1>7 DEF HasEntered
  <2> QED
    BY <2>1, <2>2
<1>10. \A i \in 1 .. n - 1 : stack'[t][i].pc \in LateCallbacks
  BY <1>2, <1>3
<1>11. ASSUME NEW i \in 2 .. n
       PROVE  /\ stack'[t][i].op # "start"
              /\ Starting(t)' => stack'[t][i].pc \in {"check", "return"}
  <2>1. n # 1
    BY <1>1
  <2>2. CASE i = n
    BY <1>1, <1>2, <1>3, <1>7, <1>8, <2>1, <2>2
  <2>3. CASE i # n
    BY <1>1, <1>2, <1>3, <1>7, <2>1, <2>3
  <2> QED
    BY <2>2, <2>3
<1>12. Doing(f)'
  BY SameStates DEF Doing
<1>13. CallsOK(t)'
  BY <1>2, <1>5, <1>8, <1>10, <1>11, <1>12 DEF CallsOK
<1>14. CurrentState' = CurrentState /\ Built' = Built
  BY SameStates
<1>15. ~At(t, "onExit") /\ Top(t).pc \notin Changing
  BY DEF At, Changing
<1>16. StateOK(t) /\ NotStoppedHasState'
  BY DEF CallInv, StateOK, NotStoppedHasState, DefaultBuilt, TargetsBuilt, HasIndex, GetState
<1>17. StateOK(t)'
  BY <1>9, <1>14, <1>15, <1>16 DEF StateOK
<1> QED
  BY <1>13, <1>17 DEF CallInv

\* A step of a method that is at work, and that changes only where it is.
LEMMA QuietStep ==
    ASSUME NEW t \in Threads, CallInv(t), MachineInv', stack[t] # <<>>,
           NEW f \in Frame, Become(t, f), Top(t).pc \notin {"check", "return", "onExit"},
           f.op = Top(t).op, f.pc # "check",
           UNCHANGED <<states, current, status, live, threw>>, Doing(f),
           f.op = "start" /\ f.pc \in Entered /\ Built => current # -1,
           f.op = "start" /\ Top(t).pc \in Entered => f.pc \in Entered,
           f.op = "stop" /\ Top(t).pc \in Changing => f.pc \in Changing \/ current = -1
    PROVE  CallInv(t)'
<1>1. CurrentState' = CurrentState /\ Built' = Built
  BY SameStates
<1>2. Doing(f)'
  BY SameStates DEF Doing
<1>3. StateOK(t) /\ NotStoppedHasState'
  BY DEF CallInv, StateOK, NotStoppedHasState, DefaultBuilt, TargetsBuilt, HasIndex, GetState
<1>4. Top(t).op = "start" => Top(t) = stack[t][1]
  BY WorkFacts
<1>5. Starting(t) => status = "Stopped" /\ Top(t) = stack[t][1]
  <2>1. Len(stack[t]) # 1 => Len(stack[t]) \in 2 .. Len(stack[t])
    <3>1. \A n \in Nat \ {0} : n # 1 => n \in 2 .. n
      OBVIOUS
    <3> QED
      BY <3>1, WorkFacts
  <2>2. Starting(t) => Len(stack[t]) = 1
    BY <2>1, WorkFacts DEF CallInv, CallsOK
  <2> QED
    BY <2>2, WorkFacts DEF CallInv, CallsOK
<1>6. f.op = "start" => status = "Stopped"
  BY <1>4, <1>5 DEF Starting
<1>7. HasEntered(t) => f.op = "start" /\ f.pc \in Entered
  BY <1>5 DEF HasEntered, Starting
<1>8. ~threw /\ status = "Stopped" =>
        \/ current = -1
        \/ f.op = "start" /\ f.pc \in Entered
        \/ f.op = "stop" /\ f.pc \in Changing
  BY <1>3, <1>7 DEF StateOK
<1>9. ~threw => live = {CurrentState} \ {Null}
  BY <1>3 DEF StateOK, At
<1>10. live \subseteq {CurrentState}
  BY <1>3 DEF StateOK
<1> QED
  BY <1>1, <1>2, <1>3, <1>6, <1>8, <1>9, <1>10, WorkStep

\* A state of the list is found at its index.
LEMMA GetStateFound ==
    ASSUME MachineInv, NEW k, HasIndex(k)
    PROVE  GetState(k) \in Reference /\ Found(GetState(k))
<1>1. states[k + 1] \in Reference
  BY DEF MachineInv, StatesOK, HasIndex
<1>2. ASSUME states[k + 1] # Null
      PROVE  IndexOf[states[k + 1]] + 1 = k + 1
  <2>1. k + 1 \in Int /\ IndexOf[states[k + 1]] = (k + 1) - 1
    BY <1>2 DEF MachineInv, StatesOK, HasIndex
  <2> QED
    BY <2>1
<1> QED
  BY <1>1, <1>2 DEF GetState, Found, HasIndex

\* There is a current state when the index says so, and only then.
LEMMA CurrentStateFacts ==
    ASSUME MachineInv
    PROVE  /\ CurrentState \in Reference
           /\ CurrentState = Null <=> current = -1
<1>1. current \in Int /\ current >= -1
  BY DEF MachineInv, StatesOK, CurrentOK
<1>2. current = -1 <=> current < 0
  BY <1>1
<1> QED
  BY <1>1, <1>2, CurrentStateListed DEF CurrentState, MachineInv, CurrentOK

LEMMA CheckStep ==
    ASSUME NEW t \in Threads, CallInv(t), MachineInv', Check(t)
    PROVE  CallInv(t)'
<1>1. /\ stack[t] # <<>> /\ Top(t).pc = "check"
      /\ UNCHANGED <<states, current, status, live, threw>>
  BY DEF Check, At
<1>2. PICK g \in Frame : g = Top(t)
  BY <1>1, WorkFacts
<1>3. g.op \in Operations /\ g.pc = "check" /\ g.new = Null
  BY <1>1, <1>2, WorkFacts DEF Frame, Doing
<1>4. ASSUME NEW p \in {"return", "halt", "begin"}, Goto(t, p),
             p = "halt" => g.op = "stop" /\ status # "Stopped",
             p = "begin" => /\ g.op \in {"pause", "resume", "tick"}
                            /\ status = IF g.op = "resume" THEN "Paused" ELSE "Running"
      PROVE  CallInv(t)'
  <2>1. PICK f \in Frame : f = [g EXCEPT !.pc = p]
    BY DEF Frame, Pcs
  <2>2. f.op = g.op /\ f.pc = p /\ f.new = Null
    BY <1>3, <2>1 DEF Frame
  <2>3. Become(t, f)
    BY <1>2, <1>4, <2>1 DEF Goto
  <2>4. Doing(f)
    BY <1>4, <2>2 DEF Doing, Changing
  <2> QED
    BY <1>1, <1>2, <1>4, <2>2, <2>3, <2>4, EnterStep
<1>5. CASE ~Allowed(g.op)
  BY <1>2, <1>4, <1>5 DEF Check
<1>6. CASE Allowed(g.op) /\ g.op = "start"
  <2>1. status = "Stopped"
    BY <1>6 DEF Allowed
  <2>2. CASE HasIndex(0)
    <3>1. GetState(0) \in Reference /\ Found(GetState(0)) /\ (Built => GetState(0) # Null)
      BY <2>2, GetStateFound DEF CallInv, Built, DefaultBuilt
    <3>2. PICK f \in Frame : f = [g EXCEPT !.pc = "change", !.new = GetState(0)]
      BY <3>1 DEF Frame, Pcs
    <3>3. f.op = "start" /\ f.pc = "change" /\ f.new = GetState(0)
      BY <1>6, <3>2 DEF Frame
    <3>4. Become(t, f)
      BY <1>2, <1>6, <2>2, <3>2 DEF Check
    <3>5. Doing(f)
      BY <2>1, <3>1, <3>3 DEF Doing, Changing
    <3> QED
      BY <1>1, <1>2, <1>6, <3>3, <3>4, <3>5, EnterStep
  <2>3. CASE ~HasIndex(0)
    <3>1. Pop(t)
      BY <1>2, <1>6, <2>3 DEF Check
    <3> QED
      BY <1>1, <3>1, LeaveStep DEF Changing, Entered
  <2> QED
    BY <2>2, <2>3
<1>7. CASE Allowed(g.op) /\ g.op = "stop"
  <2>1. Goto(t, "halt") /\ status # "Stopped"
    BY <1>2, <1>7 DEF Check, Allowed
  <2> QED
    BY <1>4, <1>7, <2>1
<1>8. CASE Allowed(g.op) /\ g.op \in {"pause", "resume", "tick"}
  <2>1. Goto(t, "begin") /\ status = IF g.op = "resume" THEN "Paused" ELSE "Running"
    BY <1>2, <1>8 DEF Check, Allowed
  <2> QED
    BY <1>4, <1>8, <2>1
<1> QED
  BY <1>3, <1>5, <1>6, <1>7, <1>8 DEF Operations

LEMMA ReadStateStep ==
    ASSUME NEW t \in Threads, CallInv(t), MachineInv', Begin(t) \/ NoTransition(t) \/ Transition(t)
    PROVE  CallInv(t)'
<1>1. /\ stack[t] # <<>> /\ Top(t).pc \in {"begin", "evaluate"}
      /\ UNCHANGED <<states, current, status, live, threw>>
  BY DEF Begin, NoTransition, Transition, At
<1>2. PICK g \in Frame : g = Top(t)
  BY <1>1, WorkFacts
<1>3. Doing(g) /\ g.pc \in {"begin", "evaluate"} /\ MachineInv
  BY <1>1, <1>2, WorkFacts DEF CallInv
<1>4. ASSUME NEW f \in Frame, Become(t, f), f.op = g.op, f.pc # "check", Doing(f),
             f.pc \notin Entered
      PROVE  CallInv(t)'
  <2>1. g.op # "start" /\ g.pc \notin Entered \cup Changing
    BY <1>3 DEF Doing, Entered, Changing
  <2> QED
    BY <1>1, <1>2, <1>4, <2>1, QuietStep
<1>5. CASE Begin(t)
  <2> DEFINE next == CASE g.op = "pause"  -> "onPause"
                       [] g.op = "resume" -> "resumeState"
                       [] OTHER -> IF CurrentState = Null THEN "return" ELSE "evaluate"
  <2>1. PICK p \in Pcs : p = next
    BY DEF Pcs, Callbacks
  <2>2. CurrentState \in Reference
    BY <1>3, CurrentStateFacts
  <2>3. PICK f \in Frame : f = [g EXCEPT !.pc = p, !.old = CurrentState]
    BY <2>2 DEF Frame
  <2>4. f.op = g.op /\ f.pc = p /\ f.old = CurrentState
    BY <2>3 DEF Frame
  <2>5. g.pc = "begin" /\ Become(t, f)
    BY <1>2, <1>5, <2>1, <2>3 DEF Begin, At
  <2>6. Doing(f) /\ f.pc \notin Entered /\ f.pc # "check"
    BY <1>3, <2>1, <2>4, <2>5 DEF Doing, Changing, Entered
  <2> QED
    BY <1>4, <2>4, <2>5, <2>6
<1>6. CASE NoTransition(t)
  <2>1. PICK f \in Frame : f = [g EXCEPT !.pc = "return"]
    BY DEF Frame, Pcs
  <2>2. f.op = g.op /\ f.pc = "return"
    BY <2>1 DEF Frame
  <2>3. Become(t, f)
    BY <1>2, <1>6, <2>1 DEF NoTransition, Goto
  <2>4. Doing(f) /\ f.pc \notin Entered
    BY <2>2 DEF Doing, Changing, Entered
  <2> QED
    BY <1>4, <2>2, <2>3, <2>4
<1>7. CASE Transition(t)
  <2>1. g.pc = "evaluate" /\ g.op = "tick" /\ status = "Running" /\ g.old = CurrentState /\ g.old # Null
    BY <1>2, <1>3, <1>7 DEF Transition, At, Doing
  <2>2. PICK k \in Targets[g.old] :
          IF HasIndex(k) /\ (AssertsEnabled => GetState(k) # Null)
          THEN Become(t, [g EXCEPT !.pc = "change", !.new = GetState(k)])
          ELSE Pop(t)
    BY <1>2, <1>7 DEF Transition
  <2>3. CASE HasIndex(k) /\ (AssertsEnabled => GetState(k) # Null)
    <3>1. GetState(k) \in Reference /\ Found(GetState(k))
      BY <1>3, <2>3, GetStateFound
    <3>2. Built => GetState(k) # Null
      <4>1. current \in Int /\ current >= 0 /\ current + 1 \in DOMAIN states
        <5>1. current # -1
          BY <1>3, <2>1, CurrentStateFacts
        <5>2. states \in Seq(Reference) /\ current \in -1 .. Len(states) - 1
          BY <1>3 DEF MachineInv, StatesOK, CurrentOK
        <5> QED
          BY <5>1, <5>2
      <4>2. g.old = states[current + 1]
        BY <2>1, <4>1 DEF CurrentState, GetState
      <4> QED
        BY <2>1, <2>3, <4>1, <4>2 DEF Built, TargetsBuilt
    <3>3. PICK f \in Frame : f = [g EXCEPT !.pc = "change", !.new = GetState(k)]
      BY <3>1 DEF Frame, Pcs
    <3>4. f.op = "tick" /\ f.pc = "change" /\ f.new = GetState(k)
      BY <2>1, <3>3 DEF Frame
    <3>5. Doing(f) /\ f.pc \notin Entered
      BY <2>1, <3>1, <3>2, <3>4 DEF Doing, Changing, Entered
    <3> QED
      BY <1>4, <2>1, <2>2, <2>3, <3>3, <3>4, <3>5
  <2>4. CASE ~(HasIndex(k) /\ (AssertsEnabled => GetState(k) # Null))
    <3>1. Pop(t) /\ Top(t).pc \notin Changing \cup Entered
      BY <1>2, <2>1, <2>2, <2>4 DEF Changing, Entered
    <3> QED
      BY <1>1, <3>1, LeaveStep
  <2> QED
    BY <2>3, <2>4
<1> QED
  BY <1>5, <1>6, <1>7

\* changeState looks at the current state: nothing to do, or a state to leave.
LEMMA ChangeStep ==
    ASSUME NEW t \in Threads, CallInv(t), MachineInv', Change(t)
    PROVE  CallInv(t)'
<1>1. /\ stack[t] # <<>> /\ Top(t).pc = "change"
      /\ UNCHANGED <<states, current, status, live, threw>>
  BY DEF Change, At
<1>2. PICK g \in Frame : g = Top(t)
  BY <1>1, WorkFacts
<1>3. Doing(g) /\ g.pc = "change" /\ g.op \in Operations /\ MachineInv
  BY <1>1, <1>2, WorkFacts DEF CallInv, Frame
<1>4. /\ status = IF g.op \in {"start", "stop"} THEN "Stopped" ELSE "Running"
      /\ Found(g.new)
      /\ g.op = "stop" => g.new = Null
      /\ g.op # "stop" /\ Built => g.new # Null
  BY <1>3 DEF Doing, Changing
<1>5. CurrentState \in Reference /\ (CurrentState = Null <=> current = -1)
  BY <1>3, CurrentStateFacts
<1>6. Top(t).pc \notin {"check", "return", "onExit"} /\ Top(t).pc \notin Entered
  BY <1>1 DEF Entered
<1>7. CASE CurrentState = g.new
  <2>1. PICK p \in Pcs : p = AfterChange(g.op)
    BY <1>3 DEF AfterChange, Pcs
  <2>2. PICK f \in Frame : f = [g EXCEPT !.pc = p]
    BY DEF Frame
  <2>3. f.op = g.op /\ f.pc = IF g.op = "start" THEN "running" ELSE "return"
    BY <2>1, <2>2 DEF Frame, AfterChange
  <2>4. Become(t, f)
    BY <1>2, <1>7, <2>1, <2>2 DEF Change, Goto
  <2>5. Doing(f) /\ f.pc # "check"
    BY <2>3 DEF Doing, Changing
  <2>6. f.op = "start" /\ Built => current # -1
    BY <1>4, <1>5, <1>7, <2>3
  <2>7. f.op = "stop" => current = -1
    BY <1>4, <1>5, <1>7, <2>3
  <2> QED
    BY <1>1, <1>2, <1>6, <2>3, <2>4, <2>5, <2>6, <2>7, QuietStep
<1>8. CASE CurrentState # g.new
  <2>1. PICK f \in Frame : f = [g EXCEPT !.pc = "enterState", !.old = CurrentState]
    BY <1>5 DEF Frame, Pcs, Callbacks
  <2>2. f.op = g.op /\ f.pc = "enterState" /\ f.new = g.new /\ f.old = CurrentState
    BY <2>1 DEF Frame
  <2>3. Become(t, f)
    BY <1>2, <1>8, <2>1 DEF Change
  <2>4. Doing(f) /\ f.pc # "check" /\ f.pc \notin Entered /\ f.pc \in Changing
    BY <1>4, <2>2 DEF Doing, Changing, Entered
  <2> QED
    BY <1>1, <1>2, <1>6, <2>2, <2>3, <2>4, QuietStep
<1> QED
  BY <1>7, <1>8

\* The callbacks after the index was written, and after pause and resume.
LEMMA LateStep ==
    ASSUME NEW t \in Threads, CallInv(t), MachineInv',
           NotifyChanged(t) \/ ChangeDone(t) \/ LastCallback(t)
    PROVE  CallInv(t)'
<1>1. /\ stack[t] # <<>> /\ Top(t).pc \in LateCallbacks
      /\ UNCHANGED <<states, current, status, live, threw>>
  BY DEF NotifyChanged, ChangeDone, LastCallback, At, LateCallbacks
<1>2. PICK g \in Frame : g = Top(t)
  BY <1>1, WorkFacts
<1>3. g.op \in Operations /\ g.pc \in LateCallbacks
  BY <1>1, <1>2 DEF Frame
<1>4. PICK p \in {"exitState", "running", "return"} :
        /\ Goto(t, p)
        /\ g.op = "start" /\ g.pc \in Entered => p \in Entered
        /\ p \in Entered => g.pc \in Entered
  <2>1. CASE NotifyChanged(t)
    BY <1>2, <2>1 DEF NotifyChanged, At, Entered
  <2>2. CASE ChangeDone(t)
    BY <1>2, <2>2 DEF ChangeDone, At, Entered, AfterChange
  <2>3. CASE LastCallback(t)
    BY <1>2, <2>3 DEF LastCallback, At, Entered
  <2> QED
    BY <2>1, <2>2, <2>3
<1>5. PICK f \in Frame : f = [g EXCEPT !.pc = p]
  BY DEF Frame, Pcs, Callbacks
<1>6. f.op = g.op /\ f.pc = p
  BY <1>5 DEF Frame
<1>7. Become(t, f)
  BY <1>2, <1>4, <1>5 DEF Goto
<1>8. Doing(f) /\ f.pc # "check"
  BY <1>6 DEF Doing, Changing
<1>9. g.op = "start" /\ g.pc \in Entered /\ Built => current # -1
  <2>1. Top(t).op = "start" => Len(stack[t]) = 1 /\ Top(t) = stack[t][1]
    BY <1>1, WorkFacts
  <2>2. Top(t).op = "start" /\ Top(t).pc \in Entered => HasEntered(t)
    BY <1>1, <2>1 DEF HasEntered, Starting, Entered
  <2> QED
    BY <1>2, <2>2 DEF CallInv, StateOK
<1>10. Top(t).pc \notin {"check", "return", "onExit"} /\ Top(t).pc \notin Changing
  BY <1>1 DEF LateCallbacks, Changing
<1>11. /\ f.op = "start" /\ f.pc \in Entered /\ Built => current # -1
       /\ f.op = "start" /\ Top(t).pc \in Entered => f.pc \in Entered
  BY <1>2, <1>4, <1>6, <1>9
<1> QED
  BY <1>1, <1>2, <1>6, <1>7, <1>8, <1>10, <1>11, QuietStep

\* A start that is at work is the outermost call, of a machine still stopped.
LEMMA StartFacts ==
    ASSUME NEW t \in Threads, CallInv(t), stack[t] # <<>>, Top(t).pc \notin {"check", "return"}
    PROVE  /\ Top(t).op = "start" => status = "Stopped"
           /\ HasEntered(t) <=> Top(t).op = "start" /\ Top(t).pc \in Entered
<1>1. Top(t).op = "start" => Top(t) = stack[t][1] /\ Starting(t)
  BY WorkFacts DEF Starting
<1>2. Starting(t) => Top(t) = stack[t][1] /\ status = "Stopped"
  <2>1. \A n \in Nat \ {0} : n # 1 => n \in 2 .. n
    OBVIOUS
  <2>2. Len(stack[t]) # 1 => Len(stack[t]) \in 2 .. Len(stack[t])
    BY <2>1, WorkFacts
  <2>3. Starting(t) => Len(stack[t]) = 1
    BY <2>2, WorkFacts DEF CallInv, CallsOK
  <2> QED
    BY <2>3, WorkFacts DEF CallInv, CallsOK
<1> QED
  BY <1>1, <1>2 DEF HasEntered, Starting

\* exitState: the old state, which is still the current one, is told.
LEMMA ExitOldStep ==
    ASSUME NEW t \in Threads, CallInv(t), MachineInv', ExitOld(t)
    PROVE  CallInv(t)'
<1>1. /\ stack[t] # <<>> /\ Top(t).pc = "enterState" /\ live' = live \ {Top(t).old}
      /\ UNCHANGED <<states, current, status, threw>>
  BY DEF ExitOld, At
<1>2. PICK g \in Frame : g = Top(t)
  BY <1>1, WorkFacts
<1>3. Doing(g) /\ g.pc = "enterState" /\ StateOK(t)
  BY <1>1, <1>2, WorkFacts DEF CallInv
<1>4. PICK f \in Frame : f = [g EXCEPT !.pc = "onExit"]
  BY DEF Frame, Pcs, Callbacks
<1>5. f.op = g.op /\ f.pc = "onExit" /\ f.new = g.new /\ f.old = g.old
  BY <1>4 DEF Frame
<1>6. Become(t, f)
  BY <1>2, <1>4 DEF ExitOld, Goto
<1>7. live' = {}
  BY <1>1, <1>2, <1>3 DEF Doing, StateOK
<1>8. CurrentState' = CurrentState /\ Built' = Built /\ Found(g.new)' = Found(g.new)
  BY <1>1, SameStates
<1>9. Doing(f)'
  BY <1>1, <1>3, <1>5, <1>7, <1>8 DEF Doing, Changing, Found
<1>10. g.op \notin {"start", "stop"} => status # "Stopped"
  BY <1>3 DEF Doing, Changing
<1>11. /\ g.op = "start" => status = "Stopped"
       /\ ~HasEntered(t)
  BY <1>1, <1>2, StartFacts DEF Entered
<1>12. ~threw /\ status' = "Stopped" => current' = -1 \/ (f.op = "stop" /\ f.pc \in Changing)
  BY <1>1, <1>2, <1>3, <1>5, <1>10, <1>11 DEF StateOK, Changing
<1>13. NotStoppedHasState'
  BY <1>1, <1>3 DEF StateOK, NotStoppedHasState, DefaultBuilt, TargetsBuilt, HasIndex, GetState
<1>14. f.pc \notin Entered /\ f.pc # "check" /\ Top(t).pc \notin {"check", "return"}
  BY <1>1, <1>5 DEF Entered
<1> QED
  BY <1>1, <1>2, <1>5, <1>6, <1>7, <1>9, <1>11, <1>12, <1>13, <1>14, WorkStep

\* changeState writes the index of the new state, which is then the current state.
LEMMA SetCurrentStateStep ==
    ASSUME NEW t \in Threads, CallInv(t), MachineInv', SetCurrentState(t)
    PROVE  CallInv(t)'
<1>1. /\ stack[t] # <<>> /\ Top(t).pc = "onExit"
      /\ UNCHANGED <<states, status, threw>>
  BY DEF SetCurrentState, At
<1>2. PICK g \in Frame : g = Top(t)
  BY <1>1, WorkFacts
<1>3. Doing(g) /\ g.pc = "onExit" /\ g.new \in Reference
  BY <1>1, <1>2, WorkFacts DEF Frame
<1>4. /\ status = IF g.op \in {"start", "stop"} THEN "Stopped" ELSE "Running"
      /\ Found(g.new)
      /\ g.op = "stop" => g.new = Null
      /\ g.op # "stop" /\ Built => g.new # Null
      /\ live = {}
  BY <1>3 DEF Doing, Changing
<1>5. /\ current' = IF g.new = Null THEN -1 ELSE IndexOf[g.new]
      /\ live' = {g.new} \ {Null}
  BY <1>2, <1>4 DEF SetCurrentState
<1>6. PICK f \in Frame : f = [g EXCEPT !.pc = "onEnter"]
  BY DEF Frame, Pcs, Callbacks
<1>7. f.op = g.op /\ f.pc = "onEnter"
  BY <1>6 DEF Frame
<1>8. Become(t, f)
  BY <1>2, <1>6 DEF SetCurrentState, Goto
<1>9. Doing(f)'
  BY <1>7 DEF Doing, Changing
<1>10. g.new # Null => IndexOf[g.new] \in Nat
  BY <1>3, IndexAssumption DEF Reference
<1>11. /\ CurrentState' = g.new
       /\ g.new # Null => current' # -1
  <2>1. CASE g.new = Null
    BY <1>5, <2>1 DEF CurrentState
  <2>2. CASE g.new # Null
    <3>1. current' = IndexOf[g.new] /\ current' \in Nat /\ ~(current' < 0) /\ current' # -1
      BY <1>5, <1>10, <2>2
    <3> QED
      BY <1>1, <1>4, <2>2, <3>1 DEF Found, CurrentState, GetState
  <2> QED
    BY <2>1, <2>2
<1>12. Built' = Built
  BY <1>1, SameStates
<1>13. NotStoppedHasState'
  BY <1>1, <1>4, <1>11, <1>12 DEF NotStoppedHasState, Built
<1>14. f.pc \in Entered /\ f.pc # "check" /\ Top(t).pc \notin {"check", "return"}
  BY <1>1, <1>7 DEF Entered
<1>15. f.op = "start" => status' = "Stopped"
  BY <1>1, <1>4, <1>7
<1>16. f.op = "start" /\ Built' => current' # -1
  BY <1>4, <1>7, <1>11, <1>12
<1>17. status' = "Stopped" => current' = -1 \/ f.op = "start"
  <2>1. status' = "Stopped" => g.op \in {"start", "stop"}
    BY <1>1, <1>4
  <2> QED
    BY <1>4, <1>5, <1>7, <2>1
<1>18. live' \subseteq {CurrentState'} /\ live' = {CurrentState'} \ {Null}
  BY <1>5, <1>11
<1> QED
  BY <1>1, <1>2, <1>7, <1>8, <1>9, <1>13, <1>14, <1>15, <1>16, <1>17, <1>18, WorkStep

\* The four writes of the status.
LEMMA StatusStep ==
    ASSUME NEW t \in Threads, CallInv(t), MachineInv',
           Halt(t) \/ SetRunning(t) \/ SetPaused(t) \/ SetResumed(t)
    PROVE  CallInv(t)'
<1>1. /\ stack[t] # <<>> /\ Top(t).pc \in {"halt", "running", "onPause", "resumeState"}
      /\ UNCHANGED <<states, current, live, threw>>
  BY DEF Halt, SetRunning, SetPaused, SetResumed, At
<1>2. PICK g \in Frame : g = Top(t)
  BY <1>1, WorkFacts
<1>3. Doing(g) /\ StateOK(t) /\ (g.pc = "running" => g.op = "start")
  <2>1. FrameOK(Top(t))
    BY <1>1, TopFacts DEF CallInv, MachineInv
  <2> QED
    BY <1>1, <1>2, <2>1, WorkFacts DEF CallInv, FrameOK, Shaped
<1>4. /\ g.op = "start" => status = "Stopped"
      /\ HasEntered(t) <=> g.op = "start" /\ g.pc \in Entered
  BY <1>1, <1>2, StartFacts
<1>5. CurrentState' = CurrentState /\ Built' = Built
  BY <1>1, SameStates
<1>6. live' \subseteq {CurrentState'} /\ (~threw => live' = {CurrentState'} \ {Null})
  BY <1>1, <1>3, <1>5 DEF StateOK, At
<1>7. ASSUME NEW p \in {"change", "return", "pauseState", "onResume"}, Goto(t, p),
             p = "change" => g.pc = "halt" /\ status' = "Stopped",
             p # "change" => status' # "Stopped" /\ (Built => current # -1),
             g.op = "start" => p = "return"
      PROVE  CallInv(t)'
  <2>1. PICK f \in Frame : f = [g EXCEPT !.pc = p]
    BY DEF Frame, Pcs, Callbacks
  <2>2. f.op = g.op /\ f.pc = p /\ f.new = g.new
    BY <2>1 DEF Frame
  <2>3. Become(t, f)
    BY <1>2, <1>7, <2>1 DEF Goto
  <2>4. Doing(f)'
    <3>1. p = "change" => g.op = "stop" /\ g.new = Null
      BY <1>3, <1>7 DEF Doing
    <3> QED
      BY <1>7, <2>2, <3>1 DEF Doing, Changing, Found
  <2>5. NotStoppedHasState'
    BY <1>1, <1>5, <1>7 DEF NotStoppedHasState, Built
  <2>6. f.pc \notin Entered /\ f.pc # "check" /\ Top(t).pc \notin {"check", "return"}
    BY <1>1, <2>2 DEF Entered
  <2>7. f.op = "start" => f.pc = "return"
    BY <1>7, <2>2
  <2>8. status' = "Stopped" => f.op = "stop" /\ f.pc \in Changing
    BY <1>3, <1>7, <2>2 DEF Doing, Changing
  <2> QED
    BY <1>1, <1>2, <1>6, <2>2, <2>3, <2>4, <2>5, <2>6, <2>7, <2>8, WorkStep
<1>8. CASE Halt(t)
  <2>1. g.pc = "halt" /\ g.op = "stop"
    BY <1>2, <1>3, <1>8 DEF Halt, At, Doing
  <2> QED
    BY <1>7, <1>8, <2>1 DEF Halt
<1>9. CASE SetRunning(t)
  <2>1. g.pc = "running" /\ g.op = "start"
    BY <1>2, <1>3, <1>9 DEF SetRunning, At
  <2>2. Built => current # -1
    BY <1>3, <1>4, <2>1 DEF StateOK, Entered
  <2> QED
    BY <1>7, <1>9, <2>2 DEF SetRunning
<1>10. CASE SetPaused(t) \/ SetResumed(t)
  <2>1. status # "Stopped"
    BY <1>2, <1>3, <1>10 DEF SetPaused, SetResumed, At, Doing
  <2>2. g.op # "start" /\ (Built => current # -1)
    BY <1>3, <1>4, <2>1 DEF StateOK, NotStoppedHasState, Built
  <2> QED
    BY <1>7, <1>10, <2>2 DEF SetPaused, SetResumed
<1> QED
  BY <1>8, <1>9, <1>10

\* addState: nothing is current, neither before nor after.
LEMMA BuildStep ==
    ASSUME NEW t \in Threads, CallInv(t), MachineInv', NEW o \in StateObjects, AddState(o)
    PROVE  CallInv(t)'
<1>1. /\ stack[t] = <<>> /\ status = "Stopped" /\ current = -1
      /\ UNCHANGED <<current, status, stack, live, threw>>
  BY DEF AddState, Quiescent
<1>2. CurrentState = Null /\ CurrentState' = Null
  BY <1>1 DEF CurrentState
<1>3. live = {}
  BY <1>2, NullAssumption DEF CallInv, MachineInv, StateOK
<1>4. CallsOK(t)'
  <2>1. stack'[t] = <<>> /\ Len(stack'[t]) = 0
    BY <1>1
  <2> QED
    BY <2>1 DEF CallsOK, Starting
<1>5. StateOK(t)'
  BY <1>1, <1>2, <1>3 DEF StateOK, NotStoppedHasState, HasEntered, Starting
<1> QED
  BY <1>4, <1>5 DEF CallInv

\* The only thread takes a step: each of its calls is where its callbacks expect it.
LEMMA CallInvStep ==
    ASSUME NEW t, Threads = {t}, ReentrantFrom \subseteq LateCallbacks,
           "start" \notin ReentrantOps, CallInv(t), [MachineNext]_machineVars
    PROVE  CallInv(t)'
<1>1. MachineInv' /\ t \in Threads
  BY MachineStep DEF CallInv
<1>2. CASE \E o \in StateObjects : AddState(o)
  BY <1>1, <1>2, BuildStep
<1>3. CASE \E op \in Operations : Call(t, op)
  BY <1>1, <1>3, CallStep
<1>4. CASE Inside(t)
  <2>1. CASE Check(t)
    BY <1>1, <2>1, CheckStep
  <2>2. CASE Begin(t) \/ NoTransition(t) \/ Transition(t)
    BY <1>1, <2>2, ReadStateStep
  <2>3. CASE Change(t)
    BY <1>1, <2>3, ChangeStep
  <2>4. CASE ExitOld(t)
    BY <1>1, <2>4, ExitOldStep
  <2>5. CASE SetCurrentState(t)
    BY <1>1, <2>5, SetCurrentStateStep
  <2>6. CASE NotifyChanged(t) \/ ChangeDone(t) \/ LastCallback(t)
    BY <1>1, <2>6, LateStep
  <2>7. CASE Halt(t) \/ SetRunning(t) \/ SetPaused(t) \/ SetResumed(t)
    BY <1>1, <2>7, StatusStep
  <2>8. CASE Throw(t)
    BY <1>1, <2>8, LeaveStep DEF Throw, InUserCode
  <2> QED
    BY <1>4, <2>1, <2>2, <2>3, <2>4, <2>5, <2>6, <2>7, <2>8 DEF Inside
<1>5. CASE Return(t)
  BY <1>1, <1>5, LeaveStep DEF Return, At, Changing, Entered
<1>6. CASE UNCHANGED machineVars
  <2>1. CallsOK(t)'
    BY <1>6 DEF machineVars, CallInv, CallsOK, Starting, Top, Doing, Found, Built, DefaultBuilt,
                TargetsBuilt, HasIndex, GetState, CurrentState
  <2>2. StateOK(t)'
    BY <1>6 DEF machineVars, CallInv, StateOK, HasEntered, Starting, Top, At, Built, DefaultBuilt,
                TargetsBuilt, HasIndex, GetState, CurrentState, NotStoppedHasState
  <2> QED
    BY <1>1, <2>1, <2>2 DEF CallInv
<1> QED
  BY <1>2, <1>3, <1>4, <1>5, <1>6 DEF MachineNext

LEMMA CallInvInitially ==
    ASSUME NEW t, Threads = {t}, MachineInit
    PROVE  CallInv(t)
<1>1. stack[t] = <<>> /\ Len(stack[t]) = 0 /\ status = "Stopped" /\ current = -1 /\ live = {}
  BY DEF MachineInit
<1>2. CallsOK(t)
  BY <1>1 DEF CallsOK, Starting
<1>3. StateOK(t)
  BY <1>1 DEF StateOK, NotStoppedHasState, HasEntered, Starting, CurrentState
<1> QED
  BY <1>2, <1>3, MachineInitially DEF CallInv

\* One thread drives the machine and its callbacks call it only once the new state
\* is recorded, and never to start it.  Then a machine that is running or paused has
\* a current state at every step of every method, wherever user code throws.
THEOREM NotStoppedKeepsState ==
    ASSUME NEW t, Threads = {t}, ReentrantFrom \subseteq LateCallbacks,
           "start" \notin ReentrantOps
    PROVE  MachineSpec => []NotStoppedHasState
<1>1. MachineInit => CallInv(t)
  BY CallInvInitially
<1>2. CallInv(t) /\ [MachineNext]_machineVars => CallInv(t)'
  BY CallInvStep
<1>3. CallInv(t) => NotStoppedHasState
  BY DEF CallInv, StateOK
<1> QED
  BY <1>1, <1>2, <1>3, PTL DEF MachineSpec

\* Under the same conditions, every call that has returned from stop has left the
\* last state, as long as no callback has thrown.
THEOREM StopLeavesState ==
    ASSUME NEW t, Threads = {t}, ReentrantFrom \subseteq LateCallbacks,
           "start" \notin ReentrantOps
    PROVE  MachineSpec => []StoppedHasNoState
<1>1. MachineInit => CallInv(t)
  BY CallInvInitially
<1>2. CallInv(t) /\ [MachineNext]_machineVars => CallInv(t)'
  BY CallInvStep
<1>3. CallInv(t) => StoppedHasNoState
  BY DEF CallInv, StateOK, StoppedHasNoState, Quiescent, HasEntered, Starting
<1> QED
  BY <1>1, <1>2, <1>3, PTL DEF MachineSpec

\* Under the same conditions, onEnter and onExit alternate: a state that was entered
\* and not left is the current one, at every step, whatever has thrown.
THEOREM EnterAndExitAlternate ==
    ASSUME NEW t, Threads = {t}, ReentrantFrom \subseteq LateCallbacks,
           "start" \notin ReentrantOps
    PROVE  MachineSpec => []OnlyCurrentIsLive
<1>1. MachineInit => CallInv(t)
  BY CallInvInitially
<1>2. CallInv(t) /\ [MachineNext]_machineVars => CallInv(t)'
  BY CallInvStep
<1>3. CallInv(t) => OnlyCurrentIsLive
  BY DEF CallInv, StateOK, OnlyCurrentIsLive, Quiescent, At
<1> QED
  BY <1>1, <1>2, <1>3, PTL DEF MachineSpec

\* Only a change of state writes the index, and none is under way in a paused machine.
LEMMA PausedStep ==
    ASSUME NEW t, Threads = {t}, CallInv(t), [MachineNext]_machineVars, status = "Paused"
    PROVE  current' = current
<1>1. ~SetCurrentState(t)
  <2>1. SetCurrentState(t) => stack[t] # <<>> /\ Top(t).pc = "onExit"
    BY DEF SetCurrentState, At
  <2>2. stack[t] # <<>> => Doing(Top(t))
    BY DEF CallInv, CallsOK
  <2> QED
    BY <2>1, <2>2 DEF Doing, Changing
<1>2. Inside(t) => current' = current
  BY <1>1 DEF Inside, Check, Halt, Begin, NoTransition, Transition, Change, ExitOld,
              NotifyChanged, ChangeDone, SetRunning, SetPaused, SetResumed, LastCallback, Throw
<1> QED
  BY <1>2 DEF MachineNext, AddState, Call, Return, machineVars

\* Under the same conditions, no step changes the state of a paused machine.
THEOREM PauseKeepsState ==
    ASSUME NEW t, Threads = {t}, ReentrantFrom \subseteq LateCallbacks,
           "start" \notin ReentrantOps
    PROVE  MachineSpec => PausedKeepsState
<1>1. MachineInit => CallInv(t)
  BY CallInvInitially
<1>2. CallInv(t) /\ [MachineNext]_machineVars => CallInv(t)'
  BY CallInvStep
<1>3. CallInv(t) /\ [MachineNext]_machineVars
        => [status = "Paused" => current' = current]_machineVars
  BY PausedStep
<1> QED
  BY <1>1, <1>2, <1>3, PTL DEF MachineSpec, PausedKeepsState

-----------------------------------------------------------------------------
(* The driven machine: registration.                                       *)

WillRegister(f) ==
    \/ f.op \in {"start", "resume"} /\ f.pc = "return"
    \/ f.op = "resume" /\ f.pc = "onResume"

WillStopRunning(f) ==
    \/ f.op = "stop" /\ f.pc \in {"check", "halt"}
    \/ f.op = "pause" /\ f.pc \in {"check", "begin", "onPause"}

Pending(f) == WillRegister(f) \/ WillStopRunning(f)

HasPending == \E t \in Threads : \E i \in 1 .. Len(stack[t]) : Pending(stack[t][i])

RegistrationInv ==
    /\ MachineInv
    /\ registered \in BOOLEAN
    /\ due \in BOOLEAN
    /\ ~torn /\ status = "Running" => registered \/ HasPending

\* User code that leaves pause or resume between the status and the registration.
SafeThrows == MayThrow \cap {"onPause", "onResume"} = {}

-----------------------------------------------------------------------------

PendingFrames == {f \in Frame : Pending(f)}

LEMMA PendingIsAFrame ==
    ASSUME MachineInv, HasPending
    PROVE  AnyFrame(PendingFrames)
BY DEF MachineInv, StacksOK, HasPending, AnyFrame, PendingFrames

\* A frame that a step leaves alone stays pending.
LEMMA PushKeepsPending ==
    ASSUME MachineInv, NEW t \in Threads, NEW f \in Frame, Push(t, f),
           HasPending \/ Pending(f)
    PROVE  HasPending'
<1>1. HasPending => AnyFrame(PendingFrames)
  BY PendingIsAFrame
<1>2. AnyFrame(PendingFrames)'
  BY <1>1, TopFacts, PushKeepsFrame DEF MachineInv, PendingFrames
<1> QED
  BY <1>2 DEF AnyFrame, HasPending, PendingFrames

\* A method that returns or is abandoned loses its own frame only.
LEMMA PopKeepsPending ==
    ASSUME MachineInv, NEW t \in Threads, stack[t] # <<>>, Pop(t),
           HasPending, ~Pending(Top(t))
    PROVE  HasPending'
<1>1. HasPending => AnyFrame(PendingFrames)
  BY PendingIsAFrame
<1>2. AnyFrame(PendingFrames)'
  BY <1>1, TopFacts, PopKeepsFrame DEF MachineInv, PendingFrames
<1> QED
  BY <1>2 DEF AnyFrame, HasPending, PendingFrames

\* A step inside a method replaces its own frame only.
LEMMA BecomeKeepsPending ==
    ASSUME MachineInv, NEW t \in Threads, stack[t] # <<>>, NEW f \in Frame, Become(t, f),
           HasPending, Pending(Top(t)) => Pending(f)
    PROVE  HasPending'
<1>1. HasPending => AnyFrame(PendingFrames)
  BY PendingIsAFrame
<1>2. AnyFrame(PendingFrames)'
  BY <1>1, TopFacts, BecomeKeepsFrame DEF MachineInv, PendingFrames
<1> QED
  BY <1>2 DEF AnyFrame, HasPending, PendingFrames

\* The new top frame is pending.
LEMMA BecomePending ==
    ASSUME MachineInv, NEW t \in Threads, stack[t] # <<>>, NEW f \in Frame, Become(t, f),
           Pending(f)
    PROVE  HasPending'
<1>1. HasPending => AnyFrame(PendingFrames)
  BY PendingIsAFrame
<1>2. AnyFrame(PendingFrames)'
  BY <1>1, TopFacts, BecomeKeepsFrame DEF MachineInv, PendingFrames
<1> QED
  BY <1>2 DEF AnyFrame, HasPending, PendingFrames

\* A step to another pc of the same frame, or the end of a frame.
LEMMA GotoKeepsPending ==
    ASSUME MachineInv, NEW t \in Threads, stack[t] # <<>>, NEW pc \in Pcs, Goto(t, pc),
           HasPending, Pending(Top(t)) => Pending([Top(t) EXCEPT !.pc = pc])
    PROVE  HasPending'
<1> DEFINE f == [Top(t) EXCEPT !.pc = pc]
<1>1. f \in Frame
  BY TopFacts DEF MachineInv, Frame
<1>2. Become(t, f)
  BY DEF Goto
<1> QED
  BY <1>1, <1>2, BecomeKeepsPending

\* The heart of the argument: no step inside a method leaves the machine
\* running with nobody about to register it or to change its status.
LEMMA InsideKeepsPending ==
    ASSUME SafeThrows, MachineInv, NEW t \in Threads, Inside(t), ~registered,
           status = "Running" => HasPending, status' = "Running"
    PROVE  HasPending'
<1> USE DEF Pcs, Callbacks, Operations, Statuses, At
<1>1. stack[t] # <<>>
  BY DEF Inside, Check, Halt, Begin, NoTransition, Transition, Change, ExitOld,
         SetCurrentState, NotifyChanged, ChangeDone, SetRunning, SetPaused,
         SetResumed, LastCallback, Throw, InUserCode
<1>2. Top(t) \in Frame /\ Shaped(Top(t))
  BY <1>1, TopFacts DEF MachineInv, FrameOK
<1>3. CASE Check(t)
  <2> DEFINE op == Top(t).op
  <2>1. op \in Operations /\ Top(t).pc = "check" /\ status = "Running" /\ HasPending
    BY <1>2, <1>3 DEF Check, Frame
  <2>2. CASE op = "stop"
    <3>1. Goto(t, "halt") /\ Pending([Top(t) EXCEPT !.pc = "halt"])
      BY <1>2, <1>3, <2>1, <2>2 DEF Check, Allowed, Pending, WillStopRunning, Frame
    <3> QED
      BY <1>1, <2>1, <3>1, GotoKeepsPending
  <2>3. CASE op = "pause"
    <3>1. Goto(t, "begin") /\ Pending([Top(t) EXCEPT !.pc = "begin"])
      BY <1>2, <1>3, <2>1, <2>3 DEF Check, Allowed, Pending, WillStopRunning, Frame
    <3> QED
      BY <1>1, <2>1, <3>1, GotoKeepsPending
  <2>4. CASE op \notin {"stop", "pause"}
    <3>1. ~Pending(Top(t))
      BY <2>1, <2>4 DEF Pending, WillStopRunning, WillRegister
    <3>2. Goto(t, "return") \/ Goto(t, "begin")
      BY <1>3, <2>1, <2>4 DEF Check, Allowed
    <3> QED
      BY <1>1, <2>1, <3>1, <3>2, GotoKeepsPending
  <2> QED
    BY <2>2, <2>3, <2>4
<1>4. CASE Halt(t)
  BY <1>4 DEF Halt
<1>5. CASE Begin(t)
  <2>1. status = "Running" /\ HasPending /\ Top(t).pc = "begin"
    BY <1>5 DEF Begin
  <2>2. CASE Top(t).op = "pause"
    <3> DEFINE f == [Top(t) EXCEPT !.pc = "onPause", !.old = CurrentState]
    <3>1. Become(t, f)
      BY <1>5, <2>2 DEF Begin
    <3>2. f \in Frame /\ Pending(f)
      BY <1>2, <2>2, CurrentStateListed DEF Pending, WillStopRunning, Frame
    <3> QED
      BY <1>1, <2>1, <3>1, <3>2, BecomePending
  <2>3. CASE Top(t).op # "pause"
    <3>1. PICK pc \in Pcs : Become(t, [Top(t) EXCEPT !.pc = pc, !.old = CurrentState])
      BY <1>5, <2>3 DEF Begin
    <3> DEFINE f == [Top(t) EXCEPT !.pc = pc, !.old = CurrentState]
    <3>2. f \in Frame
      BY <1>2, CurrentStateListed DEF Frame
    <3>3. ~Pending(Top(t))
      BY <2>1, <2>3 DEF Pending, WillStopRunning, WillRegister
    <3> QED
      BY <1>1, <2>1, <3>1, <3>2, <3>3, BecomeKeepsPending
  <2> QED
    BY <2>2, <2>3
<1>6. CASE SetRunning(t)
  <2> DEFINE f == [Top(t) EXCEPT !.pc = "return"]
  <2>1. f \in Frame /\ Become(t, f)
    BY <1>2, <1>6 DEF SetRunning, Goto, Frame
  <2>2. Pending(f)
    BY <1>2, <1>6 DEF SetRunning, Shaped, Pending, WillRegister, Frame
  <2> QED
    BY <1>1, <2>1, <2>2, BecomePending
<1>7. CASE SetPaused(t)
  BY <1>7 DEF SetPaused
<1>8. CASE SetResumed(t)
  <2> DEFINE f == [Top(t) EXCEPT !.pc = "onResume"]
  <2>1. f \in Frame /\ Become(t, f)
    BY <1>2, <1>8 DEF SetResumed, Goto, Frame
  <2>2. Pending(f)
    BY <1>2, <1>8 DEF SetResumed, Shaped, Pending, WillRegister, Frame
  <2> QED
    BY <1>1, <2>1, <2>2, BecomePending
<1>9. CASE LastCallback(t)
  <2>1. status = "Running" /\ HasPending /\ Goto(t, "return")
    BY <1>9 DEF LastCallback
  <2>2. Pending(Top(t)) => Pending([Top(t) EXCEPT !.pc = "return"])
    BY <1>2, <1>9 DEF LastCallback, Shaped, Pending, WillRegister, WillStopRunning, Frame
  <2> QED
    BY <1>1, <2>1, <2>2, GotoKeepsPending
<1>10. CASE Throw(t)
  <2>1. status = "Running" /\ HasPending /\ Pop(t)
    BY <1>10 DEF Throw
  <2>2. ~Pending(Top(t))
    BY <1>10 DEF Throw, InUserCode, SafeThrows, Pending, WillRegister, WillStopRunning
  <2> QED
    BY <1>1, <2>1, <2>2, PopKeepsPending
<1>11. CASE NoTransition(t) \/ ExitOld(t) \/ SetCurrentState(t) \/ NotifyChanged(t)
  <2>1. /\ status = "Running" /\ HasPending
        /\ Top(t).pc \in {"evaluate", "enterState", "onExit", "onEnter"}
        /\ \E pc \in Pcs : Goto(t, pc)
    BY <1>11 DEF NoTransition, ExitOld, SetCurrentState, NotifyChanged
  <2>2. ~Pending(Top(t))
    BY <2>1 DEF Pending, WillRegister, WillStopRunning
  <2> QED
    BY <1>1, <2>1, <2>2, GotoKeepsPending
<1>12. CASE Transition(t)
  <2>1. status = "Running" /\ HasPending /\ Top(t).pc = "evaluate"
    BY <1>12 DEF Transition
  <2>2. ~Pending(Top(t))
    BY <2>1 DEF Pending, WillRegister, WillStopRunning
  <2>3. PICK k \in Targets[Top(t).old] :
          IF HasIndex(k) /\ (AssertsEnabled => GetState(k) # Null)
          THEN Become(t, [Top(t) EXCEPT !.pc = "change", !.new = GetState(k)])
          ELSE Pop(t)
    BY <1>12 DEF Transition
  <2>4. CASE HasIndex(k) /\ (AssertsEnabled => GetState(k) # Null)
    <3> DEFINE f == [Top(t) EXCEPT !.pc = "change", !.new = GetState(k)]
    <3>1. f \in Frame
      BY <1>2, <2>4, FoundIsListed DEF Frame
    <3> QED
      BY <1>1, <2>1, <2>2, <2>3, <2>4, <3>1, BecomeKeepsPending
  <2>5. CASE ~(HasIndex(k) /\ (AssertsEnabled => GetState(k) # Null))
    BY <1>1, <2>1, <2>2, <2>3, <2>5, PopKeepsPending
  <2> QED
    BY <2>4, <2>5
<1>13. CASE Change(t) \/ ChangeDone(t)
  <2>1. status = "Running" /\ HasPending /\ Top(t).pc \in {"change", "exitState"}
    BY <1>13 DEF Change, ChangeDone
  <2>2. ~Pending(Top(t))
    BY <2>1 DEF Pending, WillRegister, WillStopRunning
  <2>3. CASE \E pc \in Pcs : Goto(t, pc)
    BY <1>1, <2>1, <2>2, <2>3, GotoKeepsPending
  <2>4. CASE Become(t, [Top(t) EXCEPT !.pc = "enterState", !.old = CurrentState])
    <3> DEFINE f == [Top(t) EXCEPT !.pc = "enterState", !.old = CurrentState]
    <3>1. f \in Frame
      BY <1>2, CurrentStateListed DEF Frame
    <3> QED
      BY <1>1, <2>1, <2>2, <2>4, <3>1, BecomeKeepsPending
  <2> QED
    BY <1>13, <2>3, <2>4 DEF Change, ChangeDone, AfterChange
<1> QED
  BY <1>3, <1>4, <1>5, <1>6, <1>7, <1>8, <1>9, <1>10, <1>11, <1>12, <1>13 DEF Inside

-----------------------------------------------------------------------------

LEMMA RegistrationStep ==
    ASSUME SafeThrows, RegistrationInv, [Next]_vars
    PROVE  RegistrationInv'
<1> USE DEF RegistrationInv
<1>1. ASSUME NEW o \in StateObjects, AutoAddState(o)
      PROVE  RegistrationInv'
  BY <1>1, AddStateStep DEF AutoAddState, AddState, HasPending, reads
<1>2. ASSUME NEW t \in Threads, NEW op \in Operations, AutoCall(t, op)
      PROVE  RegistrationInv'
  <2> DEFINE f == [op |-> op, pc |-> "check", old |-> Null, new |-> Null]
  <2>1. /\ f \in Frame /\ Push(t, f)
        /\ UNCHANGED <<states, current, status, live, threw, due, torn>>
    BY <1>2 DEF AutoCall, Call, Frame, Pcs, Reference, reads
  <2>2. registered' = (registered /\ op \notin {"stop", "pause"})
    BY <1>2 DEF AutoCall
  <2>3. MachineInv'
    BY <2>1, PushStep
  <2>4. op \in {"stop", "pause"} => Pending(f)
    BY DEF Pending, WillStopRunning
  <2>5. ~torn' /\ status' = "Running" => registered' \/ HasPending'
    <3>1. CASE HasPending \/ Pending(f)
      BY <2>1, <3>1, PushKeepsPending
    <3>2. CASE ~HasPending /\ op \notin {"stop", "pause"}
      BY <2>1, <2>2, <3>2
    <3> QED
      BY <2>4, <3>1, <3>2
  <2> QED
    BY <2>1, <2>2, <2>3, <2>5
<1>3. ASSUME NEW t \in Threads, AutoInside(t)
      PROVE  RegistrationInv'
  <2>1. MachineInv' /\ registered' = registered /\ due' = due /\ torn' = torn
    BY <1>3, InsideStep DEF AutoInside
  <2>2. ~torn /\ ~registered /\ status' = "Running" => HasPending'
    BY <1>3, InsideKeepsPending DEF AutoInside
  <2> QED
    BY <2>1, <2>2
<1>4. ASSUME NEW t \in Threads, AutoReturn(t)
      PROVE  RegistrationInv'
  <2>1. /\ stack[t] # <<>> /\ Top(t).pc = "return" /\ Pop(t)
        /\ UNCHANGED <<states, current, status, live, threw, due, torn>>
        /\ registered' = (registered \/ Top(t).op \in {"start", "resume"})
    BY <1>4 DEF AutoReturn, Return, At, reads
  <2>2. MachineInv'
    BY <2>1, PopStep
  <2>3. CASE registered'
    BY <2>1, <2>2, <2>3
  <2>4. CASE ~registered'
    <3>1. ~registered /\ ~Pending(Top(t))
      BY <2>1, <2>4 DEF Pending, WillRegister, WillStopRunning
    <3>2. ~torn' /\ status' = "Running" => HasPending'
      BY <2>1, <3>1, PopKeepsPending
    <3> QED
      BY <2>1, <2>2, <2>4, <3>2
  <2> QED
    BY <2>3, <2>4
<1>5. CASE Snapshot
  BY <1>5, MachineStep DEF Snapshot, HasPending, machineVars, reads
<1>6. CASE Drive
  <2> DEFINE f == [op |-> "tick", pc |-> "check", old |-> Null, new |-> Null]
  <2>1. /\ f \in Frame /\ Push(Metro, f) /\ due' = FALSE
        /\ UNCHANGED <<states, current, status, live, threw, registered, torn>>
    BY <1>6 DEF Drive, Frame, Pcs, Operations, Reference, reads
  <2>2. Metro \in Threads /\ "tick" \in Operations
    BY MetroAssumption DEF Operations
  <2>3. MachineInv'
    BY <2>1, <2>2, PushStep
  <2>4. HasPending => HasPending'
    BY <2>1, <2>2, PushKeepsPending
  <2> QED
    BY <2>1, <2>3, <2>4
<1>7. ASSUME NEW t \in Threads, ReadOnce(t)
      PROVE  RegistrationInv'
  BY <1>7, MachineStep DEF ReadOnce, HasPending, machineVars
<1>8. ASSUME NEW t \in Threads, ReadFails(t)
      PROVE  RegistrationInv'
  <2>1. /\ stack[t] # <<>> /\ Top(t).pc \in {"begin", "change"} /\ Pop(t)
        /\ UNCHANGED <<states, current, status, live, registered, due>>
        /\ ~torn' => ~torn /\ Top(t).op # "pause"
    BY <1>8 DEF ReadFails, Reading, At
  <2>2. MachineInv'
    BY <2>1, PopStep
  <2>3. ~torn' => ~Pending(Top(t))
    BY <2>1 DEF Pending, WillRegister, WillStopRunning
  <2>4. ~torn' /\ status' = "Running" => registered' \/ HasPending'
    BY <2>1, <2>3, PopKeepsPending
  <2> QED
    BY <2>1, <2>2, <2>4
<1>9. CASE UNCHANGED vars
  BY <1>9, MachineStep DEF vars, machineVars, HasPending
<1> QED
  BY <1>1, <1>2, <1>3, <1>4, <1>5, <1>6, <1>7, <1>8, <1>9 DEF Next

\* A running machine and its registration at the metronome do not part, for any
\* number of threads, any states and transitions, any re-entrant callbacks and
\* any exceptions but those of onPause and onResume; until, with several clients, a
\* pause fails between its two reads of the current state, which a stop has left.
THEOREM TickerNotLost ==
    ASSUME SafeThrows
    PROVE  Spec => []NoLostTicker
<1>1. Init => RegistrationInv
  BY MachineInitially DEF Init, MachineInit, RegistrationInv
<1>2. RegistrationInv /\ [Next]_vars => RegistrationInv'
  BY RegistrationStep
<1>3. RegistrationInv => NoLostTicker
  <2> SUFFICES ASSUME RegistrationInv, Quiescent, HasPending
               PROVE  FALSE
    BY DEF RegistrationInv, NoLostTicker
  <2>1. PICK t \in Threads : \E i \in 1 .. Len(stack[t]) : Pending(stack[t][i])
    BY DEF HasPending
  <2>2. stack[t] = <<>>
    BY DEF Quiescent
  <2> QED
    BY <2>1, <2>2
<1> QED
  BY <1>1, <1>2, <1>3, PTL DEF Spec

\* The same argument gives the type invariant of the driven machine.
THEOREM TypeCorrect == Spec => []TypeOK
<1> DEFINE Flags == /\ registered \in BOOLEAN /\ due \in BOOLEAN
                    /\ looked \subseteq Threads /\ torn \in BOOLEAN
           TypeInv == MachineInv /\ Flags
<1>1. Init => TypeInv
  BY MachineInitially DEF Init
<1>2. TypeInv /\ [Next]_vars => TypeInv'
  <2> SUFFICES ASSUME TypeInv, [Next]_vars
               PROVE  TypeInv'
    OBVIOUS
  <2>1. CASE Drive
    <3>1. Metro \in Threads /\ "tick" \in Operations
      BY MetroAssumption DEF Operations
    <3> QED
      BY <2>1, <3>1, PushStep DEF Drive, reads
  <2>2. CASE \E t \in Threads : ReadFails(t)
    BY <2>2, PopStep DEF ReadFails, Reading, At
  <2>3. CASE Next /\ ~Drive /\ ~\E t \in Threads : ReadFails(t)
    <3>1. [MachineNext]_machineVars
      BY <2>3 DEF Next, MachineNext, AutoAddState, AutoCall, AutoInside, AutoReturn,
                  Snapshot, ReadOnce, machineVars
    <3>2. Flags'
      BY <2>3 DEF Next, AutoAddState, AutoCall, AutoInside, AutoReturn, Snapshot, ReadOnce, reads
    <3> QED
      BY <3>1, <3>2, MachineStep
  <2>4. CASE UNCHANGED vars
    BY <2>4, MachineStep DEF vars, machineVars
  <2> QED
    BY <2>1, <2>2, <2>3, <2>4
<1>3. TypeInv => TypeOK
  BY MachineTyped DEF TypeOK
<1> QED
  BY <1>1, <1>2, <1>3, PTL DEF Spec

-----------------------------------------------------------------------------
(* One client and the metronome: a tick crosses any call of the client.    *)

InList(r) == r # Null /\ \E i \in DOMAIN states : states[i] = r

\* What a frame relies on while the other thread runs: the status is written by
\* the client alone, the current state by a tick as well, but never to none.
Placed(f) ==
    /\ f.op = "stop" /\ f.pc \notin {"check", "halt", "return"} => status = "Stopped"
    /\ f.op \in {"pause", "resume"} /\ f.pc \notin {"check", "return"} => status # "Stopped"
    /\ f.op = "start" /\ f.pc \in Entered /\ Built => current # -1
    /\ f.op # "stop" /\ f.pc \in Changing /\ Built => f.new # Null
    /\ f.pc = "halt" => f.op = "stop"
    /\ f.pc = "begin" => f.op \in {"pause", "resume", "tick"}
    /\ f.pc = "evaluate" => f.op = "tick" /\ InList(f.old)
    /\ f.pc \in {"onPause", "pauseState"} => f.op = "pause"
    /\ f.pc \in Changing \cup {"onEnter", "exitState"} => f.op \in {"start", "stop", "tick"}

\* One frame at most is on a stack, and the metronome's is a tick.
FramesPlaced(c) ==
    \A t \in Threads :
        \/ stack[t] = <<>>
        \/ /\ Len(stack[t]) = 1
           /\ Placed(Top(t))
           /\ t # c => Top(t).op = "tick"

DrivenInv(c) ==
    /\ MachineInv
    /\ FramesPlaced(c)
    /\ due => stack[Metro] = <<>>
    /\ NotStoppedHasState

LEMMA StaysPlaced ==
    ASSUME UNCHANGED states, NEW f \in Frame, Placed(f),
           f.op # "tick" => status' = status /\ (Built /\ current' = -1 => current = -1)
    PROVE  Placed(f)'
BY SameStates DEF Placed, InList

\* The frame that a thread inside a method works on.
LEMMA DrivenFrame ==
    ASSUME NEW c, DrivenInv(c), NEW t \in Threads, stack[t] # <<>>
    PROVE  /\ Top(t) \in Frame /\ FrameOK(Top(t)) /\ Placed(Top(t))
           /\ t # c => Top(t).op = "tick"
           /\ Len(stack[t]) = 1
BY TopFacts DEF DrivenInv, FramesPlaced, MachineInv

\* The frames of the other threads keep what they rely on.
LEMMA OthersPlaced ==
    ASSUME NEW c, DrivenInv(c), NEW t \in Threads, UNCHANGED states,
           \A u \in Threads \ {t} : stack'[u] = stack[u],
           t # c => status' = status /\ (Built /\ current' = -1 => current = -1),
           \/ stack'[t] = <<>>
           \/ /\ Len(stack'[t]) = 1
              /\ Placed(Top(t))'
              /\ t # c => Top(t)'.op = "tick"
    PROVE  FramesPlaced(c)'
<1>1. ASSUME NEW u \in Threads \ {t}, stack[u] # <<>>
      PROVE  /\ Len(stack'[u]) = 1
             /\ Placed(Top(u))'
             /\ u # c => Top(u)'.op = "tick"
  <2>1. PICK f \in Frame : f = Top(u)
    BY <1>1, DrivenFrame
  <2>2. /\ Placed(f) /\ Len(stack[u]) = 1
        /\ u # c => f.op = "tick"
    BY <1>1, <2>1, DrivenFrame
  <2>3. Top(u)' = f /\ stack'[u] = stack[u]
    BY <1>1, <2>1 DEF Top
  <2>4. Placed(f)'
    BY <2>2, StaysPlaced
  <2>5. Placed(Top(u))'
    BY <2>3, <2>4 DEF Placed
  <2> QED
    BY <2>2, <2>3, <2>5
<1>2. \A u \in Threads \ {t} : stack[u] = <<>> => stack'[u] = <<>>
  OBVIOUS
<1> QED
  BY <1>1, <1>2 DEF FramesPlaced

\* A step inside a method of one of the two threads.
LEMMA DrivenStep ==
    ASSUME NEW c, DrivenInv(c), MachineInv', NEW t \in Threads, stack[t] # <<>>,
           NEW f \in Frame, Become(t, f), f.op = Top(t).op, Placed(f)',
           UNCHANGED <<states, due>>, NotStoppedHasState',
           t # c => status' = status /\ (Built /\ current' = -1 => current = -1)
    PROVE  DrivenInv(c)'
<1>1. /\ Len(stack[t]) = 1
      /\ t # c => f.op = "tick"
  BY DrivenFrame
<1>2. /\ \A u \in Threads \ {t} : stack'[u] = stack[u]
      /\ Len(stack'[t]) = 1
      /\ stack'[t][1] = f
  BY <1>1, BecomeFacts DEF DrivenInv, MachineInv, StacksOK
<1>3. Top(t)' = f
  BY <1>2 DEF Top
<1>4. Placed(Top(t))'
  BY <1>3 DEF Placed
<1>5. FramesPlaced(c)'
  BY <1>1, <1>2, <1>3, <1>4, OthersPlaced
<1>6. due' => stack'[Metro] = <<>>
  BY <1>2, MetroAssumption DEF DrivenInv
<1> QED
  BY <1>5, <1>6 DEF DrivenInv

\* Such a step that writes neither the status nor the current state.
LEMMA DrivenQuietStep ==
    ASSUME NEW c, DrivenInv(c), MachineInv', NEW t \in Threads, stack[t] # <<>>,
           NEW f \in Frame, Become(t, f), f.op = Top(t).op, Placed(f),
           UNCHANGED <<states, current, status, due>>
    PROVE  DrivenInv(c)'
<1>1. Placed(f)'
  BY StaysPlaced
<1>2. NotStoppedHasState'
  BY DEF DrivenInv, NotStoppedHasState, DefaultBuilt, TargetsBuilt, HasIndex, GetState
<1> QED
  BY <1>1, <1>2, DrivenStep

LEMMA DrivenPop ==
    ASSUME NEW c, DrivenInv(c), MachineInv', NEW t \in Threads, stack[t] # <<>>, Pop(t),
           UNCHANGED <<states, current, status, due>>
    PROVE  DrivenInv(c)'
<1>1. Len(stack[t]) = 1
  BY DrivenFrame
<1>2. /\ \A u \in Threads \ {t} : stack'[u] = stack[u]
      /\ stack'[t] \in Seq(Frame) /\ Len(stack'[t]) = 0
  BY <1>1, PopFacts DEF DrivenInv, MachineInv, StacksOK
<1>3. stack'[t] = <<>>
  BY <1>2
<1>4. FramesPlaced(c)'
  BY <1>2, <1>3, OthersPlaced
<1>5. NotStoppedHasState'
  BY DEF DrivenInv, NotStoppedHasState, DefaultBuilt, TargetsBuilt, HasIndex, GetState
<1>6. due' => stack'[Metro] = <<>>
  BY <1>2, <1>3, MetroAssumption DEF DrivenInv
<1> QED
  BY <1>4, <1>5, <1>6 DEF DrivenInv

\* A call of the client, or a tick of the metronome, of an empty stack.
LEMMA DrivenPush ==
    ASSUME NEW c, DrivenInv(c), MachineInv', NEW t \in Threads, stack[t] = <<>>,
           NEW op \in Operations, t # c => op = "tick",
           Push(t, [op |-> op, pc |-> "check", old |-> Null, new |-> Null]),
           UNCHANGED <<states, current, status>>, due' => due /\ t # Metro
    PROVE  DrivenInv(c)'
<1>1. PICK f \in Frame : f = [op |-> op, pc |-> "check", old |-> Null, new |-> Null]
  BY DEF Frame, Pcs, Reference
<1>2. /\ \A u \in Threads \ {t} : stack'[u] = stack[u]
      /\ Len(stack'[t]) = 1
      /\ stack'[t][1] = f
  <2>1. Len(stack[t]) = 0 /\ stack \in [Threads -> Seq(Frame)] /\ Push(t, f)
    BY <1>1 DEF DrivenInv, MachineInv, StacksOK
  <2> QED
    <3>1. /\ \A u \in Threads \ {t} : stack'[u] = stack[u]
          /\ Len(stack'[t]) = Len(stack[t]) + 1
          /\ stack'[t][Len(stack[t]) + 1] = f
      BY <2>1, PushFacts
    <3>2. Len(stack[t]) + 1 = 1
      BY <2>1
    <3> QED
      BY <3>1, <3>2
<1>3. Top(t)' = f /\ f.op = op /\ f.pc = "check"
  BY <1>1, <1>2 DEF Top
<1>4. Placed(Top(t))'
  BY <1>3 DEF Placed, Changing, Entered
<1>5. FramesPlaced(c)'
  BY <1>2, <1>3, <1>4, OthersPlaced
<1>6. NotStoppedHasState'
  BY DEF DrivenInv, NotStoppedHasState, DefaultBuilt, TargetsBuilt, HasIndex, GetState
<1>7. due' => stack'[Metro] = <<>>
  BY <1>2, MetroAssumption DEF DrivenInv
<1> QED
  BY <1>5, <1>6, <1>7 DEF DrivenInv

\* States are added between calls, when nothing relies on the list.
LEMMA DrivenAddState ==
    ASSUME NEW c, DrivenInv(c), NEW o \in StateObjects, AutoAddState(o)
    PROVE  DrivenInv(c)'
<1>1. /\ \A t \in Threads : stack'[t] = <<>>
      /\ status' = "Stopped" /\ due' = due
      /\ MachineInv'
  BY AddStateStep DEF AutoAddState, AddState, Quiescent, DrivenInv
<1> QED
  BY <1>1, MetroAssumption DEF DrivenInv, FramesPlaced, NotStoppedHasState

\* The guard of a method, and the state that start enters.
LEMMA DrivenCheck ==
    ASSUME NEW c, DrivenInv(c), MachineInv', NEW t \in Threads, Check(t), due' = due
    PROVE  DrivenInv(c)'
<1>1. /\ stack[t] # <<>> /\ Top(t).pc = "check"
      /\ UNCHANGED <<states, current, status, due>>
  BY DEF Check, At
<1>2. PICK g \in Frame : g = Top(t)
  BY <1>1, DrivenFrame
<1>3. g.op \in Operations /\ MachineInv
  BY DEF Frame, DrivenInv
<1>4. ASSUME NEW p \in {"return", "halt", "begin"}, Goto(t, p),
             p = "halt" => g.op = "stop",
             p = "begin" => g.op \in {"pause", "resume", "tick"},
             p = "begin" => status # "Stopped"
      PROVE  DrivenInv(c)'
  <2>1. PICK f \in Frame : f = [g EXCEPT !.pc = p]
    BY DEF Frame, Pcs
  <2>2. f.op = g.op /\ f.pc = p
    BY <2>1 DEF Frame
  <2>3. Become(t, f)
    BY <1>2, <1>4, <2>1 DEF Goto
  <2>4. Placed(f)
    BY <1>4, <2>2 DEF Placed, Changing, Entered
  <2> QED
    BY <1>1, <1>2, <2>2, <2>3, <2>4, DrivenQuietStep
<1>5. CASE ~Allowed(g.op)
  BY <1>2, <1>4, <1>5 DEF Check
<1>6. CASE Allowed(g.op) /\ g.op = "start"
  <2>1. CASE HasIndex(0)
    <3>1. GetState(0) \in Reference /\ (Built => GetState(0) # Null)
      BY <1>3, <2>1, FoundIsListed DEF Built, DefaultBuilt
    <3>2. PICK f \in Frame : f = [g EXCEPT !.pc = "change", !.new = GetState(0)]
      BY <3>1 DEF Frame, Pcs
    <3>3. f.op = "start" /\ f.pc = "change" /\ f.new = GetState(0)
      BY <1>6, <3>2 DEF Frame
    <3>4. Become(t, f)
      BY <1>2, <1>6, <2>1, <3>2 DEF Check
    <3>5. Placed(f)
      BY <3>1, <3>3 DEF Placed, Entered
    <3> QED
      BY <1>1, <1>2, <1>6, <3>3, <3>4, <3>5, DrivenQuietStep
  <2>2. CASE ~HasIndex(0)
    <3>1. Pop(t)
      BY <1>2, <1>6, <2>2 DEF Check
    <3> QED
      BY <1>1, <3>1, DrivenPop
  <2> QED
    BY <2>1, <2>2
<1>7. CASE Allowed(g.op) /\ g.op = "stop"
  <2>1. Goto(t, "halt")
    BY <1>2, <1>7 DEF Check
  <2> QED
    BY <1>4, <1>7, <2>1
<1>8. CASE Allowed(g.op) /\ g.op \in {"pause", "resume", "tick"}
  <2>1. Goto(t, "begin") /\ status # "Stopped"
    BY <1>2, <1>8 DEF Check, Allowed
  <2> QED
    BY <1>4, <1>8, <2>1
<1> QED
  BY <1>3, <1>5, <1>6, <1>7, <1>8 DEF Operations

\* pause, resume and tick read the current state, and a tick may find no transition.
LEMMA DrivenRead ==
    ASSUME NEW c, DrivenInv(c), MachineInv', NEW t \in Threads, due' = due,
           Begin(t) \/ NoTransition(t)
    PROVE  DrivenInv(c)'
<1>1. /\ stack[t] # <<>> /\ Top(t).pc \in {"begin", "evaluate"}
      /\ UNCHANGED <<states, current, status>>
  BY DEF Begin, NoTransition, At
<1>2. PICK g \in Frame : g = Top(t)
  BY <1>1, DrivenFrame
<1>3. Placed(g) /\ g.pc \in {"begin", "evaluate"} /\ MachineInv
  BY <1>1, <1>2, DrivenFrame DEF DrivenInv
<1>4. ASSUME NEW f \in Frame, Become(t, f), f.op = g.op, Placed(f)
      PROVE  DrivenInv(c)'
  BY <1>1, <1>2, <1>4, DrivenQuietStep
<1>5. CASE Begin(t)
  <2> DEFINE next == CASE g.op = "pause"  -> "onPause"
                       [] g.op = "resume" -> "resumeState"
                       [] OTHER -> IF CurrentState = Null THEN "return" ELSE "evaluate"
  <2>1. PICK p \in Pcs : p = next
    BY DEF Pcs, Callbacks
  <2>2. /\ CurrentState \in Reference
        /\ CurrentState # Null => InList(CurrentState)
    <3>1. CurrentState # Null => current \in Int /\ ~(current < 0) /\ current + 1 \in DOMAIN states
      BY <1>3 DEF MachineInv, StatesOK, CurrentOK, CurrentState
    <3> QED
      BY <1>3, <3>1, CurrentStateFacts DEF InList, CurrentState, GetState
  <2>3. PICK f \in Frame : f = [g EXCEPT !.pc = p, !.old = CurrentState]
    BY <2>2 DEF Frame
  <2>4. f.op = g.op /\ f.pc = p /\ f.old = CurrentState
    BY <2>3 DEF Frame
  <2>5. g.pc = "begin" /\ Become(t, f)
    BY <1>2, <1>5, <2>1, <2>3 DEF Begin, At
  <2>6. Placed(f)
    BY <1>3, <2>1, <2>2, <2>4, <2>5 DEF Placed, Changing, Entered
  <2> QED
    BY <1>4, <2>4, <2>5, <2>6
<1>6. CASE NoTransition(t)
  <2>1. PICK f \in Frame : f = [g EXCEPT !.pc = "return"]
    BY DEF Frame, Pcs
  <2>2. f.op = g.op /\ f.pc = "return"
    BY <2>1 DEF Frame
  <2>3. Become(t, f)
    BY <1>2, <1>6, <2>1 DEF NoTransition, Goto
  <2>4. Placed(f)
    BY <2>2 DEF Placed, Changing, Entered
  <2> QED
    BY <1>4, <2>2, <2>3, <2>4
<1> QED
  BY <1>5, <1>6

\* A tick fires a transition: its target is in the list, if the states are built.
LEMMA DrivenTransition ==
    ASSUME NEW c, DrivenInv(c), MachineInv', NEW t \in Threads, due' = due, Transition(t)
    PROVE  DrivenInv(c)'
<1> DEFINE Fits(k) == HasIndex(k) /\ (AssertsEnabled => GetState(k) # Null)
<1>1. /\ stack[t] # <<>> /\ Top(t).pc = "evaluate"
      /\ UNCHANGED <<states, current, status>>
  BY DEF Transition, At
<1>2. PICK g \in Frame : g = Top(t)
  BY <1>1, DrivenFrame
<1>3. g.op = "tick" /\ InList(g.old) /\ MachineInv
  BY <1>1, <1>2, DrivenFrame DEF DrivenInv, Placed
<1>4. PICK k \in Targets[g.old] :
        IF Fits(k)
        THEN Become(t, [g EXCEPT !.pc = "change", !.new = GetState(k)])
        ELSE Pop(t)
  BY <1>2, Zenon DEF Transition
<1>5. CASE Fits(k)
  <2>1. GetState(k) \in Reference
    BY <1>3, <1>5, FoundIsListed
  <2>2. Built => GetState(k) # Null
    BY <1>3, <1>5 DEF Built, TargetsBuilt, InList
  <2>3. PICK f \in Frame : f = [g EXCEPT !.pc = "change", !.new = GetState(k)]
    BY <2>1 DEF Frame, Pcs
  <2>4. f.op = "tick" /\ f.pc = "change" /\ f.new = GetState(k)
    BY <1>3, <2>3 DEF Frame
  <2>5. Placed(f)
    BY <2>2, <2>4 DEF Placed, Entered
  <2>6. Become(t, f)
    BY <1>4, <1>5, <2>3
  <2> QED
    BY <1>1, <1>2, <1>3, <2>4, <2>5, <2>6, DrivenQuietStep
<1>6. CASE ~Fits(k)
  <2>1. Pop(t)
    BY <1>4, <1>6
  <2> QED
    BY <1>1, <2>1, DrivenPop
<1> QED
  BY <1>5, <1>6

\* The parts of a change of state that write neither the status nor the index.
LEMMA DrivenChange ==
    ASSUME NEW c, DrivenInv(c), MachineInv', NEW t \in Threads, due' = due,
           Change(t) \/ ExitOld(t) \/ NotifyChanged(t) \/ ChangeDone(t) \/ LastCallback(t)
    PROVE  DrivenInv(c)'
<1>1. /\ stack[t] # <<>>
      /\ Top(t).pc \in {"change", "enterState", "onEnter", "exitState", "pauseState", "onResume"}
      /\ UNCHANGED <<states, current, status, due>>
  BY DEF Change, ExitOld, NotifyChanged, ChangeDone, LastCallback, At
<1>2. PICK g \in Frame : g = Top(t)
  BY <1>1, DrivenFrame
<1>3. Placed(g) /\ FrameOK(g) /\ MachineInv /\ CurrentState \in Reference
  BY <1>1, <1>2, DrivenFrame, CurrentStateListed DEF DrivenInv
<1>4. ASSUME NEW f \in Frame, Become(t, f), f.op = g.op, f.new = g.new,
             f.pc \in {"return", "enterState", "onExit", "exitState", "running"},
             f.pc \in {"enterState", "onExit"} => g.pc \in Changing,
             f.pc = "exitState" => g.pc = "onEnter",
             f.pc = "running" => g.op = "start" /\ (Built => current # -1)
      PROVE  DrivenInv(c)'
  <2>1. Placed(f)
    BY <1>3, <1>4 DEF Placed, Changing, Entered
  <2> QED
    BY <1>1, <1>2, <1>4, <2>1, DrivenQuietStep
<1>10. ASSUME NEW p \in {"return", "onExit", "exitState", "running"}, Goto(t, p),
              p = "onExit" => g.pc \in Changing,
              p = "exitState" => g.pc = "onEnter",
              p = "running" => g.op = "start" /\ (Built => current # -1)
       PROVE  DrivenInv(c)'
  <2>1. PICK f \in Frame : f = [g EXCEPT !.pc = p]
    BY DEF Frame, Pcs, Callbacks
  <2>2. f.op = g.op /\ f.pc = p /\ f.new = g.new
    BY <2>1 DEF Frame
  <2>3. Become(t, f)
    BY <1>2, <1>10, <2>1 DEF Goto
  <2> QED
    BY <1>4, <1>10, <2>2, <2>3
<1>5. CASE Change(t)
  <2>1. g.pc = "change"
    BY <1>2, <1>5 DEF Change, At
  <2>2. CASE CurrentState = g.new
    <3>1. g.op = "start" /\ Built => current # -1
      BY <1>3, <2>1, <2>2, CurrentStateFacts DEF Placed, Changing
    <3>2. Goto(t, AfterChange(g.op))
      BY <1>2, <1>5, <2>2 DEF Change
    <3> QED
      BY <1>10, <3>1, <3>2 DEF AfterChange
  <2>3. CASE CurrentState # g.new
    <3>1. Become(t, [g EXCEPT !.pc = "enterState", !.old = CurrentState])
      BY <1>2, <1>5, <2>3 DEF Change
    <3>2. PICK f \in Frame : f = [g EXCEPT !.pc = "enterState", !.old = CurrentState]
      BY <1>3 DEF Frame, Pcs, Callbacks
    <3>3. f.op = g.op /\ f.new = g.new /\ f.pc = "enterState"
      BY <3>2 DEF Frame
    <3> QED
      BY <1>4, <2>1, <3>1, <3>2, <3>3 DEF Changing
  <2> QED
    BY <2>2, <2>3
<1>6. CASE ExitOld(t)
  BY <1>2, <1>10, <1>6 DEF ExitOld, At, Changing
<1>7. CASE NotifyChanged(t)
  BY <1>2, <1>10, <1>7 DEF NotifyChanged, At
<1>8. CASE ChangeDone(t)
  <2>1. g.pc = "exitState" /\ Goto(t, AfterChange(g.op))
    BY <1>2, <1>8 DEF ChangeDone, At
  <2>2. g.op = "start" /\ Built => current # -1
    BY <1>3, <2>1 DEF Placed, Entered
  <2> QED
    BY <1>10, <2>1, <2>2 DEF AfterChange
<1>9. CASE LastCallback(t)
  BY <1>10, <1>9 DEF LastCallback
<1> QED
  BY <1>5, <1>6, <1>7, <1>8, <1>9

\* The four writes: of the index, by a change of state, and of the status.
LEMMA DrivenWrite ==
    ASSUME NEW c, DrivenInv(c), MachineInv', NEW t \in Threads, due' = due,
           SetCurrentState(t) \/ Halt(t) \/ SetRunning(t) \/ SetPaused(t) \/ SetResumed(t)
    PROVE  DrivenInv(c)'
<1>1. stack[t] # <<>> /\ states' = states
  BY DEF SetCurrentState, Halt, SetRunning, SetPaused, SetResumed, At
<1>2. PICK g \in Frame : g = Top(t)
  BY <1>1, DrivenFrame
<1>3. /\ Placed(g) /\ Shaped(g)
      /\ t # c => g.op = "tick"
      /\ NotStoppedHasState
  BY <1>1, <1>2, DrivenFrame DEF DrivenInv, FrameOK
<1>4. Built' = Built
  BY <1>1, SameStates
<1>5. ASSUME NEW p \in Pcs, Goto(t, p), status' # "Stopped" /\ Built => current' # -1,
             t # c => status' = status /\ (Built /\ current' = -1 => current = -1),
             \A f \in Frame : f.op = g.op /\ f.pc = p /\ f.new = g.new => Placed(f)'
      PROVE  DrivenInv(c)'
  <2>1. PICK f \in Frame : f = [g EXCEPT !.pc = p]
    BY DEF Frame
  <2>2. f.op = g.op /\ f.pc = p /\ f.new = g.new
    BY <2>1 DEF Frame
  <2>3. Become(t, f)
    BY <1>2, <1>5, <2>1 DEF Goto
  <2>4. NotStoppedHasState'
    BY <1>4, <1>5 DEF NotStoppedHasState, Built
  <2>5. Placed(f)'
    BY <1>5, <2>2
  <2> QED
    BY <1>1, <1>2, <1>5, <2>2, <2>3, <2>4, <2>5, DrivenStep
<1>6. CASE SetCurrentState(t)
  <2>1. /\ g.pc = "onExit" /\ status' = status /\ Goto(t, "onEnter")
        /\ current' = IF g.new = Null THEN -1 ELSE IndexOf[g.new]
    BY <1>2, <1>6 DEF SetCurrentState, At
  <2>2. g.new # Null => current' # -1
    <3>1. g.new # Null => IndexOf[g.new] \in Nat
      BY IndexAssumption DEF Frame, Reference
    <3> QED
      BY <2>1, <3>1
  <2>3. /\ g.op \in {"start", "stop", "tick"}
        /\ g.op = "stop" => status = "Stopped"
        /\ g.op # "stop" /\ Built => g.new # Null
    BY <1>3, <2>1 DEF Placed, Changing
  <2>4. \A f \in Frame : f.op = g.op /\ f.pc = "onEnter" => Placed(f)'
    BY <1>4, <2>1, <2>2, <2>3 DEF Placed, Changing, Entered
  <2> QED
    BY <1>3, <1>5, <2>1, <2>2, <2>3, <2>4 DEF Pcs, Callbacks
<1>7. CASE Halt(t)
  <2>1. g.pc = "halt" /\ status' = "Stopped" /\ current' = current /\ Goto(t, "change")
    BY <1>2, <1>7 DEF Halt, At
  <2>2. g.op = "stop" /\ t = c
    BY <1>3, <2>1 DEF Placed
  <2>3. \A f \in Frame : f.op = g.op /\ f.pc = "change" => Placed(f)'
    BY <2>1, <2>2 DEF Placed, Changing, Entered
  <2> QED
    BY <1>5, <2>1, <2>2, <2>3 DEF Pcs
<1>8. CASE SetRunning(t)
  <2>1. g.pc = "running" /\ status' = "Running" /\ current' = current /\ Goto(t, "return")
    BY <1>2, <1>8 DEF SetRunning, At
  <2>2. /\ g.op = "start" /\ t = c
        /\ Built => current # -1
    BY <1>3, <2>1 DEF Placed, Shaped, Entered
  <2>3. \A f \in Frame : f.op = g.op /\ f.pc = "return" => Placed(f)'
    BY <2>2 DEF Placed, Changing, Entered
  <2> QED
    BY <1>5, <2>1, <2>2, <2>3 DEF Pcs
<1>9. CASE SetPaused(t)
  <2>1. g.pc = "onPause" /\ status' = "Paused" /\ current' = current /\ Goto(t, "pauseState")
    BY <1>2, <1>9 DEF SetPaused, At
  <2>2. /\ g.op = "pause" /\ t = c /\ status # "Stopped"
        /\ Built => current # -1
    BY <1>3, <2>1 DEF Placed, NotStoppedHasState, Built
  <2>3. \A f \in Frame : f.op = g.op /\ f.pc = "pauseState" => Placed(f)'
    BY <2>1, <2>2 DEF Placed, Changing, Entered
  <2> QED
    BY <1>5, <2>1, <2>2, <2>3 DEF Pcs, Callbacks
<1>10. CASE SetResumed(t)
  <2>1. g.pc = "resumeState" /\ status' = "Running" /\ current' = current /\ Goto(t, "onResume")
    BY <1>2, <1>10 DEF SetResumed, At
  <2>2. /\ g.op = "resume" /\ t = c /\ status # "Stopped"
        /\ Built => current # -1
    BY <1>3, <2>1 DEF Placed, Shaped, NotStoppedHasState, Built
  <2>3. \A f \in Frame : f.op = g.op /\ f.pc = "onResume" => Placed(f)'
    BY <2>1, <2>2 DEF Placed, Changing, Entered
  <2> QED
    BY <1>5, <2>1, <2>2, <2>3 DEF Pcs, Callbacks
<1> QED
  BY <1>6, <1>7, <1>8, <1>9, <1>10

LEMMA DrivenInside ==
    ASSUME NEW c, DrivenInv(c), NEW t \in Threads, AutoInside(t)
    PROVE  DrivenInv(c)'
<1>1. MachineInv' /\ due' = due /\ Inside(t)
  BY InsideStep DEF DrivenInv, AutoInside
<1>2. ASSUME Throw(t) PROVE DrivenInv(c)'
  BY <1>1, <1>2, DrivenPop DEF Throw, InUserCode
<1> QED
  BY <1>1, <1>2, DrivenCheck, DrivenRead, DrivenTransition, DrivenChange, DrivenWrite DEF Inside

LEMMA DrivenInvStep ==
    ASSUME NEW c, Clients = {c}, ReentrantFrom = {}, DrivenInv(c), [Next]_vars
    PROVE  DrivenInv(c)'
<1>1. c \in Threads /\ Metro \in Threads /\ c # Metro /\ \A t \in Threads : t # c => t = Metro
  BY MetroAssumption DEF Clients
<1>2. ASSUME NEW t \in Threads, NEW op \in Operations, AutoCall(t, op)
      PROVE  DrivenInv(c)'
  <2>1. /\ stack[t] = <<>> /\ t = c /\ due' = due
        /\ Push(t, [op |-> op, pc |-> "check", old |-> Null, new |-> Null])
        /\ UNCHANGED <<states, current, status, live, threw>>
    BY <1>1, <1>2, MetroAssumption DEF AutoCall, Call, MayCall
  <2>2. MachineInv'
    BY <2>1, PushStep DEF DrivenInv
  <2>3. due' => due /\ t # Metro
    BY <1>1, <2>1
  <2> QED
    BY <2>1, <2>2, <2>3, DrivenPush
<1>3. ASSUME NEW t \in Threads, AutoReturn(t) PROVE DrivenInv(c)'
  <2>1. stack[t] # <<>> /\ Pop(t) /\ UNCHANGED <<states, current, status, live>> /\ due' = due
    BY <1>3 DEF AutoReturn, Return, At
  <2>2. MachineInv'
    BY <2>1, PopStep DEF DrivenInv
  <2> QED
    BY <2>1, <2>2, DrivenPop
<1>4. ASSUME UNCHANGED machineVars, due' => due \/ stack[Metro] = <<>>
      PROVE  DrivenInv(c)'
  <2>1. MachineInv' /\ stack' = stack
    BY <1>4, MachineStep DEF DrivenInv, machineVars
  <2>2. UNCHANGED <<states, current, status>> /\ Clients # {}
    BY <1>4 DEF machineVars
  <2>3. NotStoppedHasState'
    BY <2>2 DEF DrivenInv, NotStoppedHasState, DefaultBuilt, TargetsBuilt, HasIndex, GetState
  <2>4. \A t \in Threads : stack[t] # <<>> =>
            /\ Len(stack'[t]) = 1
            /\ Placed(Top(t))'
            /\ t # c => Top(t)'.op = "tick"
    BY <2>1, <2>2, DrivenFrame DEF Top, Placed, Built, DefaultBuilt, TargetsBuilt, HasIndex,
       GetState, InList
  <2>5. FramesPlaced(c)'
    BY <2>1, <2>4 DEF FramesPlaced
  <2> QED
    BY <1>4, <2>1, <2>3, <2>5 DEF DrivenInv
<1>5. CASE Snapshot
  BY <1>4, <1>5 DEF Snapshot, machineVars
<1>6. CASE Drive
  <2>1. /\ stack[Metro] = <<>> /\ due' = FALSE /\ "tick" \in Operations
        /\ Push(Metro, [op |-> "tick", pc |-> "check", old |-> Null, new |-> Null])
        /\ UNCHANGED <<states, current, status, live, threw>>
    BY <1>6 DEF Drive, DrivenInv, Operations
  <2>2. MachineInv'
    BY <1>1, <2>1, PushStep DEF DrivenInv
  <2> QED
    BY <1>1, <2>1, <2>2, DrivenPush
<1>7. ASSUME NEW t \in Threads, ReadOnce(t) PROVE DrivenInv(c)'
  BY <1>4, <1>7 DEF ReadOnce, machineVars
<1>8. ASSUME NEW t \in Threads, ReadFails(t) PROVE DrivenInv(c)'
  <2>1. stack[t] # <<>> /\ Pop(t) /\ UNCHANGED <<states, current, status, live>> /\ due' = due
    BY <1>8 DEF ReadFails, Reading, At
  <2>2. MachineInv'
    BY <2>1, PopStep DEF DrivenInv
  <2> QED
    BY <2>1, <2>2, DrivenPop
<1>9. CASE UNCHANGED vars
  BY <1>4, <1>9 DEF vars, machineVars
<1> QED
  BY <1>2, <1>3, <1>5, <1>6, <1>7, <1>8, <1>9, DrivenAddState, DrivenInside DEF Next

\* With one client, whose callbacks do not call the machine, the metronome's ticks can
\* cross its calls at any step: a running or paused machine still has a current state, at
\* every step, whatever has thrown.
THEOREM DrivenKeepsState ==
    ASSUME NEW c, Clients = {c}, ReentrantFrom = {}
    PROVE  Spec => []NotStoppedHasState
<1>1. Init => DrivenInv(c)
  <2> SUFFICES ASSUME Init PROVE DrivenInv(c)
    OBVIOUS
  <2>1. MachineInv /\ status = "Stopped" /\ \A t \in Threads : stack[t] = <<>>
    BY MachineInitially DEF Init, MachineInit
  <2> QED
    BY <2>1, MetroAssumption DEF DrivenInv, FramesPlaced, NotStoppedHasState
<1>2. DrivenInv(c) /\ [Next]_vars => DrivenInv(c)'
  BY DrivenInvStep
<1>3. DrivenInv(c) => NotStoppedHasState
  BY DEF DrivenInv
<1> QED
  BY <1>1, <1>2, <1>3, PTL DEF Spec

=============================================================================
