------------------------ MODULE SMAutoMachine_proofs ------------------------
(***************************************************************************)
(* Proofs about the synchronized machine, for any number of threads, any   *)
(* depth of re-entrancy and any exceptions.  The inductive invariant is    *)
(* what the lock is for: one thread at most is inside the C methods, its   *)
(* callbacks call the machine only where a method has no use left for what *)
(* it has read, and so the frame that runs can rely on what it has read.   *)
(***************************************************************************)
EXTENDS SMAutoMachine, AutoMachine_proofs

\* Callbacks after which a method writes nothing but its own status.
SafeCallbacks == LateCallbacks \cup {"onPause", "resumeState"}

LockOK == \A t, u \in Threads : Synchronized(t) /\ Synchronized(u) => t = u

NestedOK ==
    \A t \in Threads : \A i \in 1 .. Len(stack[t]) - 1 : stack[t][i].pc \in SafeCallbacks

\* What the frame that runs relies on.
SMDoing(f) ==
    /\ f.pc \in {"check", "halt"} => f.new = Null
    /\ f.pc = "halt" => f.op = "stop"
    /\ f.pc = "begin" => f.op \in {"pause", "resume", "tick"}
    /\ f.pc = "evaluate" => f.op = "tick" /\ status = "Running"
    /\ f.pc \in Changing =>
         /\ f.op \in {"start", "stop", "tick"}
         /\ Found(f.new)
         /\ f.op = "stop" => f.new = Null /\ status = "Stopped"
         /\ f.op = "tick" => status = "Running"
    /\ f.pc \in {"enterState", "onExit"} => f.old = CurrentState
    /\ f.pc = "onExit" => live = {}

DoingOK == \A t \in Threads : stack[t] # <<>> => SMDoing(Top(t))

\* Frames that will write the status, or the current state, that their method is for.
Unsettled ==
    {f \in Frame : \/ f.op = "start" /\ f.pc \in Entered
                   \/ f.op = "stop" /\ f.pc \in Changing}

Exiting == {f \in Frame : f.pc = "onExit"}

SettledOK == ~threw /\ status = "Stopped" => current = -1 \/ AnyFrame(Unsettled)

LiveOK ==
    /\ live \subseteq {CurrentState}
    /\ ~threw => live = {CurrentState} \ {Null} \/ AnyFrame(Exiting)

\* The metronome's thread is in no method while it has a tick to make.
DueOK == due => stack[Metro] = <<>>

SMInv ==
    MachineInv /\ LockOK /\ NestedOK /\ DoingOK /\ SettledOK /\ LiveOK /\ DueOK

-----------------------------------------------------------------------------
(* What the C methods read.                                                *)

\* sm_list_get gives a state of the list, at its own index, or none.
LEMMA StateAtFacts ==
    ASSUME MachineInv, NEW k
    PROVE  StateAt(k) \in Reference /\ Listed(StateAt(k)) /\ Found(StateAt(k))
<1>1. CASE HasIndex(k)
  BY <1>1, GetStateFound, FoundIsListed DEF StateAt
<1>2. CASE ~HasIndex(k)
  BY <1>2 DEF StateAt, Listed, Found, Reference
<1> QED
  BY <1>1, <1>2

\* The C machine's current state is the one that the properties speak of.
LEMMA SameCurrentState ==
    ASSUME MachineInv
    PROVE  SMCurrentState = CurrentState
<1>1. states \in Seq(Reference) /\ current \in -1 .. Len(states) - 1
  BY DEF MachineInv, StatesOK, CurrentOK
<1>2. ~(current < 0) => current + 1 \in DOMAIN states
  BY <1>1
<1> QED
  BY <1>2 DEF SMCurrentState, CurrentState, StateAt, HasIndex

\* The frame at the top, for a thread that is in a call.
LEMMA SMTopFacts ==
    ASSUME SMInv, NEW t \in Threads, stack[t] # <<>>
    PROVE  /\ Len(stack[t]) \in Nat \ {0}
           /\ Top(t) = stack[t][Len(stack[t])] /\ Top(t) \in Frame
           /\ SMDoing(Top(t)) /\ FrameOK(Top(t))
<1>1. stack[t] \in Seq(Frame) /\ Len(stack[t]) \in Nat \ {0}
  BY DEF SMInv, MachineInv, StacksOK
<1>2. Top(t) \in Frame /\ FrameOK(Top(t))
  BY TopFacts DEF SMInv, MachineInv
<1> QED
  BY <1>1, <1>2 DEF SMInv, DoingOK, Top

\* A thread that takes a step of a C method is the only one in the block.
LEMMA Alone ==
    ASSUME SMInv, NEW t \in Threads, stack[t] # <<>>, Top(t).pc # "return", Acquires(t)
    PROVE  \A u \in Threads \ {t} : ~Synchronized(u)
<1>1. CASE Top(t).pc = "check"
  BY <1>1 DEF Acquires, At
<1>2. CASE Top(t).pc # "check"
  <2>1. Len(stack[t]) \in DOMAIN stack[t] /\ Top(t) = stack[t][Len(stack[t])]
    <3>1. stack[t] \in Seq(Frame) /\ Len(stack[t]) \in 1 .. Len(stack[t])
      BY DEF SMInv, MachineInv, StacksOK
    <3> QED
      BY <3>1 DEF Top
  <2>2. Synchronized(t)
    BY <1>2, <2>1 DEF Synchronized
  <2> QED
    BY <2>2 DEF SMInv, LockOK
<1> QED
  BY <1>1, <1>2

\* A thread outside of the block relies on nothing.
LEMMA OutsideDoing ==
    ASSUME SMInv, NEW t \in Threads, stack[t] # <<>>, ~Synchronized(t), stack'[t] = stack[t]
    PROVE  SMDoing(Top(t))'
<1>1. stack[t] \in Seq(Frame) /\ Len(stack[t]) \in DOMAIN stack[t]
  BY DEF SMInv, MachineInv, StacksOK
<1>2. PICK g \in Frame : g = Top(t)
  BY SMTopFacts
<1>3. g.pc \in {"check", "return"}
  BY <1>1, <1>2 DEF Synchronized, Top
<1>4. SMDoing(g)
  BY <1>2, SMTopFacts
<1>5. SMDoing(g)'
  BY <1>3, <1>4 DEF SMDoing, Changing
<1>6. Top(t)' = g
  BY <1>2 DEF Top
<1> QED
  BY <1>5, <1>6 DEF SMDoing

-----------------------------------------------------------------------------
(* The three ways a step changes a stack, and the invariant.               *)

\* A step of a C method in its block.
LEMMA BlockStep ==
    ASSUME SMInv, MachineInv', NEW t \in Threads, stack[t] # <<>>, Top(t).pc # "return",
           Acquires(t), NEW f \in Frame, Become(t, f), due' = due,
           SMDoing(f)', SettledOK', LiveOK'
    PROVE  SMInv'
<1>1. /\ stack' \in [Threads -> Seq(Frame)]
      /\ \A u \in Threads \ {t} : stack'[u] = stack[u]
      /\ Len(stack[t]) \in Nat \ {0}
      /\ Len(stack'[t]) = Len(stack[t])
      /\ \A i \in 1 .. Len(stack[t]) - 1 : stack'[t][i] = stack[t][i]
      /\ stack'[t][Len(stack[t])] = f
  BY BecomeFacts DEF SMInv, MachineInv, StacksOK
<1>2. \A u \in Threads \ {t} : ~Synchronized(u)
  BY Alone
<1>3. LockOK'
  <2>1. \A u \in Threads \ {t} : ~Synchronized(u)'
    BY <1>1, <1>2 DEF Synchronized
  <2> QED
    BY <2>1 DEF LockOK
<1>4. NestedOK'
  BY <1>1 DEF SMInv, NestedOK
<1>5. DoingOK'
  <2>1. ASSUME NEW u \in Threads \ {t}, stack'[u] # <<>>
        PROVE  SMDoing(Top(u))'
    <3>1. stack[u] # <<>> /\ ~Synchronized(u) /\ stack'[u] = stack[u]
      BY <1>1, <1>2, <2>1
    <3> QED
      BY <3>1, OutsideDoing
  <2>2. Top(t)' = f
    BY <1>1 DEF Top
  <2>3. SMDoing(Top(t))'
    BY <2>2 DEF SMDoing
  <2> QED
    BY <2>1, <2>3 DEF DoingOK
<1>6. DueOK'
  BY <1>1, MetroAssumption DEF SMInv, DueOK
<1> QED
  BY <1>3, <1>4, <1>5, <1>6 DEF SMInv

\* A thread whose frames do not change relies on what has not changed.
LEMMA UnmovedDoing ==
    ASSUME SMInv, NEW t \in Threads, stack[t] # <<>>, stack'[t] = stack[t],
           UNCHANGED <<states, current, status, live>>
    PROVE  SMDoing(Top(t))'
<1>1. PICK g \in Frame : g = Top(t)
  BY SMTopFacts
<1>2. SMDoing(g)
  BY <1>1, SMTopFacts
<1>3. SMDoing(g)'
  BY <1>2, SameStates DEF SMDoing
<1>4. Top(t)' = g
  BY <1>1 DEF Top
<1> QED
  BY <1>3, <1>4 DEF SMDoing

\* A method is called: from outside, or where a method below has read all it uses.
LEMMA OpenStep ==
    ASSUME SMInv, MachineInv', NEW t \in Threads, NEW f \in Frame, Push(t, f),
           f.pc = "check", f.new = Null,
           stack[t] # <<>> => Top(t).pc \in SafeCallbacks,
           UNCHANGED <<states, current, status, live, threw>>, DueOK'
    PROVE  SMInv'
<1> DEFINE n == Len(stack[t])
<1>1. /\ stack \in [Threads -> Seq(Frame)]
      /\ stack' \in [Threads -> Seq(Frame)]
      /\ \A u \in Threads \ {t} : stack'[u] = stack[u]
      /\ n \in Nat /\ (stack[t] = <<>> <=> n = 0)
      /\ Len(stack'[t]) = n + 1
      /\ \A i \in 1 .. n : stack'[t][i] = stack[t][i]
      /\ stack'[t][n + 1] = f
  <2>1. stack \in [Threads -> Seq(Frame)]
    BY DEF SMInv, MachineInv, StacksOK
  <2> QED
    BY <2>1, PushFacts
<1>2. stack[t] # <<>> => stack[t][n].pc \in SafeCallbacks
  BY DEF Top
<1>3. \A i \in 1 .. n - 1 : stack[t][i].pc \in SafeCallbacks
  BY DEF SMInv, NestedOK
<1>4. DOMAIN stack[t] = 1 .. n /\ DOMAIN stack'[t] = 1 .. n + 1
  BY <1>1
<1> HIDE DEF n
<1>5. \A i \in 1 .. n : i = n \/ i \in 1 .. n - 1
  BY <1>1
<1>6. \A i \in 1 .. n : stack'[t][i].pc \in SafeCallbacks
  <2>1. ASSUME NEW i \in 1 .. n PROVE stack'[t][i].pc \in SafeCallbacks
    BY <1>1, <1>2, <1>3, <1>5
  <2> QED
    BY <2>1
<1>7. NestedOK'
  <2>1. Len(stack'[t]) - 1 = n
    BY <1>1
  <2>2. \A u \in Threads \ {t} : Len(stack'[u]) = Len(stack[u])
    BY <1>1
  <2> QED
    BY <1>1, <1>6, <2>1, <2>2 DEF SMInv, NestedOK
<1>8. LockOK'
  <2>1. \A i \in 1 .. n + 1 : i \in 1 .. n \/ i = n + 1
    BY <1>1
  <2>2. Synchronized(t)' => Synchronized(t)
    BY <1>1, <1>4, <2>1 DEF Synchronized
  <2>3. \A u \in Threads \ {t} : Synchronized(u)' => Synchronized(u)
    BY <1>1 DEF Synchronized
  <2> QED
    BY <2>2, <2>3 DEF SMInv, LockOK
<1>9. DoingOK'
  <2>1. ASSUME NEW u \in Threads \ {t}, stack'[u] # <<>>
        PROVE  SMDoing(Top(u))'
    BY <1>1, <2>1, UnmovedDoing
  <2>2. SMDoing(f)'
    BY DEF SMDoing, Changing
  <2>3. Top(t)' = f
    BY <1>1 DEF Top
  <2>4. SMDoing(Top(t))'
    BY <2>2, <2>3 DEF SMDoing
  <2> QED
    BY <2>1, <2>4 DEF DoingOK
<1>10. SettledOK'
  BY PushKeepsFrame DEF SMInv, SettledOK
<1>11. LiveOK'
  <2>1. CurrentState' = CurrentState
    BY SameStates
  <2> QED
    BY <2>1, PushKeepsFrame DEF SMInv, LiveOK
<1> QED
  BY <1>7, <1>8, <1>9, <1>10, <1>11 DEF SMInv

\* A method returns, or is abandoned: its caller was in a callback and goes on.
LEMMA CloseStep ==
    ASSUME SMInv, MachineInv', NEW t \in Threads, stack[t] # <<>>, Pop(t),
           UNCHANGED <<states, current, status, live, due>>,
           threw' = TRUE \/ (threw' = threw /\ Top(t).pc = "return")
    PROVE  SMInv'
<1> DEFINE n == Len(stack[t])
<1>1. /\ stack' \in [Threads -> Seq(Frame)]
      /\ \A u \in Threads \ {t} : stack'[u] = stack[u]
      /\ n \in Nat \ {0}
      /\ Len(stack'[t]) = n - 1
      /\ \A i \in 1 .. n - 1 : stack'[t][i] = stack[t][i]
  BY PopFacts DEF SMInv, MachineInv, StacksOK
<1>2. \A i \in 1 .. n - 1 : stack[t][i].pc \in SafeCallbacks
  BY DEF SMInv, NestedOK
<1>3. DOMAIN stack[t] = 1 .. n /\ DOMAIN stack'[t] = 1 .. n - 1
  <2>1. stack[t] \in Seq(Frame) /\ stack'[t] \in Seq(Frame)
    BY <1>1 DEF SMInv, MachineInv, StacksOK
  <2> QED
    BY <1>1, <2>1
<1> HIDE DEF n
<1>4. LockOK'
  <2>1. \A i \in 1 .. n - 1 : i \in 1 .. n
    BY <1>1
  <2>2. Synchronized(t)' => Synchronized(t)
    BY <1>1, <1>3, <2>1 DEF Synchronized
  <2>3. \A u \in Threads \ {t} : Synchronized(u)' => Synchronized(u)
    BY <1>1 DEF Synchronized
  <2> QED
    BY <2>2, <2>3 DEF SMInv, LockOK
<1>5. NestedOK'
  <2>1. \A i \in 1 .. n - 1 - 1 : i \in 1 .. n - 1
    BY <1>1
  <2>2. \A i \in 1 .. Len(stack'[t]) - 1 : stack'[t][i].pc \in SafeCallbacks
    BY <1>1, <1>2, <2>1
  <2>3. \A u \in Threads \ {t} : Len(stack'[u]) = Len(stack[u])
    BY <1>1
  <2> QED
    BY <1>1, <2>2, <2>3 DEF SMInv, NestedOK
<1>6. DoingOK'
  <2>1. ASSUME NEW u \in Threads \ {t}, stack'[u] # <<>>
        PROVE  SMDoing(Top(u))'
    BY <1>1, <2>1, UnmovedDoing
  <2>2. ASSUME stack'[t] # <<>>
        PROVE  SMDoing(Top(t))'
    <3>1. n - 1 \in 1 .. n - 1
      BY <1>1, <1>3, <2>2
    <3>2. Top(t)'.pc \in SafeCallbacks
      BY <1>1, <1>2, <3>1 DEF Top
    <3> QED
      BY <3>2 DEF SMDoing, SafeCallbacks, LateCallbacks, Changing
  <2> QED
    BY <2>1, <2>2 DEF DoingOK
<1>7. Top(t).pc = "return" => Top(t) \notin Unsettled /\ Top(t) \notin Exiting
  BY DEF Unsettled, Exiting, Entered, Changing
<1>8. SettledOK'
  BY <1>7, PopKeepsFrame DEF SMInv, SettledOK
<1>9. LiveOK'
  <2>1. CurrentState' = CurrentState
    BY SameStates
  <2> QED
    BY <1>7, <2>1, PopKeepsFrame DEF SMInv, LiveOK
<1>10. DueOK'
  BY <1>1, MetroAssumption DEF SMInv, DueOK
<1> QED
  BY <1>4, <1>5, <1>6, <1>8, <1>9, <1>10 DEF SMInv

\* A step in the block that changes only where its method is.
LEMMA MoveStep ==
    ASSUME SMInv, MachineInv', NEW t \in Threads, stack[t] # <<>>, Acquires(t),
           NEW f \in Frame, Become(t, f), Top(t).pc \notin {"return", "onExit"},
           UNCHANGED <<states, current, status, live, threw, due>>, SMDoing(f),
           Top(t) \in Unsettled => f \in Unsettled \/ current = -1
    PROVE  SMInv'
<1>1. SMDoing(f)' /\ CurrentState' = CurrentState
  BY SameStates DEF SMDoing
<1>2. Top(t) \notin Exiting
  BY DEF Exiting
<1>3. SettledOK'
  BY BecomeKeepsFrame DEF SMInv, SettledOK
<1>4. LiveOK'
  BY <1>1, <1>2, BecomeKeepsFrame DEF SMInv, LiveOK
<1> QED
  BY <1>1, <1>3, <1>4, BlockStep

-----------------------------------------------------------------------------
(* The C methods keep the list, the index and the frames in order.         *)

LEMMA SharedIsInside ==
    ASSUME NEW t, NoTransition(t) \/ ChangeState(t) \/ WriteStatus(t) \/ Throw(t)
    PROVE  Inside(t)
BY DEF ChangeState, WriteStatus, Inside

LEMMA SMMachineStep ==
    ASSUME SMInv, NEW t \in Threads, SMInside(t)
    PROVE  MachineInv'
<1> MachineInv
  BY DEF SMInv
<1>1. ASSUME NEW f \in Frame, Become(t, f), stack[t] # <<>>, FrameOK(f),
             UNCHANGED <<states, current, status, live, threw>>
      PROVE  MachineInv'
  <2>1. StacksOK'
    BY <1>1, BecomeKeepsStacks DEF MachineInv
  <2> QED
    BY <1>1, <2>1, SameMachine DEF MachineInv
<1>2. CASE Enter(t)
  <2>1. stack[t] # <<>> /\ UNCHANGED <<states, current, status, live, threw>>
    BY <1>2 DEF Enter, At
  <2>2. PICK g \in Frame : g = Top(t) /\ FrameOK(g)
    BY <2>1, TopFacts DEF MachineInv
  <2>3. CASE g.op = "start"
    <3>1. DefaultState \in Reference /\ Listed(DefaultState)
      BY StateAtFacts DEF DefaultState
    <3>2. PICK f \in Frame : f = [g EXCEPT !.pc = "change", !.new = DefaultState]
      BY <3>1 DEF Frame, Pcs
    <3>3. Become(t, f)
      BY <1>2, <2>2, <2>3, <3>2 DEF Enter
    <3>4. FrameOK(f)
      BY <3>1, <3>2 DEF FrameOK, Shaped, Frame
    <3> QED
      BY <1>1, <2>1, <3>3, <3>4
  <2>4. CASE g.op # "start"
    <3>1. PICK p \in {"halt", "begin"} : Goto(t, p)
      BY <1>2, <2>2, <2>4 DEF Enter, Frame, Operations
    <3>2. PICK f \in Frame : f = [g EXCEPT !.pc = p]
      BY DEF Frame, Pcs
    <3>3. Become(t, f)
      BY <2>2, <3>1, <3>2 DEF Goto
    <3>4. FrameOK(f)
      BY <2>2, <3>2 DEF FrameOK, Shaped, Frame
    <3> QED
      BY <1>1, <2>1, <3>3, <3>4
  <2> QED
    BY <2>3, <2>4
<1>3. CASE Proceed(t)
  <2>1. /\ stack[t] # <<>> /\ UNCHANGED <<states, current, status, live, threw>>
        /\ SMCurrentState \in Reference
    BY <1>3, SameCurrentState, CurrentStateListed DEF Proceed, At
  <2>2. PICK g \in Frame : g = Top(t) /\ FrameOK(g) /\ SMDoing(g) /\ g.pc = "begin"
    BY <1>3, <2>1, SMTopFacts DEF Proceed, At
  <2> DEFINE next == CASE g.op = "pause"  -> "onPause"
                       [] g.op = "resume" -> "resumeState"
                       [] g.op = "tick"   ->
                            IF SMCurrentState # Null /\ status = "Running" THEN "evaluate"
                            ELSE "return"
  <2>3. Become(t, [g EXCEPT !.pc = next, !.old = SMCurrentState])
    BY <1>3, <2>2 DEF Proceed
  <2>4. /\ next \in {"onPause", "resumeState", "evaluate", "return"}
        /\ next = "resumeState" => g.op = "resume"
    BY <2>2 DEF SMDoing
  <2> HIDE DEF next
  <2>5. PICK f \in Frame : f = [g EXCEPT !.pc = next, !.old = SMCurrentState]
    BY <2>1, <2>4 DEF Frame, Pcs, Callbacks
  <2>6. FrameOK(f)
    BY <2>2, <2>4, <2>5 DEF FrameOK, Shaped, Frame
  <2> QED
    BY <1>1, <2>1, <2>3, <2>5, <2>6
<1>4. CASE Fire(t)
  <2>1. stack[t] # <<>> /\ UNCHANGED <<states, current, status, live, threw>>
    BY <1>4 DEF Fire, At
  <2>2. PICK g \in Frame : g = Top(t) /\ FrameOK(g)
    BY <2>1, TopFacts DEF MachineInv
  <2>3. PICK k : Become(t, [g EXCEPT !.pc = "change", !.new = StateAt(k)])
    BY <1>4, <2>2 DEF Fire
  <2>4. StateAt(k) \in Reference /\ Listed(StateAt(k))
    BY StateAtFacts
  <2>5. PICK f \in Frame : f = [g EXCEPT !.pc = "change", !.new = StateAt(k)]
    BY <2>4 DEF Frame, Pcs
  <2>6. FrameOK(f)
    BY <2>4, <2>5 DEF FrameOK, Shaped, Frame
  <2> QED
    BY <1>1, <2>1, <2>3, <2>5, <2>6
<1> QED
  BY <1>2, <1>3, <1>4, SharedIsInside, InsideStep DEF SMInside

-----------------------------------------------------------------------------
(* The invariant, action by action.                                        *)

\* The first step in the block, for which the lock has to be free.
LEMMA EnterBlock ==
    ASSUME SMInv, MachineInv', NEW t \in Threads, Acquires(t), Enter(t), due' = due
    PROVE  SMInv'
<1>1. /\ stack[t] # <<>> /\ Top(t).pc = "check"
      /\ UNCHANGED <<states, current, status, live, threw>>
  BY DEF Enter, At
<1>2. PICK g \in Frame : g = Top(t)
  BY <1>1, SMTopFacts
<1>3. g.op \in Operations /\ g.pc = "check" /\ g.new = Null
  BY <1>1, <1>2, SMTopFacts DEF Frame, SMDoing
<1>4. Top(t) \notin Unsettled
  BY <1>1 DEF Unsettled, Entered, Changing
<1>5. CASE g.op = "start"
  <2>1. DefaultState \in Reference /\ Found(DefaultState)
    BY StateAtFacts DEF DefaultState, SMInv
  <2>2. PICK f \in Frame : f = [g EXCEPT !.pc = "change", !.new = DefaultState]
    BY <2>1 DEF Frame, Pcs
  <2>3. f.op = "start" /\ f.pc = "change" /\ f.new = DefaultState
    BY <1>5, <2>2 DEF Frame
  <2>4. Become(t, f)
    BY <1>2, <1>5, <2>2 DEF Enter
  <2>5. SMDoing(f)
    BY <2>1, <2>3 DEF SMDoing, Changing
  <2> QED
    BY <1>1, <1>4, <2>4, <2>5, MoveStep
<1>6. CASE g.op # "start"
  <2>1. PICK p \in {"halt", "begin"} :
          /\ Goto(t, p)
          /\ p = "halt" => g.op = "stop"
          /\ p = "begin" => g.op \in {"pause", "resume", "tick"}
    BY <1>2, <1>3, <1>6 DEF Enter, Operations
  <2>2. PICK f \in Frame : f = [g EXCEPT !.pc = p]
    BY DEF Frame, Pcs
  <2>3. f.op = g.op /\ f.pc = p /\ f.new = Null
    BY <1>3, <2>2 DEF Frame
  <2>4. Become(t, f)
    BY <1>2, <2>1, <2>2 DEF Goto
  <2>5. SMDoing(f)
    BY <2>1, <2>3 DEF SMDoing, Changing
  <2> QED
    BY <1>1, <1>4, <2>4, <2>5, MoveStep
<1> QED
  BY <1>5, <1>6

\* pause, resume and tick read the current state, tick looks for a transition.
LEMMA ProceedStep ==
    ASSUME SMInv, MachineInv', NEW t \in Threads, Acquires(t), due' = due,
           Proceed(t) \/ NoTransition(t) \/ Fire(t)
    PROVE  SMInv'
<1>1. /\ stack[t] # <<>> /\ Top(t).pc \in {"begin", "evaluate"}
      /\ UNCHANGED <<states, current, status, live, threw>>
  BY DEF Proceed, NoTransition, Fire, At
<1>2. PICK g \in Frame : g = Top(t)
  BY <1>1, SMTopFacts
<1>3. SMDoing(g) /\ g.pc \in {"begin", "evaluate"} /\ MachineInv
  BY <1>1, <1>2, SMTopFacts DEF SMInv
<1>4. Top(t) \notin Unsettled
  BY <1>1 DEF Unsettled, Entered, Changing
<1>5. CASE Proceed(t)
  <2> DEFINE next == CASE g.op = "pause"  -> "onPause"
                       [] g.op = "resume" -> "resumeState"
                       [] g.op = "tick"   ->
                            IF SMCurrentState # Null /\ status = "Running" THEN "evaluate"
                            ELSE "return"
  <2>1. g.pc = "begin" /\ Become(t, [g EXCEPT !.pc = next, !.old = SMCurrentState])
    BY <1>2, <1>5 DEF Proceed, At
  <2>2. /\ next \in {"onPause", "resumeState", "evaluate", "return"}
        /\ next = "evaluate" => g.op = "tick" /\ status = "Running"
    BY <1>3, <2>1 DEF SMDoing
  <2> HIDE DEF next
  <2>3. SMCurrentState \in Reference
    BY <1>3, SameCurrentState, CurrentStateListed
  <2>4. PICK f \in Frame : f = [g EXCEPT !.pc = next, !.old = SMCurrentState]
    BY <2>2, <2>3 DEF Frame, Pcs, Callbacks
  <2>5. f.op = g.op /\ f.pc = next
    BY <2>4 DEF Frame
  <2>6. SMDoing(f)
    BY <2>2, <2>5 DEF SMDoing, Changing
  <2> QED
    BY <1>1, <1>4, <2>1, <2>4, <2>6, MoveStep
<1>6. CASE NoTransition(t)
  <2>1. PICK f \in Frame : f = [g EXCEPT !.pc = "return"]
    BY DEF Frame, Pcs
  <2>2. f.pc = "return"
    BY <2>1 DEF Frame
  <2>3. Become(t, f)
    BY <1>2, <1>6, <2>1 DEF NoTransition, Goto
  <2>4. SMDoing(f)
    BY <2>2 DEF SMDoing, Changing
  <2> QED
    BY <1>1, <1>4, <2>3, <2>4, MoveStep
<1>7. CASE Fire(t)
  <2>1. g.op = "tick" /\ status = "Running"
    BY <1>2, <1>3, <1>7 DEF Fire, At, SMDoing
  <2>2. PICK k : Become(t, [g EXCEPT !.pc = "change", !.new = StateAt(k)])
    BY <1>2, <1>7 DEF Fire
  <2>3. StateAt(k) \in Reference /\ Found(StateAt(k))
    BY <1>3, StateAtFacts
  <2>4. PICK f \in Frame : f = [g EXCEPT !.pc = "change", !.new = StateAt(k)]
    BY <2>3 DEF Frame, Pcs
  <2>5. f.op = "tick" /\ f.pc = "change" /\ f.new = StateAt(k)
    BY <2>1, <2>4 DEF Frame
  <2>6. SMDoing(f)
    BY <2>1, <2>3, <2>5 DEF SMDoing, Changing
  <2> QED
    BY <1>1, <1>4, <2>2, <2>4, <2>6, MoveStep
<1> QED
  BY <1>5, <1>6, <1>7

\* sm_change_state looks at the current state: nothing to do, or a state to leave.
LEMMA ChangeBlock ==
    ASSUME SMInv, MachineInv', NEW t \in Threads, Acquires(t), Change(t), due' = due
    PROVE  SMInv'
<1>1. /\ stack[t] # <<>> /\ Top(t).pc = "change"
      /\ UNCHANGED <<states, current, status, live, threw>>
  BY DEF Change, At
<1>2. PICK g \in Frame : g = Top(t)
  BY <1>1, SMTopFacts
<1>3. SMDoing(g) /\ g.pc = "change" /\ g.op \in Operations /\ MachineInv
  BY <1>1, <1>2, SMTopFacts DEF SMInv, Frame
<1>4. /\ g.op \in {"start", "stop", "tick"}
      /\ Found(g.new)
      /\ g.op = "stop" => g.new = Null /\ status = "Stopped"
      /\ g.op = "tick" => status = "Running"
  BY <1>3 DEF SMDoing, Changing
<1>5. CurrentState \in Reference /\ (CurrentState = Null <=> current = -1)
  BY <1>3, CurrentStateFacts
<1>6. Top(t) \in Unsettled => g.op = "stop"
  BY <1>1, <1>2 DEF Unsettled, Entered
<1>7. CASE CurrentState = g.new
  <2>1. PICK p \in {"running", "return"} : p = AfterChange(g.op)
    BY DEF AfterChange
  <2>2. PICK f \in Frame : f = [g EXCEPT !.pc = p]
    BY DEF Frame, Pcs
  <2>3. f.pc = p
    BY <2>2 DEF Frame
  <2>4. Become(t, f)
    BY <1>2, <1>7, <2>1, <2>2 DEF Change, Goto
  <2>5. SMDoing(f)
    BY <2>3 DEF SMDoing, Changing
  <2>6. Top(t) \in Unsettled => current = -1
    BY <1>4, <1>5, <1>6, <1>7
  <2> QED
    BY <1>1, <2>4, <2>5, <2>6, MoveStep
<1>8. CASE CurrentState # g.new
  <2>1. PICK f \in Frame : f = [g EXCEPT !.pc = "enterState", !.old = CurrentState]
    BY <1>5 DEF Frame, Pcs, Callbacks
  <2>2. f.op = g.op /\ f.pc = "enterState" /\ f.new = g.new /\ f.old = CurrentState
    BY <2>1 DEF Frame
  <2>3. Become(t, f)
    BY <1>2, <1>8, <2>1 DEF Change
  <2>4. SMDoing(f)
    BY <1>4, <2>2 DEF SMDoing, Changing
  <2>5. Top(t) \in Unsettled => f \in Unsettled
    BY <1>6, <2>2 DEF Unsettled, Changing
  <2> QED
    BY <1>1, <2>3, <2>4, <2>5, MoveStep
<1> QED
  BY <1>7, <1>8

\* exitState: the old state, which is still the current one, is told.
LEMMA ExitBlock ==
    ASSUME SMInv, MachineInv', NEW t \in Threads, Acquires(t), ExitOld(t), due' = due
    PROVE  SMInv'
<1>1. /\ stack[t] # <<>> /\ Top(t).pc = "enterState" /\ live' = live \ {Top(t).old}
      /\ UNCHANGED <<states, current, status, threw>>
  BY DEF ExitOld, At
<1>2. PICK g \in Frame : g = Top(t)
  BY <1>1, SMTopFacts
<1>3. SMDoing(g) /\ g.pc = "enterState"
  BY <1>1, <1>2, SMTopFacts
<1>4. PICK f \in Frame : f = [g EXCEPT !.pc = "onExit"]
  BY DEF Frame, Pcs, Callbacks
<1>5. f.op = g.op /\ f.pc = "onExit" /\ f.new = g.new /\ f.old = g.old
  BY <1>4 DEF Frame
<1>6. Become(t, f)
  BY <1>2, <1>4 DEF ExitOld, Goto
<1>7. live' = {}
  BY <1>1, <1>2, <1>3 DEF SMDoing, SMInv, LiveOK
<1>8. CurrentState' = CurrentState /\ Found(g.new)' = Found(g.new)
  BY <1>1, SameStates
<1>9. SMDoing(f)'
  BY <1>1, <1>3, <1>5, <1>7, <1>8 DEF SMDoing, Changing, Found
<1>10. f \in Exiting /\ (Top(t) \in Unsettled => f \in Unsettled)
  BY <1>1, <1>2, <1>5 DEF Exiting, Unsettled, Entered, Changing
<1>11. SettledOK'
  BY <1>1, <1>6, <1>10, BecomeKeepsFrame DEF SMInv, SettledOK
<1>12. AnyFrame(Exiting)'
  BY <1>1, <1>6, <1>10, BecomeKeepsFrame DEF SMInv
<1>13. LiveOK'
  BY <1>7, <1>12 DEF LiveOK
<1> QED
  BY <1>1, <1>6, <1>9, <1>11, <1>13, BlockStep

\* The index of the new state is written, which is then the current state.
LEMMA SetCurrentBlock ==
    ASSUME SMInv, MachineInv', NEW t \in Threads, Acquires(t), SetCurrentState(t), due' = due
    PROVE  SMInv'
<1>1. /\ stack[t] # <<>> /\ Top(t).pc = "onExit"
      /\ UNCHANGED <<states, status, threw>>
  BY DEF SetCurrentState, At
<1>2. PICK g \in Frame : g = Top(t)
  BY <1>1, SMTopFacts
<1>3. SMDoing(g) /\ g.pc = "onExit" /\ g.new \in Reference
  BY <1>1, <1>2, SMTopFacts DEF Frame
<1>4. /\ g.op \in {"start", "stop", "tick"}
      /\ Found(g.new)
      /\ g.op = "stop" => g.new = Null
      /\ g.op = "tick" => status = "Running"
      /\ live = {}
  BY <1>3 DEF SMDoing, Changing
<1>5. /\ current' = IF g.new = Null THEN -1 ELSE IndexOf[g.new]
      /\ live' = {g.new} \ {Null}
  BY <1>2, <1>4 DEF SetCurrentState
<1>6. PICK f \in Frame : f = [g EXCEPT !.pc = "onEnter"]
  BY DEF Frame, Pcs, Callbacks
<1>7. f.op = g.op /\ f.pc = "onEnter"
  BY <1>6 DEF Frame
<1>8. Become(t, f)
  BY <1>2, <1>6 DEF SetCurrentState, Goto
<1>9. SMDoing(f)'
  BY <1>7 DEF SMDoing, Changing
<1>10. CurrentState' = g.new
  <2>1. CASE g.new = Null
    BY <1>5, <2>1 DEF CurrentState
  <2>2. CASE g.new # Null
    <3>1. IndexOf[g.new] \in Nat
      BY <1>3, <2>2, IndexAssumption DEF Reference
    <3>2. current' = IndexOf[g.new] /\ ~(current' < 0)
      BY <1>5, <2>2, <3>1
    <3> QED
      BY <1>1, <1>4, <2>2, <3>2 DEF Found, CurrentState, GetState
  <2> QED
    BY <2>1, <2>2
<1>11. SettledOK'
  <2>1. CASE g.op = "start"
    <3>1. f \in Unsettled
      BY <1>7, <2>1 DEF Unsettled, Entered
    <3>2. AnyFrame(Unsettled)'
      BY <1>1, <1>8, <3>1, BecomeKeepsFrame DEF SMInv
    <3> QED
      BY <3>2 DEF SettledOK
  <2>2. CASE g.op = "stop"
    BY <1>4, <1>5, <2>2 DEF SettledOK
  <2>3. CASE g.op = "tick"
    BY <1>1, <1>4, <2>3 DEF SettledOK
  <2> QED
    BY <1>4, <2>1, <2>2, <2>3
<1>12. LiveOK'
  BY <1>5, <1>10 DEF LiveOK
<1> QED
  BY <1>1, <1>8, <1>9, <1>11, <1>12, BlockStep

\* The callbacks after the index was written, and the last of pause and resume.
LEMMA LateBlock ==
    ASSUME SMInv, MachineInv', NEW t \in Threads, Acquires(t), due' = due,
           NotifyChanged(t) \/ ChangeDone(t) \/ LastCallback(t)
    PROVE  SMInv'
<1>1. /\ stack[t] # <<>> /\ Top(t).pc \in LateCallbacks
      /\ UNCHANGED <<states, current, status, live, threw>>
  BY DEF NotifyChanged, ChangeDone, LastCallback, At, LateCallbacks
<1>2. PICK g \in Frame : g = Top(t)
  BY <1>1, SMTopFacts
<1>3. PICK p \in {"exitState", "running", "return"} :
        Goto(t, p) /\ (g.op = "start" /\ g.pc \in Entered => p \in Entered)
  <2>1. CASE NotifyChanged(t)
    BY <2>1 DEF NotifyChanged, Entered
  <2>2. CASE ChangeDone(t)
    BY <1>2, <2>2 DEF ChangeDone, Entered, AfterChange
  <2>3. CASE LastCallback(t)
    BY <1>2, <2>3 DEF LastCallback, At, Entered
  <2> QED
    BY <2>1, <2>2, <2>3
<1>4. PICK f \in Frame : f = [g EXCEPT !.pc = p]
  BY DEF Frame, Pcs, Callbacks
<1>5. f.op = g.op /\ f.pc = p
  BY <1>4 DEF Frame
<1>6. Become(t, f)
  BY <1>2, <1>3, <1>4 DEF Goto
<1>7. SMDoing(f)
  BY <1>5 DEF SMDoing, Changing
<1>8. Top(t) \in Unsettled => f \in Unsettled
  BY <1>1, <1>2, <1>3, <1>5 DEF Unsettled, LateCallbacks, Changing
<1>9. Top(t).pc \notin {"return", "onExit"}
  BY <1>1 DEF LateCallbacks
<1> QED
  BY <1>1, <1>6, <1>7, <1>8, <1>9, MoveStep

\* The four writes of the status.
LEMMA StatusBlock ==
    ASSUME SMInv, MachineInv', NEW t \in Threads, Acquires(t), due' = due,
           Halt(t) \/ SetRunning(t) \/ SetPaused(t) \/ SetResumed(t)
    PROVE  SMInv'
<1>1. /\ stack[t] # <<>> /\ Top(t).pc \in {"halt", "running", "onPause", "resumeState"}
      /\ UNCHANGED <<states, current, live, threw>>
  BY DEF Halt, SetRunning, SetPaused, SetResumed, At
<1>2. PICK g \in Frame : g = Top(t)
  BY <1>1, SMTopFacts
<1>3. SMDoing(g)
  BY <1>1, <1>2, SMTopFacts
<1>4. PICK p \in {"change", "return", "pauseState", "onResume"} :
        /\ Goto(t, p)
        /\ p = "change" => g.op = "stop" /\ g.new = Null /\ status' = "Stopped"
        /\ p # "change" => status' # "Stopped"
  <2>1. CASE Halt(t)
    BY <1>2, <1>3, <2>1 DEF Halt, At, SMDoing
  <2>2. CASE SetRunning(t) \/ SetPaused(t) \/ SetResumed(t)
    BY <2>2 DEF SetRunning, SetPaused, SetResumed
  <2> QED
    BY <2>1, <2>2
<1>5. PICK f \in Frame : f = [g EXCEPT !.pc = p]
  BY DEF Frame, Pcs, Callbacks
<1>6. f.op = g.op /\ f.pc = p /\ f.new = g.new
  BY <1>5 DEF Frame
<1>7. Become(t, f)
  BY <1>2, <1>4, <1>5 DEF Goto
<1>8. SMDoing(f)'
  BY <1>4, <1>6 DEF SMDoing, Changing, Found
<1>9. SettledOK'
  <2>1. CASE p = "change"
    <3>1. f \in Unsettled
      BY <1>4, <1>6, <2>1 DEF Unsettled, Changing
    <3>2. AnyFrame(Unsettled)'
      BY <1>1, <1>7, <3>1, BecomeKeepsFrame DEF SMInv
    <3> QED
      BY <3>2 DEF SettledOK
  <2>2. CASE p # "change"
    BY <1>4, <2>2 DEF SettledOK
  <2> QED
    BY <2>1, <2>2
<1>10. LiveOK'
  <2>1. Top(t) \notin Exiting
    BY <1>1 DEF Exiting
  <2>2. CurrentState' = CurrentState
    BY <1>1, SameStates
  <2> QED
    BY <1>1, <1>7, <2>1, <2>2, BecomeKeepsFrame DEF SMInv, LiveOK
<1>11. Top(t).pc # "return"
  BY <1>1
<1> QED
  BY <1>1, <1>7, <1>8, <1>9, <1>10, <1>11, BlockStep

\* Any step in the block.
LEMMA BlockSteps ==
    ASSUME SMInv, NEW t \in Threads, SMAutoInside(t)
    PROVE  SMInv'
<1>1. Acquires(t) /\ due' = due /\ SMInside(t)
  BY DEF SMAutoInside
<1>2. MachineInv'
  BY <1>1, SMMachineStep
<1>3. CASE Enter(t)
  BY <1>1, <1>2, <1>3, EnterBlock
<1>4. CASE Proceed(t) \/ NoTransition(t) \/ Fire(t)
  BY <1>1, <1>2, <1>4, ProceedStep
<1>5. CASE Change(t)
  BY <1>1, <1>2, <1>5, ChangeBlock
<1>6. CASE ExitOld(t)
  BY <1>1, <1>2, <1>6, ExitBlock
<1>7. CASE SetCurrentState(t)
  BY <1>1, <1>2, <1>7, SetCurrentBlock
<1>8. CASE NotifyChanged(t) \/ ChangeDone(t) \/ LastCallback(t)
  BY <1>1, <1>2, <1>8, LateBlock
<1>9. CASE Halt(t) \/ SetRunning(t) \/ SetPaused(t) \/ SetResumed(t)
  BY <1>1, <1>2, <1>9, StatusBlock
<1>10. CASE Throw(t)
  BY <1>1, <1>2, <1>10, CloseStep DEF Throw, InUserCode
<1> QED
  BY <1>1, <1>3, <1>4, <1>5, <1>6, <1>7, <1>8, <1>9, <1>10
     DEF SMInside, ChangeState, WriteStatus

\* sm_add_state: nothing is current, neither before nor after.
LEMMA AddBlock ==
    ASSUME SMInv, NEW o \in StateObjects, SMAddState(o)
    PROVE  SMInv'
<1>1. /\ AddState(o) /\ status = "Stopped" /\ current = -1
      /\ \A t \in Threads : stack[t] = <<>>
      /\ UNCHANGED <<current, status, stack, live, threw, due>>
  BY DEF SMAddState, AutoAddState, AddState, Quiescent
<1>2. MachineInv'
  BY <1>1, AddStateStep DEF SMInv
<1>3. CurrentState = Null /\ CurrentState' = Null
  BY <1>1 DEF CurrentState
<1>4. live = {}
  BY <1>3, NullAssumption DEF SMInv, MachineInv, LiveOK
<1>5. LockOK' /\ NestedOK' /\ DueOK'
  BY <1>1 DEF SMInv, LockOK, Synchronized, NestedOK, DueOK
<1>6. DoingOK'
  BY <1>1 DEF DoingOK
<1>7. SettledOK' /\ LiveOK'
  BY <1>1, <1>3, <1>4 DEF SettledOK, LiveOK
<1> QED
  BY <1>2, <1>5, <1>6, <1>7 DEF SMInv

\* A method is called from outside, from a callback, or by the metronome.
LEMMA CallBlock ==
    ASSUME SMInv, ReentrantFrom \subseteq SafeCallbacks, NEW t \in Threads,
           \/ \E op \in Operations : SMAutoCall(t, op)
           \/ t = Metro /\ TickAll
    PROVE  SMInv'
<1>1. /\ \E op \in Operations :
           Push(t, [op |-> op, pc |-> "check", old |-> Null, new |-> Null])
      /\ UNCHANGED <<states, current, status, live, threw>>
  BY DEF SMAutoCall, AutoCall, Call, TickAll, Drive, Operations
<1>2. PICK f \in Frame : Push(t, f) /\ f.pc = "check" /\ f.new = Null
  BY <1>1 DEF Frame, Pcs, Reference
<1>3. MachineInv'
  BY <1>1, PushStep DEF SMInv
<1>4. stack[t] # <<>> => Top(t).pc \in SafeCallbacks
  BY DEF SMAutoCall, AutoCall, Call, MayCall, TickAll, Drive, SMInv, DueOK
<1>5. DueOK'
  <2>1. CASE \E op \in Operations : SMAutoCall(t, op)
    <3>1. due' = due /\ (t = Metro => stack[t] # <<>>)
      BY <2>1, MetroAssumption DEF SMAutoCall, AutoCall, Call, MayCall, InUserCode
    <3>2. \A u \in Threads \ {t} : stack'[u] = stack[u]
      BY <1>2, PushFacts DEF SMInv, MachineInv, StacksOK
    <3> QED
      BY <3>1, <3>2, MetroAssumption DEF SMInv, DueOK
  <2>2. CASE TickAll
    BY <2>2 DEF TickAll, Drive, DueOK
  <2> QED
    BY <2>1, <2>2
<1> QED
  BY <1>1, <1>2, <1>3, <1>4, <1>5, OpenStep

LEMMA SMStep ==
    ASSUME SMInv, ReentrantFrom \subseteq SafeCallbacks, [SMAutoNext]_vars
    PROVE  SMInv'
<1>1. CASE \E o \in StateObjects : SMAddState(o)
  BY <1>1, AddBlock
<1>2. ASSUME NEW t \in Threads, NEW op \in Operations, SMAutoCall(t, op)
      PROVE  SMInv'
  BY <1>2, CallBlock
<1>3. ASSUME NEW t \in Threads, SMAutoInside(t)
      PROVE  SMInv'
  BY <1>3, BlockSteps
<1>4. ASSUME NEW t \in Threads, SMAutoReturn(t)
      PROVE  SMInv'
  <2>1. /\ stack[t] # <<>> /\ Top(t).pc = "return" /\ Pop(t)
        /\ UNCHANGED <<states, current, status, live, threw, due>>
    BY <1>4 DEF SMAutoReturn, AutoReturn, Return, At
  <2>2. MachineInv'
    BY <2>1, PopStep DEF SMInv
  <2> QED
    BY <2>1, <2>2, CloseStep
<1>5. ASSUME UNCHANGED machineVars, DueOK'
      PROVE  SMInv'
  <2>1. MachineInv'
    BY <1>5, MachineStep DEF SMInv
  <2>2. LockOK' /\ NestedOK'
    BY <1>5 DEF machineVars, SMInv, LockOK, Synchronized, NestedOK
  <2>3. DoingOK'
    <3>1. ASSUME NEW t \in Threads, stack'[t] # <<>> PROVE SMDoing(Top(t))'
      BY <1>5, <3>1, UnmovedDoing DEF machineVars
    <3> QED
      BY <3>1 DEF DoingOK
  <2>4. SettledOK' /\ LiveOK'
    BY <1>5, SameStates DEF machineVars, SMInv, SettledOK, LiveOK, AnyFrame
  <2> QED
    BY <1>5, <2>1, <2>2, <2>3, <2>4 DEF SMInv
<1>6. CASE GetTickers
  BY <1>5, <1>6 DEF GetTickers, Snapshot, machineVars, DueOK
<1>7. CASE TickAll
  BY <1>7, MetroAssumption, CallBlock
<1>8. CASE UNCHANGED vars
  BY <1>5, <1>8 DEF vars, machineVars, SMInv, DueOK
<1> QED
  BY <1>1, <1>2, <1>3, <1>4, <1>6, <1>7, <1>8 DEF SMAutoNext

LEMMA SMInitially ==
    ASSUME SMInit
    PROVE  SMInv
<1>1. /\ \A t \in Threads : stack[t] = <<>>
      /\ current = -1 /\ live = {} /\ due = FALSE /\ MachineInv
  BY MachineInitially DEF SMInit, Init, MachineInit
<1>2. LockOK /\ NestedOK /\ DoingOK /\ DueOK
  BY <1>1 DEF LockOK, Synchronized, NestedOK, DoingOK, DueOK
<1>3. SettledOK /\ LiveOK
  BY <1>1 DEF SettledOK, LiveOK, CurrentState
<1> QED
  BY <1>1, <1>2, <1>3 DEF SMInv

-----------------------------------------------------------------------------

\* Any threads, any re-entrant calls from callbacks that come after the last read of
\* their method, any exceptions: once every call has returned and none was abandoned,
\* a stopped machine has left its last state.  Without the lock this fails: a tick may
\* enter a state after stop has left the last one (auto_stop_race).
THEOREM SMStopLeavesState ==
    ASSUME ReentrantFrom \subseteq SafeCallbacks
    PROVE  SMAutoSpec => []StoppedHasNoState
<1>1. SMInit => SMInv
  BY SMInitially
<1>2. SMInv /\ [SMAutoNext]_vars => SMInv'
  BY SMStep
<1>3. SMInv => StoppedHasNoState
  BY DEF SMInv, SettledOK, StoppedHasNoState, Quiescent, AnyFrame
<1> QED
  BY <1>1, <1>2, <1>3, PTL DEF SMAutoSpec

\* Under the same condition, onEnter and onExit alternate: a state that was entered
\* and not left is the current one, at every step of every thread, whatever has thrown.
THEOREM SMEnterAndExitAlternate ==
    ASSUME ReentrantFrom \subseteq SafeCallbacks
    PROVE  SMAutoSpec => []OnlyCurrentIsLive
<1>1. SMInit => SMInv
  BY SMInitially
<1>2. SMInv /\ [SMAutoNext]_vars => SMInv'
  BY SMStep
<1>3. SMInv => OnlyCurrentIsLive
  BY DEF SMInv, LiveOK, OnlyCurrentIsLive, Quiescent, AnyFrame
<1> QED
  BY <1>1, <1>2, <1>3, PTL DEF SMAutoSpec

\* Under the same condition, a tick changes the state of a running machine only.
THEOREM SMTicksOnlyRunning ==
    ASSUME ReentrantFrom \subseteq SafeCallbacks
    PROVE  SMAutoSpec => TicksOnlyRunning
<1> DEFINE Ticked ==
             \A t \in Threads :
                ~threw /\ Enters(t, "onExit", "onEnter") /\ Top(t).op = "tick" => status = "Running"
<1>1. SMInit => SMInv
  BY SMInitially
<1>2. SMInv /\ [SMAutoNext]_vars => SMInv'
  BY SMStep
<1>3. SMInv => [Ticked]_machineVars
  BY DEF SMInv, DoingOK, SMDoing, Changing, Enters, At
<1> QED
  BY <1>1, <1>2, <1>3, PTL DEF SMAutoSpec, TicksOnlyRunning

-----------------------------------------------------------------------------
(* The registration at the metronome: the three actions of the C methods   *)
(* that the Java machine does not have keep what RegistrationInv needs.    *)

LEMMA BlockKeepsPending ==
    ASSUME SafeThrows, SMInv, NEW t \in Threads, SMInside(t), ~registered,
           status = "Running" => HasPending, status' = "Running"
    PROVE  HasPending'
<1>1. MachineInv
  BY DEF SMInv
<1>2. CASE NoTransition(t) \/ ChangeState(t) \/ WriteStatus(t) \/ Throw(t)
  BY <1>1, <1>2, SharedIsInside, InsideKeepsPending
<1>3. CASE Enter(t)
  <2>1. /\ stack[t] # <<>> /\ Top(t).pc = "check" /\ HasPending
    BY <1>3 DEF Enter, At
  <2>2. PICK g \in Frame : g = Top(t)
    BY <2>1, SMTopFacts
  <2>3. CASE g.op = "start"
    <3>1. PICK f \in Frame : f = [g EXCEPT !.pc = "change", !.new = DefaultState]
      BY <1>1, StateAtFacts DEF DefaultState, Frame, Pcs
    <3>2. Become(t, f)
      BY <1>3, <2>2, <2>3, <3>1 DEF Enter
    <3>3. ~Pending(Top(t))
      BY <2>1, <2>2, <2>3 DEF Pending, WillRegister, WillStopRunning
    <3> QED
      BY <1>1, <2>1, <3>2, <3>3, BecomeKeepsPending
  <2>4. CASE g.op # "start"
    <3>1. PICK p \in {"halt", "begin"} :
            Goto(t, p) /\ (p = "halt" => g.op = "stop") /\ (p = "begin" => g.op # "stop")
      BY <1>3, <2>2, <2>4 DEF Enter, Frame, Operations
    <3>2. PICK f \in Frame : f = [g EXCEPT !.pc = p]
      BY DEF Frame, Pcs
    <3>3. Become(t, f)
      BY <2>2, <3>1, <3>2 DEF Goto
    <3>4. f.op = g.op /\ f.pc = p
      BY <3>2 DEF Frame
    <3>5. Pending(Top(t)) => Pending(f)
      BY <2>1, <2>2, <3>1, <3>4 DEF Pending, WillRegister, WillStopRunning
    <3> QED
      BY <1>1, <2>1, <3>3, <3>5, BecomeKeepsPending
  <2> QED
    BY <2>3, <2>4
<1>4. CASE Proceed(t)
  <2>1. stack[t] # <<>> /\ Top(t).pc = "begin" /\ HasPending
    BY <1>4 DEF Proceed, At
  <2>2. PICK g \in Frame : g = Top(t) /\ SMDoing(g)
    BY <2>1, SMTopFacts
  <2> DEFINE next == CASE g.op = "pause"  -> "onPause"
                       [] g.op = "resume" -> "resumeState"
                       [] g.op = "tick"   ->
                            IF SMCurrentState # Null /\ status = "Running" THEN "evaluate"
                            ELSE "return"
  <2>3. Become(t, [g EXCEPT !.pc = next, !.old = SMCurrentState])
    BY <1>4, <2>2 DEF Proceed
  <2>4. next \in Pcs /\ (g.op = "pause" => next = "onPause")
    BY <2>1, <2>2 DEF SMDoing, Pcs, Callbacks
  <2> HIDE DEF next
  <2>5. PICK f \in Frame : f = [g EXCEPT !.pc = next, !.old = SMCurrentState]
    BY <1>1, <2>4, SameCurrentState, CurrentStateListed DEF Frame
  <2>6. f.op = g.op /\ f.pc = next
    BY <2>5 DEF Frame
  <2>7. Pending(Top(t)) => Pending(f)
    BY <2>1, <2>2, <2>4, <2>6 DEF Pending, WillRegister, WillStopRunning
  <2> QED
    BY <1>1, <2>1, <2>3, <2>5, <2>7, BecomeKeepsPending
<1>5. CASE Fire(t)
  <2>1. stack[t] # <<>> /\ Top(t).pc = "evaluate" /\ HasPending
    BY <1>5 DEF Fire, At
  <2>2. PICK g \in Frame : g = Top(t)
    BY <2>1, SMTopFacts
  <2>3. PICK k : Become(t, [g EXCEPT !.pc = "change", !.new = StateAt(k)])
    BY <1>5, <2>2 DEF Fire
  <2>4. PICK f \in Frame : f = [g EXCEPT !.pc = "change", !.new = StateAt(k)]
    BY <1>1, StateAtFacts DEF Frame, Pcs
  <2>5. ~Pending(Top(t))
    BY <2>1 DEF Pending, WillRegister, WillStopRunning
  <2> QED
    BY <1>1, <2>1, <2>3, <2>4, <2>5, BecomeKeepsPending
<1> QED
  BY <1>2, <1>3, <1>4, <1>5 DEF SMInside

LEMMA SMRegistrationStep ==
    ASSUME SafeThrows, ReentrantFrom \subseteq SafeCallbacks,
           SMInv, RegistrationInv, [SMAutoNext]_vars
    PROVE  RegistrationInv'
<1>1. CASE \E t \in Threads : SMAutoInside(t)
  <2>1. PICK t \in Threads : SMAutoInside(t)
    BY <1>1
  <2>2. /\ MachineInv' /\ registered' = registered /\ due' = due /\ torn' = torn
        /\ SMInside(t)
    BY <2>1, SMMachineStep DEF SMAutoInside, reads
  <2>3. ~torn /\ ~registered /\ status' = "Running" => HasPending'
    BY <2>2, BlockKeepsPending DEF RegistrationInv
  <2> QED
    BY <2>2, <2>3 DEF RegistrationInv
<1>2. CASE ~\E t \in Threads : SMAutoInside(t)
  <2>1. [Next]_vars
    BY <1>2 DEF SMAutoNext, Next, SMAddState, SMAutoCall, SMAutoReturn, GetTickers, TickAll
  <2> QED
    BY <2>1, RegistrationStep
<1> QED
  BY <1>1, <1>2

\* Under the same condition, and if onPause and onResume do not throw: once every
\* call has returned, a machine that runs is among the tickers of the metronome.
THEOREM SMTickerNotLost ==
    ASSUME SafeThrows, ReentrantFrom \subseteq SafeCallbacks
    PROVE  SMAutoSpec => []NoLostTicker
<1> DEFINE Inv == SMInv /\ RegistrationInv
<1>1. SMInit => Inv
  BY SMInitially, MachineInitially DEF SMInit, Init, MachineInit, RegistrationInv
<1>2. Inv /\ [SMAutoNext]_vars => Inv'
  BY SMStep, SMRegistrationStep
<1>3. Inv => NoLostTicker
  BY DEF RegistrationInv, NoLostTicker, Quiescent, HasPending
<1> QED
  BY <1>1, <1>2, <1>3, PTL DEF SMAutoSpec

=============================================================================
