--------------------------- MODULE SMAutoMachine ---------------------------
(***************************************************************************)
(* The Objective-C machine, fsm-objc/SMMachine.m and SMAutoMachine.m: each *)
(* method of the C machine runs in a @synchronized block, whose lock a     *)
(* thread that has it may take again; registration at the metronome is     *)
(* outside of the block, as in the Java machine.  The lock is no variable: *)
(* a thread has it while one of its frames is inside the C method.         *)
(***************************************************************************)
EXTENDS SMMachine, AutoMachine

Synchronized(t) ==
    \E i \in DOMAIN stack[t] : stack[t][i].pc \notin {"check", "return"}

\* mutant: tick is not synchronized
Acquires_Untimed(t) ==
    At(t, "check") => \A u \in Threads \ {t, Metro} : ~Synchronized(u)

\* the block is entered when no other thread is in one
Acquires(t) == At(t, "check") => \A u \in Threads \ {t} : ~Synchronized(u)

\* a C method, in its block
SMAutoInside(t) ==
    /\ Acquires(t)
    /\ SMInside(t)
    /\ UNCHANGED <<registered, due, reads>>

\* stop and pause remove the ticker first, start and resume add it last
SMAutoCall(t, op) == AutoCall(t, op)
SMAutoReturn(t) == AutoReturn(t)

\* the metronome's thread
GetTickers == Snapshot
TickAll == Drive

\* sm_add_state: the list is set at the index of the state
SMAddState(o) == AutoAddState(o)

SMAutoNext ==
    \/ \E o \in StateObjects : SMAddState(o)
    \/ \E t \in Threads :
         \/ \E op \in Operations : SMAutoCall(t, op)
         \/ SMAutoInside(t)
         \/ SMAutoReturn(t)
    \/ GetTickers
    \/ TickAll

\* sm_create_machine: no states, SMNotFound, sm_stopped
SMInit == Init

SMAutoSpec == SMInit /\ [][SMAutoNext]_vars

=============================================================================
