----------------------------- MODULE Metronome -----------------------------
(***************************************************************************)
(* The life of the metronome's thread, .../threading/Metronome.java with   *)
(* its superclass skywalker/Runner.java and its Daemon: clients call start *)
(* and stop, each start makes a new thread that runs the same Runner, and  *)
(* all of them share the flag `running' and the field `thread' without a   *)
(* lock.  One step is one access of a shared field.                        *)
(***************************************************************************)
EXTENDS Naturals, FiniteSets

CONSTANTS
    Clients,        \* threads that call start and stop
    Workers,        \* bound: the threads that start makes
    None,           \* no thread
    Settled         \* clients wait for the last thread made to have set up

ASSUME NoneAssumption == None \notin Workers
ASSUME DisciplineAssumption == Settled \in BOOLEAN

VARIABLES
    running,        \* Runner.running
    thread,         \* Daemon.thread
    worker,         \* worker[w]: where the thread w is in Runner.run
    client,         \* client[c]: where c is in start or stop, and its locals
    asked,          \* history: the method that returned last
    gaveUp          \* history: a join has timed out

vars == <<running, thread, worker, client, asked, gaveUp>>

Stages == {"new", "setup", "test", "process", "finish", "dead"}
Steps == {"idle", "check", "unset", "take", "clear", "join", "rest", "spawn", "store"}

\* next: where to go when forceStop returns
Call == [pc: Steps, next: {"idle", "rest", "spawn"}, thr: Workers \cup {None}]
NoCall == [pc |-> "idle", next |-> "idle", thr |-> None]

Alive(w) == worker[w] \in {"setup", "test", "process", "finish"}

-----------------------------------------------------------------------------
(* Runner.run, on the thread w.                                            *)

\* mutant: the flag is not set
Setup_Unflagged(w) ==
    /\ worker[w] = "setup"
    /\ worker' = [worker EXCEPT ![w] = "test"]
    /\ UNCHANGED <<running, thread, client, asked, gaveUp>>

Setup(w) ==
    /\ worker[w] = "setup"
    /\ running' = TRUE
    /\ worker' = [worker EXCEPT ![w] = "test"]
    /\ UNCHANGED <<thread, client, asked, gaveUp>>

\* handle: the loop condition
Test(w) ==
    /\ worker[w] = "test"
    /\ worker' = [worker EXCEPT ![w] = IF running THEN "process" ELSE "finish"]
    /\ UNCHANGED <<running, thread, client, asked, gaveUp>>

\* mutant: the flag is not read again
Process_Untested(w) ==
    /\ worker[w] = "process"
    /\ UNCHANGED vars

\* process, or the rest after it
Process(w) ==
    /\ worker[w] = "process"
    /\ worker' = [worker EXCEPT ![w] = "test"]
    /\ UNCHANGED <<running, thread, client, asked, gaveUp>>

Finish(w) ==
    /\ worker[w] = "finish"
    /\ running' = FALSE
    /\ worker' = [worker EXCEPT ![w] = "dead"]
    /\ UNCHANGED <<thread, client, asked, gaveUp>>

WorkerStep(w) == Setup(w) \/ Test(w) \/ Process(w) \/ Finish(w)

-----------------------------------------------------------------------------
(* Metronome.start and Metronome.stop, called by c.                        *)

Goto(c, pc) == client' = [client EXCEPT ![c].pc = pc]

MayCall(c) ==
    /\ client[c].pc = "idle"
    /\ Settled => \A w \in Workers : worker[w] # "setup"

CallStart(c) ==
    /\ MayCall(c)
    /\ \E w \in Workers : worker[w] = "new"
    /\ client' = [client EXCEPT ![c] = [NoCall EXCEPT !.pc = "check"]]
    /\ UNCHANGED <<running, thread, worker, asked, gaveUp>>

CallStop(c) ==
    /\ MayCall(c)
    /\ client' = [client EXCEPT ![c] = [NoCall EXCEPT !.pc = "unset"]]
    /\ UNCHANGED <<running, thread, worker, asked, gaveUp>>

\* start: a runner that is running is stopped, and rests, first
CheckRunning(c) ==
    /\ client[c].pc = "check"
    /\ client' = [client EXCEPT ![c].pc   = IF running THEN "unset" ELSE "take",
                                ![c].next = IF running THEN "rest" ELSE "spawn"]
    /\ UNCHANGED <<running, thread, worker, asked, gaveUp>>

\* mutant: the flag is not cleared
Unset_Forgotten(c) ==
    /\ client[c].pc = "unset"
    /\ Goto(c, "take")
    /\ UNCHANGED <<running, thread, worker, asked, gaveUp>>

\* Runner.stop
Unset(c) ==
    /\ client[c].pc = "unset"
    /\ running' = FALSE
    /\ Goto(c, "take")
    /\ UNCHANGED <<thread, worker, asked, gaveUp>>

\* Daemon.forceStop: read the field, clear it, join the thread it held
ForceStopped(c) ==
    /\ Goto(c, client[c].next)
    /\ asked' = IF client[c].next = "idle" THEN "stop" ELSE asked

\* mutant: no test for a missing thread
Take_Unchecked(c) ==
    /\ client[c].pc = "take"
    /\ client' = [client EXCEPT ![c].pc = "clear", ![c].thr = thread]
    /\ UNCHANGED <<running, thread, worker, asked, gaveUp>>

Take(c) ==
    /\ client[c].pc = "take"
    /\ IF thread = None
       THEN ForceStopped(c)
       ELSE /\ client' = [client EXCEPT ![c].pc = "clear", ![c].thr = thread]
            /\ UNCHANGED asked
    /\ UNCHANGED <<running, thread, worker, gaveUp>>

Clear(c) ==
    /\ client[c].pc = "clear"
    /\ thread' = None
    /\ Goto(c, "join")
    /\ UNCHANGED <<running, worker, asked, gaveUp>>

\* mutant: the thread is not waited for
Join_Unwaited(c) ==
    /\ client[c].pc = "join"
    /\ ForceStopped(c)
    /\ UNCHANGED <<running, thread, worker, gaveUp>>

Join(c) ==
    /\ client[c].pc = "join"
    /\ worker[client[c].thr] = "dead"
    /\ ForceStopped(c)
    /\ UNCHANGED <<running, thread, worker, gaveUp>>

\* the join times out: the thread is still in a long round
GiveUp(c) ==
    /\ client[c].pc = "join"
    /\ worker[client[c].thr] # "dead"
    /\ ForceStopped(c)
    /\ gaveUp' = TRUE
    /\ UNCHANGED <<running, thread, worker>>

\* start: the rest, then Daemon.start with its own forceStop
Rest(c) ==
    /\ client[c].pc = "rest"
    /\ client' = [client EXCEPT ![c].pc = "take", ![c].next = "spawn"]
    /\ UNCHANGED <<running, thread, worker, asked, gaveUp>>

\* Daemon.start: the new thread runs before the field holds it
Spawn(c) ==
    /\ client[c].pc = "spawn"
    /\ \E w \in Workers :
         /\ worker[w] = "new"
         /\ worker' = [worker EXCEPT ![w] = "setup"]
         /\ client' = [client EXCEPT ![c].pc = "store", ![c].thr = w]
    /\ UNCHANGED <<running, thread, asked, gaveUp>>

\* mutant: the new thread is not kept
Store_Forgotten(c) ==
    /\ client[c].pc = "store"
    /\ Goto(c, "idle")
    /\ asked' = "start"
    /\ UNCHANGED <<running, thread, worker, gaveUp>>

Store(c) ==
    /\ client[c].pc = "store"
    /\ thread' = client[c].thr
    /\ Goto(c, "idle")
    /\ asked' = "start"
    /\ UNCHANGED <<running, worker, gaveUp>>

\* Every step of a call that has begun, but for a timeout.
ClientStep(c) ==
    \/ CheckRunning(c) \/ Unset(c) \/ Take(c) \/ Clear(c) \/ Join(c)
    \/ Rest(c) \/ Spawn(c) \/ Store(c)

-----------------------------------------------------------------------------

Init ==
    /\ running = FALSE
    /\ thread = None
    /\ worker = [w \in Workers |-> "new"]
    /\ client = [c \in Clients |-> NoCall]
    /\ asked = "stop"
    /\ gaveUp = FALSE

Next ==
    \/ \E w \in Workers : WorkerStep(w)
    \/ \E c \in Clients : CallStart(c) \/ CallStop(c) \/ ClientStep(c) \/ GiveUp(c)

Spec == Init /\ [][Next]_vars

\* Every thread is scheduled, and a process() returns; a join need not time out.
Fairness ==
    /\ \A w \in Workers : WF_vars(WorkerStep(w))
    /\ \A c \in Clients : WF_vars(ClientStep(c))

FairSpec == Spec /\ Fairness

-----------------------------------------------------------------------------
(* Properties.                                                             *)

\* The fields have their types, and a call that is to join or to store a thread
\* has one.
TypeOK ==
    /\ running \in BOOLEAN
    /\ thread \in Workers \cup {None}
    /\ worker \in [Workers -> Stages]
    /\ client \in [Clients -> Call]
    /\ \A c \in Clients : client[c].pc \in {"clear", "join", "store"} => client[c].thr # None
    /\ asked \in {"start", "stop"}
    /\ gaveUp \in BOOLEAN

Idle == \A c \in Clients : client[c].pc = "idle"

\* Two threads never drive the tickers at the same time, across any sequence of
\* starts and stops, unless a join has timed out: no machine is ticked by two.
AtMostOneDriver == ~gaveUp => \A v, w \in Workers : Alive(v) /\ Alive(w) => v = w

\* Between calls the thread that lives is the one the daemon can stop.
NoOrphan == ~gaveUp /\ Idle => \A w \in Workers : Alive(w) => w = thread

\* A call of start or stop that has begun returns, even if no join ever times
\* out: the thread it waits for dies by itself.
CallsReturn == \A c \in Clients : client[c].pc # "idle" ~> client[c].pc = "idle"

\* When the last call was a stop, every thread dies, even those that a join has
\* given up waiting for.
StopIsHeeded ==
    <>[](Idle /\ asked = "stop") => <>[](\A w \in Workers : ~Alive(w))

\* When the last call was a start and no join has timed out, the tickers are
\* processed again and again.
StartIsHeeded ==
    <>[](Idle /\ asked = "start" /\ ~gaveUp)
        => []<>(\E w \in Workers : worker[w] = "process")

=============================================================================
