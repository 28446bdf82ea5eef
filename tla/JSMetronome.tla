---------------------------- MODULE JSMetronome ----------------------------
(***************************************************************************)
(* The metronome of the JavaScript port.  There are no threads: a Thread   *)
(* is a chain of timers, each of which runs the metronome once and, if the *)
(* thread has not been stopped, sets the next one.  All code runs in the   *)
(* event loop, one call at a time, and a call that does not return keeps   *)
(* everything else waiting.  Metronome.stop stops the thread only, so the  *)
(* flag of the runner, once set, and its stage never change again.         *)
(***************************************************************************)
EXTENDS Integers, Sequences, FiniteSets

CONSTANTS
    Tickers,        \* the tickers that clients register
    Interval,       \* Metronome.__interval
    Delay,          \* Thread.INTERVAL
    MaxTick,        \* how long a ticker runs
    MaxTimers,      \* bound: the metronome is started when fewer are set,
    MaxNested       \* bound: and by a ticker when its round is within fewer rounds

ASSUME JSMetronomeAssumption ==
    /\ IsFiniteSet(Tickers)
    /\ Interval \in Nat \ {0} /\ Delay \in Nat /\ MaxTick \in Nat
    /\ MaxTimers \in Nat /\ MaxNested \in Nat

VARIABLES
    running,        \* Thread.__running
    stage,          \* Runner.__stage
    allTickers,     \* Metronome.__tickers
    timers,         \* the timers that are set: how long until they are due
    age,            \* now - __last_time; longer than an interval is an interval
    loop,           \* what the event loop is at: nothing, run, handle, or a round
    rounds          \* the rounds that go on, the innermost first: the rest of the array of
                    \* tickers of each, and how long ago it began

vars == <<running, stage, allTickers, timers, age, loop, rounds>>

Least(a, b) == IF a < b THEN a ELSE b

Free == loop = "free"

\* what waits for a run to return: the event loop, or the ticker that called start
Caller == IF rounds = <<>> THEN "free" ELSE "round"

-----------------------------------------------------------------------------
(* Time.                                                                   *)

\* timers of one delay are due in the order in which they were set
Elapse(d) ==
    /\ age' = Least(age + d, Interval)
    /\ timers' = [n \in DOMAIN timers |-> IF timers[n] > d THEN timers[n] - d ELSE 0]

TimePasses ==
    /\ Free
    /\ Elapse(1)
    /\ UNCHANGED <<running, stage, allTickers, loop, rounds>>

Fire ==
    /\ Free
    /\ timers # <<>> /\ Head(timers) = 0
    /\ timers' = Tail(timers)
    /\ loop' = "run"
    /\ UNCHANGED <<running, stage, allTickers, age, rounds>>

-----------------------------------------------------------------------------
(* Clients.  Tickers may do the same, in the middle of a round.            *)

AddTicker(k) ==
    /\ loop \in {"free", "round"}
    /\ allTickers' = allTickers \cup {k}
    /\ UNCHANGED <<running, stage, timers, age, loop, rounds>>

RemoveTicker(k) ==
    /\ loop \in {"free", "round"}
    /\ allTickers' = allTickers \ {k}
    /\ UNCHANGED <<running, stage, timers, age, loop, rounds>>

MayStart ==
    /\ loop \in {"free", "round"}
    /\ Len(timers) < MaxTimers /\ Len(rounds) <= MaxNested

\* mutant: every start begins with the setup
Start_Anew ==
    /\ MayStart
    /\ running' = TRUE
    /\ stage' = "INIT"
    /\ loop' = "run"
    /\ UNCHANGED <<allTickers, timers, age, rounds>>

\* whatever runs already; a ticker that calls it is in the middle of a round
Start ==
    /\ MayStart
    /\ running' = TRUE
    /\ loop' = "run"
    /\ UNCHANGED <<stage, allTickers, timers, age, rounds>>

Stop ==
    /\ loop \in {"free", "round"}
    /\ running' = FALSE
    /\ UNCHANGED <<stage, allTickers, timers, age, loop, rounds>>

-----------------------------------------------------------------------------
(* The chain.                                                              *)

\* mutant: a thread that was stopped goes on
Run_Unchecked ==
    /\ loop = "run"
    /\ loop' = "handle"
    /\ stage' = "HANDLING"
    /\ age' = IF stage = "INIT" THEN 0 ELSE age
    /\ UNCHANGED <<running, allTickers, timers, rounds>>

\* a thread that was stopped ends here; the first call sets up
Run ==
    /\ loop = "run"
    /\ \/ /\ ~running
          /\ loop' = Caller
          /\ UNCHANGED <<stage, age>>
       \/ /\ running
          /\ loop' = "handle"
          /\ stage' = "HANDLING"
          /\ age' = IF stage = "INIT" THEN 0 ELSE age
    /\ UNCHANGED <<running, allTickers, timers, rounds>>

\* process has nothing to do: the next timer is set
Rest ==
    /\ loop = "handle"
    /\ allTickers = {} \/ age < Interval
    /\ timers' = Append(timers, Delay)
    /\ loop' = Caller
    /\ UNCHANGED <<running, stage, allTickers, age, rounds>>

BeginRound ==
    /\ loop = "handle"
    /\ allTickers # {} /\ age >= Interval
    /\ rounds' = <<[left |-> allTickers, spent |-> 0]>> \o rounds
    /\ loop' = "round"
    /\ UNCHANGED <<running, stage, allTickers, timers, age>>

\* what a ticker throws is caught
Tick(k) ==
    /\ loop = "round"
    /\ k \in Head(rounds).left
    /\ \E d \in 0 .. MaxTick :
         /\ Elapse(d)
         /\ rounds' = [n \in DOMAIN rounds |->
                          [left  |-> IF n = 1 THEN rounds[n].left \ {k} ELSE rounds[n].left,
                           spent |-> Least(rounds[n].spent + d, Interval)]]
    /\ UNCHANGED <<running, stage, allTickers, loop>>

\* mutant: the last time stays
EndRound_Forgotten ==
    /\ loop = "round"
    /\ Head(rounds).left = {}
    /\ rounds' = Tail(rounds)
    /\ loop' = "handle"
    /\ UNCHANGED <<running, stage, allTickers, timers, age>>

\* the last time is when the round began; handle calls process again at once
EndRound ==
    /\ loop = "round"
    /\ Head(rounds).left = {}
    /\ age' = Head(rounds).spent
    /\ rounds' = Tail(rounds)
    /\ loop' = "handle"
    /\ UNCHANGED <<running, stage, allTickers, timers>>

-----------------------------------------------------------------------------

Init ==
    /\ running = FALSE /\ stage = "INIT"
    /\ allTickers = {} /\ timers = <<>>
    /\ age = Interval
    /\ loop = "free" /\ rounds = <<>>

Call == Run \/ Rest \/ BeginRound \/ EndRound \/ \E k \in Tickers : Tick(k)

Next ==
    \/ TimePasses \/ Fire
    \/ \E k \in Tickers : AddTicker(k) \/ RemoveTicker(k)
    \/ Start \/ Stop
    \/ Call

Spec == Init /\ [][Next]_vars

\* code that runs goes on, and between calls time passes and the event loop
\* comes to the timers that are due, whatever clients do
FairSpec == Spec /\ WF_vars(Call) /\ SF_vars(TimePasses) /\ SF_vars(Fire)

-----------------------------------------------------------------------------
(* Properties.                                                             *)

\* The loop in Runner.handle, which nothing stops, returns to the event loop:
\* tickers that take less than an interval together, with those of the rounds that they
\* start within a round, do not keep it busy.
HandleReturns ==
    (MaxNested + 1) * Cardinality(Tickers) * MaxTick < Interval => (~Free ~> Free)

\* All the chains that starts have left end when the metronome is stopped, unless
\* it is started again before they are due.
ChainsEnd == ~running ~> (running \/ (Free /\ timers = <<>>))

\* Restarts, however often, and the chains that they leave or cut off, do not
\* keep a registered ticker from being told.
KeepsTicking ==
    []<>running /\ <>[](allTickers # {}) => []<>(loop = "round")

=============================================================================
