--------------------------- MODULE MetronomeClock ---------------------------
(***************************************************************************)
(* The time arithmetic of Metronome.process: how long the metronome's      *)
(* thread sleeps, and which `now' and `elapsed' its tickers are given.     *)
(* Clients add and remove tickers at any time.  Time is in units of a few  *)
(* milliseconds; the wall clock moves when the thread sleeps, oversleeps   *)
(* or runs a ticker, and it may be set back.                               *)
(***************************************************************************)
EXTENDS Integers, FiniteSets

CONSTANTS
    Tickers,        \* the tickers that clients register
    Interval,       \* Runner.interval
    MinInterval,    \* MIN_INTERVAL
    MaxDelay,       \* how late a sleep ends, and how long a ticker runs
    MaxSetBack,     \* bound: how far the wall clock is set back in all
    MaxTime         \* bound: the run ends when the clock is there

ASSUME ClockAssumption ==
    /\ Interval \in Nat \ {0} /\ MinInterval \in Nat
    /\ MaxDelay \in Nat /\ MaxSetBack \in Nat /\ MaxTime \in Nat

VARIABLES
    clock,          \* the wall clock
    lastTime,       \* Metronome.lastTime
    allTickers,     \* the registered tickers
    pending,        \* the rest of the snapshot that process works on
    now, elapsed,   \* locals of process: what the tickers are given
    ticking,        \* the thread is between its sleep and the end of process
    slept,          \* history: how long the last sleep was
    back            \* history: how far the clock has been set back in all

vars == <<clock, lastTime, allTickers, pending, now, elapsed, ticking, slept, back>>

Larger(a, b) == IF a < b THEN b ELSE a

-----------------------------------------------------------------------------

AddTicker(k) ==
    /\ k \notin allTickers
    /\ allTickers' = allTickers \cup {k}
    /\ UNCHANGED <<clock, lastTime, pending, now, elapsed, ticking, slept, back>>

RemoveTicker(k) ==
    /\ k \in allTickers
    /\ allTickers' = allTickers \ {k}
    /\ UNCHANGED <<clock, lastTime, pending, now, elapsed, ticking, slept, back>>

\* no tickers: process returns false and the thread rests for an interval
Rest ==
    /\ ~ticking
    /\ allTickers = {}
    /\ clock + Interval <= MaxTime
    /\ clock' = clock + Interval
    /\ slept' = Interval
    /\ UNCHANGED <<lastTime, allTickers, pending, now, elapsed, ticking, back>>

\* mutant: no least sleep
Waiting_Unbounded == Interval - (clock - lastTime)

\* the sleep before a round of ticks
Waiting == Larger(Interval - (clock - lastTime), MinInterval)

\* mutants: the sleep is not part of elapsed; the clock is read again before
\* the sleep is added
Wait_Unadded ==
    /\ ~ticking
    /\ allTickers # {}
    /\ \E late \in 0 .. MaxDelay :
         /\ clock + Waiting + late <= MaxTime
         /\ clock' = clock + Waiting + late
    /\ pending' = allTickers
    /\ now' = clock + Waiting
    /\ elapsed' = clock - lastTime
    /\ ticking' = TRUE
    /\ slept' = Waiting
    /\ UNCHANGED <<lastTime, allTickers, back>>

Wait_AddedTwice ==
    /\ ~ticking
    /\ allTickers # {}
    /\ \E late \in 0 .. MaxDelay :
         /\ clock + Waiting + late <= MaxTime
         /\ clock' = clock + Waiting + late
         /\ now' = clock' + Waiting
    /\ pending' = allTickers
    /\ elapsed' = (clock - lastTime) + Waiting
    /\ ticking' = TRUE
    /\ slept' = Waiting
    /\ UNCHANGED <<lastTime, allTickers, back>>

\* 1. check time: the thread sleeps, and takes the planned end of its sleep,
\* not the time it really wakes up, for the present
Wait ==
    /\ ~ticking
    /\ allTickers # {}
    /\ \E late \in 0 .. MaxDelay :
         /\ clock + Waiting + late <= MaxTime
         /\ clock' = clock + Waiting + late
    /\ pending' = allTickers
    /\ now' = clock + Waiting
    /\ elapsed' = (clock - lastTime) + Waiting
    /\ ticking' = TRUE
    /\ slept' = Waiting
    /\ UNCHANGED <<lastTime, allTickers, back>>

\* 2. drive tickers
Tick(k) ==
    /\ ticking
    /\ k \in pending
    /\ \E duration \in 0 .. MaxDelay :
         /\ clock + duration <= MaxTime
         /\ clock' = clock + duration
    /\ pending' = pending \ {k}
    /\ UNCHANGED <<lastTime, allTickers, now, elapsed, ticking, slept, back>>

\* mutants: the time is read again; the next round is taken for this one
Update_WallClock ==
    /\ ticking
    /\ pending = {}
    /\ lastTime' = clock
    /\ ticking' = FALSE
    /\ UNCHANGED <<clock, allTickers, pending, now, elapsed, slept, back>>

Update_NextRound ==
    /\ ticking
    /\ pending = {}
    /\ lastTime' = now + Interval
    /\ ticking' = FALSE
    /\ UNCHANGED <<clock, allTickers, pending, now, elapsed, slept, back>>

\* 3. update last time
Update ==
    /\ ticking
    /\ pending = {}
    /\ lastTime' = now
    /\ ticking' = FALSE
    /\ UNCHANGED <<clock, allTickers, pending, now, elapsed, slept, back>>

\* the user, or a time server, sets the clock back
SetBack ==
    /\ \E d \in 1 .. MaxSetBack - back :
         /\ clock' = clock - d
         /\ back' = back + d
    /\ UNCHANGED <<lastTime, allTickers, pending, now, elapsed, ticking, slept>>

-----------------------------------------------------------------------------

\* setup has just run
Init ==
    /\ clock = 0
    /\ lastTime = 0
    /\ allTickers = {}
    /\ pending = {}
    /\ now = 0
    /\ elapsed = 0
    /\ ticking = FALSE
    /\ slept = 0
    /\ back = 0

Next ==
    \/ \E k \in Tickers : AddTicker(k) \/ RemoveTicker(k) \/ Tick(k)
    \/ Rest \/ Wait \/ Update \/ SetBack

Spec == Init /\ [][Next]_vars

-----------------------------------------------------------------------------
(* Properties.                                                             *)

\* No sleep is negative, which Thread.sleep refuses, and outside a round no
\* ticker waits for its tick.
TypeOK ==
    /\ clock \in Int /\ lastTime \in Int /\ now \in Int /\ elapsed \in Int
    /\ slept \in Nat /\ back \in Nat
    /\ ~ticking => pending = {}
    /\ allTickers \subseteq Tickers /\ pending \subseteq Tickers
    /\ ticking \in BOOLEAN

\* A round of ticks never comes early: at least an interval after the one
\* before, by the times the tickers are given, even when the clock is set back.
NeverEarly == ticking => elapsed >= Interval /\ elapsed = now - lastTime

\* Nobody is given a time that is still to come, but for what the clock has been
\* set back.
NotInTheFuture == lastTime <= clock + back /\ (ticking => now <= clock + back)

\* The metronome never sleeps longer than an interval, so that a machine that is
\* registered is ticked within two; only a clock that is set back adds to that,
\* and no more than it is set back.
SleepsAtMostInterval == slept <= Larger(Interval, MinInterval) + back

\* Delays do not add up: when a round begins in time it is given the time of the
\* round before plus an interval, however late the thread woke up for that one.
KeepsTheBeat ==
    [][(~ticking /\ ticking' /\ clock - now <= Interval - MinInterval)
        => now' = now + Interval]_vars

=============================================================================
