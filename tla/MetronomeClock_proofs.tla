----------------------- MODULE MetronomeClock_proofs -----------------------
(* The bounds on the metronome's sleeps and ticks, for every interval and delay. *)
EXTENDS MetronomeClock, TLAPS

LEMMA WaitingBounds ==
    ASSUME clock \in Int, lastTime \in Int
    PROVE  /\ Waiting \in Nat
           /\ Waiting >= Interval - (clock - lastTime)
           /\ \A b \in Nat : lastTime <= clock + b =>
                Waiting <= Larger(Interval, MinInterval) + b
BY ClockAssumption DEF Waiting, Larger

RoundInv == TypeOK /\ NeverEarly

LEMMA InitRound == Init => RoundInv
<1> SUFFICES ASSUME Init PROVE RoundInv
  OBVIOUS
<1>1. clock \in Int /\ lastTime \in Int /\ now \in Int /\ elapsed \in Int /\ slept \in Nat /\ back \in Nat
  BY DEF Init
<1>2. allTickers \subseteq Tickers /\ pending \subseteq Tickers
  BY DEF Init
<1>3. ticking = FALSE /\ pending = {}
  BY DEF Init
<1> QED
  BY <1>1, <1>2, <1>3 DEF RoundInv, TypeOK, NeverEarly

LEMMA RoundStep ==
    ASSUME RoundInv, [Next]_vars
    PROVE  RoundInv'
<1> USE DEF RoundInv, TypeOK, NeverEarly
<1>1. ASSUME NEW k \in Tickers, AddTicker(k) \/ RemoveTicker(k) \/ Tick(k)
      PROVE  RoundInv'
  BY <1>1, ClockAssumption DEF AddTicker, RemoveTicker, Tick
<1>2. CASE Wait
  <2>1. PICK late \in 0 .. MaxDelay : clock' = clock + Waiting + late
    BY <1>2 DEF Wait
  <2>2. clock' \in Int /\ now' \in Int /\ elapsed' \in Int /\ slept' \in Nat
    BY <1>2, <2>1, WaitingBounds, ClockAssumption DEF Wait
  <2>3. elapsed' >= Interval /\ elapsed' = now' - lastTime'
    BY <1>2, WaitingBounds, ClockAssumption DEF Wait
  <2> QED
    BY <1>2, <2>2, <2>3 DEF Wait
<1>3. CASE Rest
  BY <1>3, ClockAssumption DEF Rest
<1>4. CASE Update
  BY <1>4 DEF Update
<1>5. CASE SetBack
  <2>1. clock' \in Int /\ back' \in Nat
    BY <1>5, ClockAssumption DEF SetBack
  <2> QED
    BY <1>5, <2>1 DEF SetBack
<1>6. CASE UNCHANGED vars
  BY <1>6 DEF vars
<1> QED
  BY <1>1, <1>2, <1>3, <1>4, <1>5, <1>6 DEF Next

\* Whatever the interval, the delays and the corrections of the clock, a round of
\* ticks is given at least an interval, and exactly the time since the last one.
THEOREM RoundsNeverEarly == Spec => []NeverEarly
<1>1. Init => RoundInv
  BY InitRound
<1>2. RoundInv /\ [Next]_vars => RoundInv'
  BY RoundStep
<1>3. RoundInv => NeverEarly
  BY DEF RoundInv
<1> QED
  BY <1>1, <1>2, <1>3, PTL DEF Spec

ForwardInv == RoundInv /\ NotInTheFuture /\ SleepsAtMostInterval

LEMMA ForwardStep ==
    ASSUME ForwardInv, [Next]_vars
    PROVE  ForwardInv'
<1> USE DEF ForwardInv, NotInTheFuture, SleepsAtMostInterval
<1>1. RoundInv'
  BY RoundStep
<1> SUFFICES NotInTheFuture' /\ SleepsAtMostInterval'
  BY <1>1
<1>2. ASSUME NEW k \in Tickers, AddTicker(k) \/ RemoveTicker(k) \/ Tick(k)
      PROVE  NotInTheFuture' /\ SleepsAtMostInterval'
  BY <1>2, ClockAssumption DEF AddTicker, RemoveTicker, Tick, RoundInv, TypeOK
<1>3. CASE Wait
  <2>1. PICK late \in 0 .. MaxDelay : clock' = clock + Waiting + late
    BY <1>3 DEF Wait
  <2>2. slept' = Waiting /\ now' = clock + Waiting /\ lastTime' = lastTime /\ Waiting \in Nat
        /\ back' = back
    BY <1>3, WaitingBounds DEF Wait, RoundInv, TypeOK
  <2>3. SleepsAtMostInterval'
    BY <2>2, WaitingBounds DEF RoundInv, TypeOK
  <2>4. clock \in Int /\ lastTime \in Int /\ late \in Nat /\ back \in Nat /\ lastTime <= clock + back
    BY ClockAssumption DEF RoundInv, TypeOK
  <2>5. lastTime' <= clock' + back' /\ now' <= clock' + back'
    BY <2>1, <2>2, <2>4
  <2> QED
    BY <2>3, <2>5
<1>4. CASE Rest
  <2>1. slept' <= Larger(Interval, MinInterval) + back'
    BY <1>4, ClockAssumption DEF Rest, RoundInv, TypeOK, Larger
  <2>2. lastTime' <= clock' + back' /\ ~ticking'
    BY <1>4, ClockAssumption DEF Rest, RoundInv, TypeOK
  <2> QED
    BY <2>1, <2>2
<1>5. CASE Update
  BY <1>5 DEF Update, RoundInv, TypeOK
<1>6. CASE SetBack
  <2>1. PICK d \in 1 .. MaxSetBack - back : clock' = clock - d /\ back' = back + d
    BY <1>6 DEF SetBack
  <2>2. d \in Nat /\ back \in Nat /\ clock \in Int /\ Larger(Interval, MinInterval) \in Nat
    BY ClockAssumption DEF RoundInv, TypeOK, Larger
  <2> QED
    BY <1>6, <2>1, <2>2 DEF SetBack, RoundInv, TypeOK
<1>7. CASE UNCHANGED vars
  <2>1. UNCHANGED <<clock, lastTime, now, ticking, slept, back>>
    BY <1>7 DEF vars
  <2> QED
    BY <2>1
<1> QED
  BY <1>1, <1>2, <1>3, <1>4, <1>5, <1>6, <1>7 DEF Next

LEMMA InitForward == Init => ForwardInv
<1> SUFFICES ASSUME Init PROVE ForwardInv
  OBVIOUS
<1>1. NotInTheFuture
  BY DEF Init, NotInTheFuture
<1>2. SleepsAtMostInterval
  BY ClockAssumption DEF Init, SleepsAtMostInterval, Larger
<1> QED
  BY <1>1, <1>2, InitRound DEF ForwardInv

\* No sleep is longer than an interval and what the clock has been set back.
THEOREM SleepsBounded == Spec => []SleepsAtMostInterval
<1>1. Init => ForwardInv
  BY InitForward
<1>2. ForwardInv /\ [Next]_vars => ForwardInv'
  BY ForwardStep
<1>3. ForwardInv => SleepsAtMostInterval
  BY DEF ForwardInv
<1> QED
  BY <1>1, <1>2, <1>3, PTL DEF Spec

\* No sleep is negative, for any interval, delay or correction of the clock.
THEOREM SleepsNotNegative == Spec => []TypeOK
<1>1. Init => RoundInv
  BY InitRound
<1>2. RoundInv /\ [Next]_vars => RoundInv'
  BY RoundStep
<1>3. RoundInv => TypeOK
  BY DEF RoundInv
<1> QED
  BY <1>1, <1>2, <1>3, PTL DEF Spec

\* The times that tickers are given are in the past by the clock as it was before it
\* was set back, although the thread adds its planned sleep and never looks again.
THEOREM TimesAreNotInTheFuture == Spec => []NotInTheFuture
<1>1. Init => ForwardInv
  BY InitForward
<1>2. ForwardInv /\ [Next]_vars => ForwardInv'
  BY ForwardStep
<1>3. ForwardInv => NotInTheFuture
  BY DEF ForwardInv
<1> QED
  BY <1>1, <1>2, <1>3, PTL DEF Spec

-----------------------------------------------------------------------------

\* Between two rounds the time of the last one is that which its tickers were given.
BeatInv == RoundInv /\ (~ticking => now = lastTime)

LEMMA BeatStep ==
    ASSUME BeatInv, [Next]_vars
    PROVE  BeatInv'
<1>1. RoundInv'
  BY RoundStep DEF BeatInv
<1>2. ~ticking' => now' = lastTime'
  BY DEF BeatInv, Next, vars, AddTicker, RemoveTicker, Tick, Rest, Wait, Update, SetBack
<1> QED
  BY <1>1, <1>2 DEF BeatInv

LEMMA OnTheBeat ==
    ASSUME BeatInv, [Next]_vars, ~ticking, ticking', clock - now <= Interval - MinInterval
    PROVE  now' = now + Interval
<1>1. Wait /\ now = lastTime
  BY DEF BeatInv, Next, vars, AddTicker, RemoveTicker, Tick, Rest, Update, SetBack
<1>2. clock \in Int /\ lastTime \in Int /\ Interval \in Nat /\ MinInterval \in Nat
  BY ClockAssumption DEF BeatInv, RoundInv, TypeOK
<1>3. now' = clock + Waiting
  BY <1>1 DEF Wait
<1>4. Waiting = Interval - (clock - lastTime)
  BY <1>1, <1>2 DEF Waiting, Larger
<1> QED
  BY <1>1, <1>2, <1>3, <1>4

\* Delays do not add up, however late the thread wakes and however long its tickers
\* take: a round that can begin in time is exactly an interval after the one before.
THEOREM BeatIsKept == Spec => KeepsTheBeat
<1>1. Init => BeatInv
  <2>1. Init => RoundInv
    BY InitRound
  <2>2. Init => now = lastTime
    BY DEF Init
  <2> QED
    BY <2>1, <2>2 DEF BeatInv
<1>2. BeatInv /\ [Next]_vars => BeatInv'
  BY BeatStep
<1>3. BeatInv /\ [Next]_vars =>
        [(~ticking /\ ticking' /\ clock - now <= Interval - MinInterval) => now' = now + Interval]_vars
  BY OnTheBeat
<1> QED
  BY <1>1, <1>2, <1>3, PTL DEF Spec, KeepsTheBeat

=============================================================================
