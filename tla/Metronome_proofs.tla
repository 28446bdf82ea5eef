-------------------------- MODULE Metronome_proofs --------------------------
(***************************************************************************)
(* One client: at most one thread drives the tickers until a join gives up. *)
(* Any number of clients: whoever joins a thread has one.                  *)
(***************************************************************************)
EXTENDS Metronome, TLAPS

\* Which thread may be alive, by where the client c is in its call.
DriverInv(c) ==
    /\ TypeOK
    /\ ~gaveUp => \A w \in Workers : Alive(w) =>
         CASE client[c].pc \in {"idle", "check", "unset", "take", "clear"} -> w = thread
           [] client[c].pc \in {"join", "store"} -> w = client[c].thr
           [] client[c].pc \in {"rest", "spawn"} -> FALSE
    /\ client[c].pc = "clear" => client[c].thr = thread

LEMMA InitDriver ==
    ASSUME NEW c, Clients = {c}, Init
    PROVE  DriverInv(c)
BY DEF Init, DriverInv, TypeOK, Stages, Call, NoCall, Steps, Alive

LEMMA WorkerKeepsDriver ==
    ASSUME NEW c, Clients = {c}, DriverInv(c), NEW w \in Workers, WorkerStep(w)
    PROVE  DriverInv(c)'
<1>1. /\ client' = client /\ thread' = thread /\ asked' = asked /\ gaveUp' = gaveUp
      /\ running' \in BOOLEAN
      /\ \E s \in Stages \ {"new"} : worker' = [worker EXCEPT ![w] = s]
      /\ Alive(w)
  BY DEF WorkerStep, Setup, Test, Process, Finish, Stages, Alive, DriverInv, TypeOK
<1>2. worker' \in [Workers -> Stages] /\ \A v \in Workers : Alive(v)' => Alive(v)
  BY <1>1 DEF DriverInv, TypeOK, Alive
<1> QED
  BY <1>1, <1>2 DEF DriverInv, TypeOK

LEMMA ClientKeepsDriver ==
    ASSUME NEW c, Clients = {c}, DriverInv(c),
           CallStart(c) \/ CallStop(c) \/ ClientStep(c) \/ GiveUp(c)
    PROVE  DriverInv(c)'
<1> USE DEF DriverInv, TypeOK
<1>1. /\ client[c] \in Call
      /\ client \in [Clients -> Call]
      /\ client[c].pc \in {"clear", "join", "store"} => client[c].thr # None
  OBVIOUS
\* what a step has to say of the new locals r of c
<1>2. ASSUME NEW r \in Call, client' = [client EXCEPT ![c] = r],
             worker' = worker, thread' \in Workers \cup {None}, running' \in BOOLEAN,
             asked' \in {"start", "stop"}, gaveUp' \in BOOLEAN,
             r.pc \in {"clear", "join", "store"} => r.thr # None,
             ~gaveUp' => \A w \in Workers : Alive(w) =>
               CASE r.pc \in {"idle", "check", "unset", "take", "clear"} -> w = thread'
                 [] r.pc \in {"join", "store"} -> w = r.thr
                 [] r.pc \in {"rest", "spawn"} -> FALSE,
             r.pc = "clear" => r.thr = thread'
      PROVE  DriverInv(c)'
  <2>1. client'[c] = r /\ client' \in [Clients -> Call]
    BY <1>1, <1>2
  <2>2. \A w \in Workers : Alive(w)' = Alive(w)
    BY <1>2 DEF Alive
  <2> QED
    BY <1>2, <2>1, <2>2
<1> USE DEF Call, NoCall, Steps, Goto
<1>3. CASE CallStart(c) \/ CallStop(c)
  <2> DEFINE r == [NoCall EXCEPT !.pc = IF CallStart(c) THEN "check" ELSE "unset"]
  <2>1. r \in Call /\ client[c].pc = "idle" /\ r.pc \in {"check", "unset"}
    BY <1>3, NoneAssumption DEF CallStart, CallStop, MayCall
  <2>2. client' = [client EXCEPT ![c] = r] /\ UNCHANGED <<running, thread, worker, asked, gaveUp>>
    BY <1>3 DEF CallStart, CallStop
  <2> QED
    BY <1>1, <1>2, <2>1, <2>2
<1>4. CASE CheckRunning(c)
  <2> DEFINE r == [client[c] EXCEPT !.pc   = IF running THEN "unset" ELSE "take",
                                    !.next = IF running THEN "rest" ELSE "spawn"]
  <2>1. r \in Call /\ r.pc \in {"unset", "take"} /\ client[c].pc = "check"
    BY <1>1, <1>4 DEF CheckRunning
  <2>2. client' = [client EXCEPT ![c] = r] /\ UNCHANGED <<running, thread, worker, asked, gaveUp>>
    BY <1>4 DEF CheckRunning
  <2> QED
    BY <1>1, <1>2, <2>1, <2>2
<1>5. CASE Unset(c)
  <2> DEFINE r == [client[c] EXCEPT !.pc = "take"]
  <2>1. r \in Call /\ r.pc = "take" /\ client[c].pc = "unset"
    BY <1>1, <1>5 DEF Unset
  <2>2. client' = [client EXCEPT ![c] = r] /\ running' = FALSE /\ UNCHANGED <<thread, worker, asked, gaveUp>>
    BY <1>5 DEF Unset
  <2> QED
    BY <1>1, <1>2, <2>1, <2>2
<1>6. CASE Take(c) /\ thread # None
  <2> DEFINE r == [client[c] EXCEPT !.pc = "clear", !.thr = thread]
  <2>1. r \in Call /\ r.pc = "clear" /\ r.thr = thread /\ client[c].pc = "take"
    BY <1>1, <1>6 DEF Take
  <2>2. client' = [client EXCEPT ![c] = r] /\ UNCHANGED <<running, thread, worker, asked, gaveUp>>
    BY <1>6 DEF Take
  <2> QED
    BY <1>1, <1>2, <1>6, <2>1, <2>2
\* forceStop returns: there was no thread, or the join has waited for it or given up
<1>7. ASSUME ForceStopped(c), UNCHANGED <<running, thread, worker>>, gaveUp' \in BOOLEAN,
             ~gaveUp' => \A w \in Workers : ~Alive(w)
      PROVE  DriverInv(c)'
  <2> DEFINE r == [client[c] EXCEPT !.pc = client[c].next]
  <2>1. r \in Call /\ r.pc \in {"idle", "rest", "spawn"}
    BY <1>1
  <2>2. client' = [client EXCEPT ![c] = r] /\ asked' \in {"start", "stop"}
    BY <1>7 DEF ForceStopped
  <2> QED
    BY <1>1, <1>2, <1>7, <2>1, <2>2
<1>8. CASE Take(c) /\ thread = None
  BY <1>1, <1>7, <1>8, NoneAssumption DEF Take
<1>9. CASE Clear(c)
  <2> DEFINE r == [client[c] EXCEPT !.pc = "join"]
  <2>1. r \in Call /\ r.pc = "join" /\ r.thr = thread /\ client[c].pc = "clear"
    BY <1>1, <1>9 DEF Clear
  <2>2. client' = [client EXCEPT ![c] = r] /\ thread' = None /\ UNCHANGED <<running, worker, asked, gaveUp>>
    BY <1>9 DEF Clear
  <2> QED
    BY <1>1, <1>2, <2>1, <2>2
<1>10. CASE Join(c)
  <2>1. worker[client[c].thr] = "dead" /\ client[c].pc = "join"
    BY <1>10 DEF Join
  <2>2. ~gaveUp => \A w \in Workers : ~Alive(w)
    BY <1>1, <2>1 DEF Alive
  <2> QED
    BY <1>7, <1>10, <2>2 DEF Join
<1>11. CASE Rest(c)
  <2> DEFINE r == [client[c] EXCEPT !.pc = "take", !.next = "spawn"]
  <2>1. r \in Call /\ r.pc = "take" /\ client[c].pc = "rest"
    BY <1>1, <1>11 DEF Rest
  <2>2. client' = [client EXCEPT ![c] = r] /\ UNCHANGED <<running, thread, worker, asked, gaveUp>>
    BY <1>11 DEF Rest
  <2> QED
    BY <1>1, <1>2, <2>1, <2>2
<1>12. CASE Spawn(c)
  <2>1. PICK w \in Workers :
          /\ worker' = [worker EXCEPT ![w] = "setup"]
          /\ client' = [client EXCEPT ![c].pc = "store", ![c].thr = w]
    BY <1>12 DEF Spawn
  <2> DEFINE r == [client[c] EXCEPT !.pc = "store", !.thr = w]
  <2>2. r \in Call /\ client' = [client EXCEPT ![c] = r] /\ client[c].pc = "spawn"
    BY <1>1, <1>12, <2>1 DEF Spawn
  <2>3. client' \in [Clients -> Call] /\ client'[c] = r /\ r.pc = "store" /\ r.thr = w
    BY <1>1, <2>2
  <2>4. ~gaveUp => \A v \in Workers : Alive(v)' => v = w
    BY <1>1, <2>1, <2>2 DEF Alive
  <2>5. worker' \in [Workers -> Stages] /\ UNCHANGED <<running, thread, asked, gaveUp>>
    BY <1>12, <2>1 DEF Spawn, Stages
  <2> QED
    <3>1. TypeOK'
      <4>1. Clients = {c} /\ client'[c].thr # None
        BY <2>3, NoneAssumption
      <4>2. running' \in BOOLEAN /\ thread' \in Workers \cup {None} /\ asked' \in {"start", "stop"}
        BY <2>5
      <4>3. gaveUp' = gaveUp
        BY <2>5
      <4> QED
        BY <2>3, <2>5, <4>1, <4>2, <4>3
    <3>2. client'[c].pc = "store" /\ client'[c].thr = w
      BY <2>3
    <3> QED
      BY <2>4, <2>5, <3>1, <3>2
<1>13. CASE Store(c)
  <2> DEFINE r == [client[c] EXCEPT !.pc = "idle"]
  <2>1. r \in Call /\ r.pc = "idle" /\ client[c].pc = "store"
    BY <1>1, <1>13 DEF Store
  <2>2. /\ client' = [client EXCEPT ![c] = r] /\ thread' = client[c].thr
        /\ asked' = "start" /\ UNCHANGED <<running, worker, gaveUp>>
    BY <1>13 DEF Store
  <2> QED
    BY <1>1, <1>2, <2>1, <2>2
<1>14. CASE GiveUp(c)
  BY <1>1, <1>7, <1>14 DEF GiveUp
<1> QED
  BY <1>3, <1>4, <1>5, <1>6, <1>8, <1>9, <1>10, <1>11, <1>12, <1>13, <1>14 DEF ClientStep

LEMMA NextKeepsDriver ==
    ASSUME NEW c, Clients = {c}, DriverInv(c), [Next]_vars
    PROVE  DriverInv(c)'
<1>1. CASE UNCHANGED vars
  BY <1>1 DEF vars, DriverInv, TypeOK, Alive
<1> QED
  BY <1>1, WorkerKeepsDriver, ClientKeepsDriver DEF Next

\* One client, any number of starts and stops, before the thread has set up or
\* after: until a join times out, two threads never drive the tickers.
THEOREM OneDriver ==
    ASSUME NEW c, Clients = {c}
    PROVE  Spec => []AtMostOneDriver
<1>1. Init => DriverInv(c)
  BY InitDriver
<1>2. DriverInv(c) /\ [Next]_vars => DriverInv(c)'
  BY NextKeepsDriver
<1>3. DriverInv(c) => AtMostOneDriver
  BY DEF DriverInv, TypeOK, Call, Steps, AtMostOneDriver
<1> QED
  BY <1>1, <1>2, <1>3, PTL DEF Spec

\* Under the same condition the daemon can always stop the thread that lives.
THEOREM DriverIsOwned ==
    ASSUME NEW c, Clients = {c}
    PROVE  Spec => []NoOrphan
<1>1. Init => DriverInv(c)
  BY InitDriver
<1>2. DriverInv(c) /\ [Next]_vars => DriverInv(c)'
  BY NextKeepsDriver
<1>3. DriverInv(c) => NoOrphan
  BY DEF DriverInv, TypeOK, Call, Steps, NoOrphan, Idle
<1> QED
  BY <1>1, <1>2, <1>3, PTL DEF Spec

-----------------------------------------------------------------------------
(* Any number of clients.                                                  *)

LEMMA WorkerTyped ==
    ASSUME TypeOK, NEW w \in Workers, WorkerStep(w)
    PROVE  TypeOK'
<1>1. /\ UNCHANGED <<client, thread, asked, gaveUp>> /\ running' \in BOOLEAN
      /\ \E s \in Stages : worker' = [worker EXCEPT ![w] = s]
  BY DEF WorkerStep, Setup, Test, Process, Finish, Stages, TypeOK
<1> QED
  BY <1>1 DEF TypeOK

LEMMA ClientTyped ==
    ASSUME TypeOK, NEW c \in Clients, CallStart(c) \/ CallStop(c) \/ ClientStep(c) \/ GiveUp(c)
    PROVE  TypeOK'
<1>1. /\ client \in [Clients -> Call] /\ client[c] \in Call
      /\ client[c].pc \in {"clear", "join", "store"} => client[c].thr # None
  BY DEF TypeOK
\* what a step has to say of the new locals r of c
<1>2. ASSUME NEW r \in Call, client' = [client EXCEPT ![c] = r],
             r.pc \in {"clear", "join", "store"} => r.thr # None,
             worker' \in [Workers -> Stages], thread' \in Workers \cup {None},
             running' \in BOOLEAN, asked' \in {"start", "stop"}, gaveUp' \in BOOLEAN
      PROVE  TypeOK'
  <2>1. client' \in [Clients -> Call] /\ client'[c] = r
    BY <1>1, <1>2
  <2>2. \A d \in Clients : client'[d].pc \in {"clear", "join", "store"} => client'[d].thr # None
    BY <1>1, <1>2, <2>1 DEF TypeOK
  <2> QED
    BY <1>2, <2>1, <2>2 DEF TypeOK
<1> USE DEF Call, NoCall, Steps, Goto
<1>3. CASE CallStart(c) \/ CallStop(c)
  <2> DEFINE r == [NoCall EXCEPT !.pc = IF CallStart(c) THEN "check" ELSE "unset"]
  <2>1. r \in Call /\ r.pc \in {"check", "unset"}
    BY NoneAssumption
  <2>2. client' = [client EXCEPT ![c] = r] /\ UNCHANGED <<running, thread, worker, asked, gaveUp>>
    BY <1>3 DEF CallStart, CallStop
  <2> QED
    BY <1>2, <2>1, <2>2 DEF TypeOK
<1>4. CASE CheckRunning(c) \/ Rest(c)
  <2> DEFINE r == [client[c] EXCEPT !.pc   = IF CheckRunning(c) /\ running THEN "unset" ELSE "take",
                                    !.next = IF CheckRunning(c) /\ running THEN "rest" ELSE "spawn"]
  <2>1. r \in Call /\ r.pc \in {"unset", "take"}
    BY <1>1
  <2>2. client' = [client EXCEPT ![c] = r] /\ UNCHANGED <<running, thread, worker, asked, gaveUp>>
    BY <1>4 DEF CheckRunning, Rest
  <2> QED
    BY <1>2, <2>1, <2>2 DEF TypeOK
<1>5. CASE Unset(c)
  <2> DEFINE r == [client[c] EXCEPT !.pc = "take"]
  <2>1. r \in Call /\ r.pc = "take"
    BY <1>1
  <2>2. client' = [client EXCEPT ![c] = r] /\ running' = FALSE /\ UNCHANGED <<thread, worker, asked, gaveUp>>
    BY <1>5 DEF Unset
  <2> QED
    BY <1>2, <2>1, <2>2 DEF TypeOK
<1>6. CASE Take(c) /\ thread # None
  <2> DEFINE r == [client[c] EXCEPT !.pc = "clear", !.thr = thread]
  <2>1. r \in Call /\ r.thr # None
    BY <1>1, <1>6 DEF TypeOK
  <2>2. client' = [client EXCEPT ![c] = r] /\ UNCHANGED <<running, thread, worker, asked, gaveUp>>
    BY <1>6 DEF Take
  <2> QED
    BY <1>2, <2>1, <2>2 DEF TypeOK
\* forceStop returns
<1>7. CASE ForceStopped(c) /\ UNCHANGED <<running, thread, worker>> /\ gaveUp' \in BOOLEAN
  <2> DEFINE r == [client[c] EXCEPT !.pc = client[c].next]
  <2>1. r \in Call /\ r.pc \in {"idle", "rest", "spawn"}
    BY <1>1
  <2>2. client' = [client EXCEPT ![c] = r] /\ asked' \in {"start", "stop"}
    BY <1>7 DEF ForceStopped, TypeOK
  <2> QED
    BY <1>2, <1>7, <2>1, <2>2 DEF TypeOK
<1>8. CASE (Take(c) /\ thread = None) \/ Join(c) \/ GiveUp(c)
  BY <1>7, <1>8 DEF Take, Join, GiveUp, TypeOK
<1>9. CASE Clear(c)
  <2> DEFINE r == [client[c] EXCEPT !.pc = "join"]
  <2>1. r \in Call /\ r.thr # None
    BY <1>1, <1>9 DEF Clear
  <2>2. client' = [client EXCEPT ![c] = r] /\ thread' = None /\ UNCHANGED <<running, worker, asked, gaveUp>>
    BY <1>9 DEF Clear
  <2> QED
    BY <1>2, <2>1, <2>2 DEF TypeOK
<1>10. CASE Spawn(c)
  <2>1. PICK w \in Workers :
          /\ worker' = [worker EXCEPT ![w] = "setup"]
          /\ client' = [client EXCEPT ![c].pc = "store", ![c].thr = w]
    BY <1>10 DEF Spawn
  <2> DEFINE r == [client[c] EXCEPT !.pc = "store", !.thr = w]
  <2>2. r \in Call /\ r.thr # None /\ client' = [client EXCEPT ![c] = r]
    BY <1>1, <2>1, NoneAssumption
  <2>3. worker' \in [Workers -> Stages] /\ UNCHANGED <<running, thread, asked, gaveUp>>
    BY <1>10, <2>1 DEF Spawn, Stages, TypeOK
  <2> QED
    BY <1>2, <2>2, <2>3 DEF TypeOK
<1>11. CASE Store(c)
  <2> DEFINE r == [client[c] EXCEPT !.pc = "idle"]
  <2>1. r \in Call /\ r.pc = "idle" /\ client[c].thr \in Workers \cup {None}
    BY <1>1
  <2>2. /\ client' = [client EXCEPT ![c] = r] /\ thread' = client[c].thr
        /\ asked' = "start" /\ UNCHANGED <<running, worker, gaveUp>>
    BY <1>11 DEF Store
  <2> QED
    BY <1>2, <2>1, <2>2 DEF TypeOK
<1> QED
  BY <1>3, <1>4, <1>5, <1>6, <1>8, <1>9, <1>10, <1>11 DEF ClientStep

\* However many threads call start and stop at the same time: a join is for a thread
\* that forceStop has found, never for a field that another one has cleared since.
THEOREM JoinsHaveThread == Spec => []TypeOK
<1>1. Init => TypeOK
  <2>1. NoCall \in Call /\ NoCall.pc = "idle"
    BY DEF Call, NoCall, Steps
  <2> QED
    BY <2>1 DEF Init, TypeOK, Stages
<1>2. TypeOK /\ [Next]_vars => TypeOK'
  <2>1. CASE UNCHANGED vars
    BY <2>1 DEF vars, TypeOK
  <2> QED
    BY <2>1, WorkerTyped, ClientTyped DEF Next
<1> QED
  BY <1>1, <1>2, PTL DEF Spec

=============================================================================
