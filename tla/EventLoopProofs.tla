---------------------------- MODULE EventLoopProofs ----------------------------
(***************************************************************************)
(* What the loop promises for every set of events, every length of a       *)
(* second, every bound and either form of Run: proofs.                     *)
(***************************************************************************)
EXTENDS EventLoop, TLAPS

(* The inductive invariant: the loop's copy of the clock is never ahead of *)
(* it, which is what makes a wait computed from the copy long enough.      *)
Inv == TypeOK /\ now <= clock /\ WaitsForNextEvent /\ SecondCoversFiring

(* A time is the seconds and the microseconds it is split into.            *)
LEMMA TimeSplit ==
    ASSUME NEW t \in Nat
    PROVE  /\ Seconds(t) \in Nat /\ Micros(t) \in Nat /\ Micros(t) < USEC
           /\ t = Seconds(t) * USEC + Micros(t)
    BY TimeAssumption DEF Seconds, Micros

(* An earlier time has no later second.                                    *)
LEMMA SecondsMonotone ==
    ASSUME NEW t \in Nat, NEW u \in Nat, t <= u
    PROVE  Seconds(t) <= Seconds(u)
<1>1. SUFFICES ASSUME Seconds(t) >= Seconds(u) + 1
               PROVE  FALSE
    BY TimeSplit
<1>2. /\ Seconds(t) \in Nat /\ Micros(t) \in Nat
      /\ t = Seconds(t) * USEC + Micros(t)
    BY TimeSplit
<1>3. /\ Seconds(u) \in Nat /\ Micros(u) \in Nat /\ Micros(u) < USEC
      /\ u = Seconds(u) * USEC + Micros(u)
    BY TimeSplit
<1>4. PICK d \in Nat : Seconds(t) = Seconds(u) + 1 + d
  <2>1. Seconds(t) - Seconds(u) - 1 \in Nat
      BY <1>1, <1>2, <1>3
  <2>2. Seconds(t) = Seconds(u) + 1 + (Seconds(t) - Seconds(u) - 1)
      BY <1>2, <1>3
  <2> QED BY <2>1, <2>2
<1>5. Seconds(t) * USEC = Seconds(u) * USEC + USEC + d * USEC
    BY <1>3, <1>4, TimeAssumption
<1>6. d * USEC >= 0 /\ d * USEC \in Nat /\ Seconds(u) * USEC \in Nat
    BY <1>3, <1>4, TimeAssumption
<1> QED BY <1>2, <1>3, <1>5, <1>6, TimeAssumption

(* The two-field arithmetic of Run, with its borrow and its clamp, is the  *)
(* distance to the ready time, or nothing when that has passed             *)
(* (csj_framework.cpp:99-109).                                             *)
LEMMA TimeoutValue ==
    ASSUME NEW r \in Nat, NEW n \in Nat
    PROVE  Timeout(r, n) = IF r < n THEN 0 ELSE r - n
<1> DEFINE rs == Seconds(r)  ru == Micros(r)  ns == Seconds(n)  nu == Micros(n)
<1>1. rs \in Nat /\ ru \in Nat /\ ru < USEC /\ r = rs * USEC + ru
    BY TimeSplit
<1>2. ns \in Nat /\ nu \in Nat /\ nu < USEC /\ n = ns * USEC + nu
    BY TimeSplit
<1>3. (rs - ns) * USEC = rs * USEC - ns * USEC
    BY <1>1, <1>2, TimeAssumption
<1>4. (rs - ns - 1) * USEC = rs * USEC - ns * USEC - USEC
    BY <1>1, <1>2, TimeAssumption
<1>5. rs * USEC \in Nat /\ ns * USEC \in Nat
    BY <1>1, <1>2, TimeAssumption
<1>6. rs < ns => rs * USEC + USEC <= ns * USEC
  <2>1. SUFFICES ASSUME rs < ns PROVE rs * USEC + USEC <= ns * USEC
      OBVIOUS
  <2>2. (ns - rs - 1) * USEC = ns * USEC - rs * USEC - USEC
      BY <1>1, <1>2, TimeAssumption
  <2>3. ns - rs - 1 \in Nat
      BY <1>1, <1>2, <2>1
  <2>4. (ns - rs - 1) * USEC \in Nat
      BY <2>3, TimeAssumption
  <2> QED BY <1>5, <2>2, <2>4, TimeAssumption
<1>7. rs >= ns => rs * USEC >= ns * USEC
  <2>1. SUFFICES ASSUME rs >= ns PROVE rs * USEC >= ns * USEC
      OBVIOUS
  <2>2. rs - ns \in Nat
      BY <1>1, <1>2, <2>1
  <2>3. (rs - ns) * USEC \in Nat
      BY <2>2, TimeAssumption
  <2> QED BY <1>3, <1>5, <2>3
<1>8. rs > ns => rs * USEC >= ns * USEC + USEC
  <2>1. SUFFICES ASSUME rs > ns PROVE rs * USEC >= ns * USEC + USEC
      OBVIOUS
  <2>2. rs - ns - 1 \in Nat
      BY <1>1, <1>2, <2>1
  <2>3. (rs - ns - 1) * USEC \in Nat
      BY <2>2, TimeAssumption
  <2> QED BY <1>4, <1>5, <2>3, TimeAssumption
<1> HIDE DEF rs, ru, ns, nu
<1>9. CASE ru - nu < 0
  <2>1. Timeout(r, n) = IF rs - ns - 1 < 0 THEN 0
                        ELSE (rs - ns - 1) * USEC + (ru - nu + USEC)
      BY <1>9 DEF Timeout, rs, ru, ns, nu
  <2> QED BY <1>1, <1>2, <1>4, <1>5, <1>6, <1>7, <1>8, <1>9, <2>1, TimeAssumption
<1>10. CASE ~(ru - nu < 0)
  <2>1. Timeout(r, n) = IF rs - ns < 0 THEN 0
                        ELSE (rs - ns) * USEC + (ru - nu)
      BY <1>10 DEF Timeout, rs, ru, ns, nu
  <2> QED BY <1>1, <1>2, <1>3, <1>5, <1>6, <1>7, <1>10, <2>1, TimeAssumption
<1> QED BY <1>9, <1>10

(* Restricting a partial function or extending it at one point gives a     *)
(* partial function again.                                                 *)
LEMMA PartialStep ==
    ASSUME NEW S, NEW T, NEW f \in Partial(S, T)
    PROVE  /\ DOMAIN f \subseteq S /\ \A e \in DOMAIN f : f[e] \in T
           /\ \A D : D \subseteq DOMAIN f => [e \in D |-> f[e]] \in Partial(S, T)
           /\ \A e \in S, t \in T :
                 [g \in DOMAIN f \cup {e} |-> IF g = e THEN t ELSE f[g]]
                    \in Partial(S, T)
<1>0. \A E \in SUBSET S : [E -> T] \subseteq Partial(S, T)
    BY DEF Partial
<1>1. PICK D \in SUBSET S : f \in [D -> T]
    BY DEF Partial
<1>2. \A E : E \subseteq DOMAIN f => [e \in E |-> f[e]] \in [E -> T]
    BY <1>1
<1>3. \A e \in S, t \in T :
         [g \in DOMAIN f \cup {e} |-> IF g = e THEN t ELSE f[g]]
            \in [DOMAIN f \cup {e} -> T]
    BY <1>1
<1>4. DOMAIN f = D /\ \A e \in DOMAIN f : f[e] \in T
    BY <1>1
<1>5. \A E : E \subseteq DOMAIN f => [e \in E |-> f[e]] \in Partial(S, T)
  <2>1. SUFFICES ASSUME NEW E, E \subseteq DOMAIN f
                 PROVE  [e \in E |-> f[e]] \in Partial(S, T)
      OBVIOUS
  <2>2. E \in SUBSET S
      BY <1>4, <2>1
  <2> QED BY <1>0, <1>2, <2>1, <2>2
<1>6. \A e \in S, t \in T :
         [g \in DOMAIN f \cup {e} |-> IF g = e THEN t ELSE f[g]]
            \in Partial(S, T)
  <2>1. SUFFICES ASSUME NEW e \in S, NEW t \in T
                 PROVE  [g \in DOMAIN f \cup {e} |-> IF g = e THEN t ELSE f[g]]
                           \in Partial(S, T)
      OBVIOUS
  <2>2. DOMAIN f \cup {e} \in SUBSET S
      BY <1>4
  <2> QED BY <1>0, <1>3, <2>2
<1> QED BY <1>4, <1>5, <1>6

(* Whatever a handler does leaves the queue a queue of timed events, and   *)
(* touches nothing but the queue and the shutdown flag.                    *)
LEMMA HandlerType ==
    ASSUME immediate \subseteq Events, realtime \in Partial(Events, Time),
           m_shutdown \in BOOLEAN, EventQueue \in BOOLEAN, Handler
    PROVE  /\ immediate' \subseteq Events /\ realtime' \in Partial(Events, Time)
           /\ m_shutdown' \in BOOLEAN /\ EventQueue' \in BOOLEAN
<1>1. CASE UNCHANGED <<queueVars, m_shutdown>>
    BY <1>1 DEF queueVars
<1>2. ASSUME NEW e \in Events, PushImmediateEvent(e)
      PROVE  /\ immediate' \subseteq Events /\ realtime' = realtime
             /\ m_shutdown' = m_shutdown /\ EventQueue' = EventQueue
    BY <1>2 DEF PushImmediateEvent
<1>3. ASSUME NEW e \in Events, NEW t \in Time, PushRealTimeEvent(e, t)
      PROVE  /\ immediate' = immediate /\ realtime' \in Partial(Events, Time)
             /\ m_shutdown' = m_shutdown /\ EventQueue' = EventQueue
  <2>1. [f \in DOMAIN realtime \cup {e} |-> IF f = e THEN t ELSE realtime[f]]
           \in Partial(Events, Time)
      BY PartialStep
  <2> QED BY <1>3, <2>1 DEF PushRealTimeEvent
<1>4. CASE Shutdown
    BY <1>4 DEF Shutdown, queueVars
<1> QED BY <1>1, <1>2, <1>3, <1>4 DEF Handler

(* The first iteration finds nothing queued.                               *)
LEMMA InitHolds == Init => Inv
<1> SUFFICES ASSUME Init PROVE Inv
    OBVIOUS
<1>1. NoEvents \in Partial(Events, Time) /\ DOMAIN NoEvents = {}
  <2>1. NoEvents \in [{} -> Time]
      BY DEF NoEvents
  <2> QED BY <2>1 DEF Partial
<1>2. 0 \in Time
    BY TimeAssumption DEF Time
<1>3. TypeOK
    BY <1>1, <1>2 DEF Init, TypeOK
<1>4. SecondCoversFiring
    BY <1>1 DEF Init, SecondCoversFiring
<1> QED BY <1>3, <1>4 DEF Init, Inv, WaitsForNextEvent

(* A server keeps to its form of Run.                                      *)
LEMMA ModeKept == [Next]_vars => mode' = mode
    BY DEF Next, Loop, vars, InitFramework, StartUp, Run, ReturnFromRun,
           StartDispatch, Fire, PollOnce, PollUntilTimer, PollForever,
           PollHeartBeat, EPoll, ServeInput, TimedOut, Done, Tick, InputArrives

(* Starting an iteration: the cached second covers every event about to    *)
(* run, because those are immediate or have expired by the same reading.   *)
LEMMA DispatchKeeps == ASSUME Inv, StartDispatch PROVE Inv'
<1>0. mode' = mode
    BY ModeKept DEF Next, Loop
<1> USE <1>0 DEF Inv, TypeOK
<1>1. /\ DOMAIN realtime \subseteq Events
      /\ \A e \in DOMAIN realtime : realtime[e] \in Time
    BY PartialStep
<1>2. realtime' \in Partial(Events, Time)
  <2>1. DOMAIN realtime \ Expired(clock) \subseteq DOMAIN realtime
      OBVIOUS
  <2> QED BY <2>1, PartialStep DEF StartDispatch, ReadClock
<1>3. firing' \in Partial(Events, Time)
  <2>1. immediate \cup Expired(clock) \subseteq Events
      BY <1>1 DEF Expired
  <2>2. firing' \in [immediate \cup Expired(clock) -> Time]
      BY <1>1, TimeAssumption DEF StartDispatch, ReadClock, Expired, Time
  <2> QED BY <2>1, <2>2 DEF Partial
<1>4. clock \in Nat /\ CurrentSecond' = Seconds(clock) /\ Seconds(clock) \in Nat
    BY TimeSplit DEF StartDispatch, ReadClock, Time
<1>5. SecondCoversFiring'
  <2>1. SUFFICES ASSUME NEW e \in DOMAIN firing'
                 PROVE  CurrentSecond' >= Seconds(firing'[e])
      BY DEF SecondCoversFiring, Seconds
  <2>2. e \in immediate \/ e \in Expired(clock)
      BY <2>1 DEF StartDispatch, ReadClock
  <2>3. firing'[e] \in Nat /\ firing'[e] <= clock
    <3>1. CASE e \in immediate
        BY <1>4, <3>1 DEF StartDispatch, ReadClock
    <3>2. CASE e \notin immediate
        BY <1>1, <2>2, <3>2 DEF StartDispatch, ReadClock, Expired, Time
    <3> QED BY <3>1, <3>2
  <2>4. Seconds(firing'[e]) <= Seconds(clock) /\ Seconds(firing'[e]) \in Nat
      BY <1>4, <2>3, SecondsMonotone, TimeSplit
  <2> QED BY <1>4, <2>4
<1> QED BY <1>2, <1>3, <1>4, <1>5 DEF StartDispatch, ReadClock, WaitsForNextEvent, Time

(* Running an event takes it out of the dispatch and lets its handler act. *)
LEMMA FireKeeps == ASSUME Inv, Fire PROVE Inv'
<1>0. mode' = mode
    BY ModeKept DEF Next, Loop
<1> USE <1>0 DEF Inv, TypeOK
<1>1. PICK e \in DOMAIN firing : firing' = [f \in DOMAIN firing \ {e} |-> firing[f]]
    BY DEF Fire
<1>2. firing' \in Partial(Events, Time)
  <2>1. DOMAIN firing \ {e} \subseteq DOMAIN firing
      OBVIOUS
  <2> QED BY <1>1, <2>1, PartialStep
<1>3. /\ immediate' \subseteq Events /\ realtime' \in Partial(Events, Time)
      /\ m_shutdown' \in BOOLEAN /\ EventQueue' \in BOOLEAN
    BY HandlerType DEF Fire
<1>4. SecondCoversFiring'
    BY <1>1 DEF SecondCoversFiring, Seconds, Fire, timeVars
<1> QED BY <1>2, <1>3, <1>4 DEF Fire, timeVars, WaitsForNextEvent

(* Going to wait: each case of the timeout is what the queue calls for.    *)
LEMMA PollKeeps ==
    ASSUME Inv, PollOnce \/ PollUntilTimer \/ PollForever \/ PollHeartBeat
    PROVE  Inv'
<1>0. mode' = mode
    BY ModeKept DEF Next, Loop
<1> USE <1>0 DEF Inv, TypeOK
<1>1. /\ clock' = clock /\ now' = now /\ realtime' = realtime
      /\ immediate' = immediate /\ pc' = "epoll"
      /\ EventQueue' = EventQueue /\ firing' = firing
      /\ CurrentSecond' = CurrentSecond /\ m_shutdown' = m_shutdown
      /\ sockets' = sockets /\ input' = input
    BY DEF PollOnce, PollUntilTimer, PollForever, PollHeartBeat, EPoll,
           queueVars, timeVars
<1>2. SecondCoversFiring'
    BY <1>1 DEF SecondCoversFiring, Seconds
<1>3. \A e \in DOMAIN realtime : realtime[e] \in Nat
  <2>1. \A e \in DOMAIN realtime : realtime[e] \in Time
      BY PartialStep
  <2> QED BY <2>1 DEF Time
<1>4. clock \in Nat /\ now \in Nat /\ now <= clock
    BY DEF Time
<1>5. sleep' \in Nat \cup {Forever} /\ WaitsForNextEvent'
  <2>1. CASE PollOnce
      BY <1>1, <2>1 DEF PollOnce, EPoll, Forever, WaitsForNextEvent
  <2>2. CASE PollUntilTimer
    <3>1. PICK e \in DOMAIN realtime :
             /\ \A f \in DOMAIN realtime : realtime[e] <= realtime[f]
             /\ sleep' = Timeout(realtime[e], now)
        BY <2>2 DEF PollUntilTimer, EPoll
    <3>2. sleep' = IF realtime[e] < now THEN 0 ELSE realtime[e] - now
        BY <1>3, <1>4, <3>1, TimeoutValue
    <3>3. sleep' \in Nat
        BY <1>3, <1>4, <3>2
    <3>4. clock + sleep' >= realtime[e]
        BY <1>3, <1>4, <3>2
    <3>5. \A f \in DOMAIN realtime : sleep' = 0 \/ now + sleep' <= realtime[f]
        BY <1>3, <1>4, <3>1, <3>2
    <3>6. immediate = {}
        BY <2>2 DEF PollUntilTimer
    <3> QED BY <1>1, <3>3, <3>4, <3>5, <3>6 DEF WaitsForNextEvent, Forever
  <2>3. CASE PollForever
      BY <1>1, <2>3 DEF PollForever, EPoll, Forever, WaitsForNextEvent, Pending
  <2>4. CASE PollHeartBeat
      BY <1>1, <2>4, TimeAssumption
      DEF PollHeartBeat, EPoll, WaitsForNextEvent
  <2> QED BY <2>1, <2>2, <2>3, <2>4
<1> QED BY <1>1, <1>2, <1>5

(* Time passing during a wait shortens what is left of it by as much.      *)
LEMMA TickKeeps == ASSUME Inv, Tick PROVE Inv'
<1>0. mode' = mode
    BY ModeKept DEF Next
<1> USE <1>0 DEF Inv, TypeOK
<1>1. /\ now' = now /\ realtime' = realtime /\ immediate' = immediate
      /\ pc' = pc /\ firing' = firing /\ CurrentSecond' = CurrentSecond
      /\ EventQueue' = EventQueue /\ m_shutdown' = m_shutdown
      /\ sockets' = sockets /\ input' = input
    BY DEF Tick, queueVars, timeVars
<1>2. clock \in Nat /\ clock <= MaxTime /\ now \in Nat /\ MaxTime \in Nat
    BY TimeAssumption DEF Time
<1>3. clock' \in Time /\ clock' >= clock /\ now' <= clock'
    BY <1>1, <1>2 DEF Tick, Time
<1>4. sleep' \in Nat \cup {Forever} /\ (sleep' = Forever <=> sleep = Forever)
    BY DEF Tick, Forever
<1>5. \A t \in Time : clock + sleep >= t /\ sleep # Forever => clock' + sleep' >= t
    BY <1>2 DEF Tick, Time, Forever
<1>6. \A t \in Nat : sleep = 0 \/ now + sleep <= t => sleep' = 0 \/ now + sleep' <= t
    BY <1>2 DEF Tick, Forever
<1>7. \A e \in DOMAIN realtime : realtime[e] \in Time /\ realtime[e] \in Nat
  <2>1. \A e \in DOMAIN realtime : realtime[e] \in Time
      BY PartialStep
  <2> QED BY <2>1 DEF Time
<1>8. WaitsForNextEvent'
  <2>1. SUFFICES ASSUME mode = "event", pc = "epoll"
                 PROVE  WaitsForNextEvent'
      BY <1>1 DEF WaitsForNextEvent
  <2>2. sleep' = Forever => Pending' = {}
      BY <1>1, <1>4, <2>1 DEF WaitsForNextEvent, Pending
  <2>3. immediate # {} => sleep' = 0
      BY <2>1 DEF WaitsForNextEvent, Tick
  <2>4. ASSUME immediate = {}, DOMAIN realtime # {}
        PROVE  /\ \E e \in DOMAIN realtime : clock' + sleep' >= realtime[e]
               /\ \A e \in DOMAIN realtime :
                     sleep' = 0 \/ now + sleep' <= realtime[e]
    <3>1. sleep # Forever
        BY <2>1, <2>4 DEF WaitsForNextEvent, Pending
    <3>2. PICK e \in DOMAIN realtime : clock + sleep >= realtime[e]
        BY <2>1, <2>4 DEF WaitsForNextEvent
    <3>3. clock' + sleep' >= realtime[e]
        BY <1>5, <1>7, <3>1, <3>2
    <3>4. \A f \in DOMAIN realtime : sleep = 0 \/ now + sleep <= realtime[f]
        BY <2>1, <2>4 DEF WaitsForNextEvent
    <3> QED BY <1>6, <1>7, <3>3, <3>4
  <2> QED BY <1>1, <2>2, <2>3, <2>4 DEF WaitsForNextEvent
<1>9. SecondCoversFiring'
    BY <1>1 DEF SecondCoversFiring, Seconds
<1> QED BY <1>1, <1>3, <1>4, <1>8, <1>9

(* The steps that only move the thread, and those of the environment.      *)
LEMMA QuietKeeps ==
    ASSUME Inv,
           InitFramework \/ StartUp \/ Run \/ ReturnFromRun \/ ServeInput
              \/ TimedOut \/ Done \/ InputArrives \/ UNCHANGED vars
    PROVE  Inv'
<1>0. mode' = mode
    BY ModeKept DEF Next, Loop
<1> USE <1>0 DEF Inv, TypeOK
<1>1. /\ clock' = clock /\ now' = now /\ CurrentSecond' = CurrentSecond
      /\ firing' = firing /\ sleep' = sleep
    BY DEF InitFramework, StartUp, Run, ReturnFromRun, ServeInput, TimedOut,
           Done, InputArrives, vars, timeVars
<1>2. SecondCoversFiring'
    BY <1>1 DEF SecondCoversFiring, Seconds
<1>3. /\ immediate' \subseteq Events /\ realtime' \in Partial(Events, Time)
      /\ m_shutdown' \in BOOLEAN /\ EventQueue' \in BOOLEAN
  <2>1. CASE StartUp \/ ServeInput
      BY <2>1, HandlerType DEF StartUp, ServeInput
  <2>2. CASE Done
    <3>1. NoEvents \in [{} -> Time]
        BY DEF NoEvents
    <3> QED BY <2>2, <3>1 DEF Done, Partial
  <2>3. CASE InitFramework \/ Run \/ ReturnFromRun \/ TimedOut
                \/ InputArrives \/ UNCHANGED vars
      BY <2>3 DEF InitFramework, Run, ReturnFromRun, TimedOut, InputArrives,
                  vars, queueVars
  <2> QED BY <2>1, <2>2, <2>3
<1>4. /\ sockets' \in BOOLEAN /\ input' \in BOOLEAN
      /\ pc' \in {"out", "ready", "top", "dispatch", "epoll", "returned"}
    BY DEF InitFramework, StartUp, Run, ReturnFromRun, ServeInput, TimedOut,
           Done, InputArrives, vars
<1>5. WaitsForNextEvent'
  <2>1. CASE pc' # "epoll"
      BY <2>1 DEF WaitsForNextEvent
  <2>2. CASE pc' = "epoll"
    <3>1. pc = "epoll" /\ realtime' = realtime /\ immediate' = immediate
        BY <2>2 DEF InitFramework, StartUp, Run, ReturnFromRun, ServeInput,
           TimedOut, Done, InputArrives, vars, queueVars
    <3> QED BY <1>1, <3>1 DEF WaitsForNextEvent, Pending
  <2> QED BY <2>1, <2>2
<1> QED BY <1>1, <1>2, <1>3, <1>4, <1>5

(* Every step keeps the invariant.                                         *)
LEMMA NextKeeps == Inv /\ [Next]_vars => Inv'
    BY DispatchKeeps, FireKeeps, PollKeeps, TickKeeps, QuietKeeps DEF Next, Loop

(* Type correctness of the loop's state, in both forms of Run.             *)
THEOREM TypeCorrect == Spec => []TypeOK
<1>1. Inv => TypeOK
    BY DEF Inv
<1> QED BY <1>1, InitHolds, NextKeeps, PTL DEF Spec

(* The wait is never too long for what is queued and never too short: the  *)
(* choice among the three timeouts of Run and its timeval arithmetic are   *)
(* right for every queue and every reading of the clock.                   *)
THEOREM WaitsCorrect == Spec => []WaitsForNextEvent
<1>1. Inv => WaitsForNextEvent
    BY DEF Inv
<1> QED BY <1>1, InitHolds, NextKeeps, PTL DEF Spec

(* No handler run by Dispatch sees a second that precedes its ready time.  *)
THEOREM SecondCorrect == Spec => []SecondCoversFiring
<1>1. Inv => SecondCoversFiring
    BY DEF Inv
<1> QED BY <1>1, InitHolds, NextKeeps, PTL DEF Spec
=============================================================================
