------------------------------ MODULE EventLoop ------------------------------
(***************************************************************************)
(* CSJFramework: the main loop every server runs.  An iteration reads the  *)
(* clock, dispatches the events that are ready and then waits in the       *)
(* socket manager's EPoll, for a time that depends on what is still        *)
(* queued.  Handlers run in the loop's thread, inside Dispatch and inside  *)
(* EPoll, and may push events or call Shutdown; the clock and the network  *)
(* move between any two steps.                                             *)
(*                                                                         *)
(* CEventQueue and CMSSocketManager are not in the repository: they are    *)
(* modelled by what the loop and its comments ask of them.                 *)
(*                                                                         *)
(* Scale: a time is a number of microseconds and a second has USEC of them *)
(* (1000000 in the code).                                                  *)
(***************************************************************************)
EXTENDS Integers

CONSTANTS
    Events,         \* event objects a handler may push
    USEC,           \* microseconds in a second
    MaxTime,        \* bound: the clock stops here, and no timer is set beyond
    HeartBeat       \* argument of Run(heartBeat)

ASSUME TimeAssumption == /\ USEC \in Nat \ {0}
                         /\ MaxTime \in Nat
                         /\ HeartBeat \in Nat

VARIABLES
    clock,          \* what gettimeofday returns
    EventQueue,     \* the queue has been created
    immediate,      \* queued immediate events
    realtime,       \* queued real-time events, each with its ready time
    firing,         \* events the current Dispatch has still to run
    now,            \* the loop's copy of the clock
    CurrentSecond,
    m_shutdown,
    sockets,        \* the socket manager exists
    input,          \* some socket is ready for reading or writing
    sleep,          \* what is left of EPoll's timeout
    pc,             \* where the server's main thread is
    mode            \* this server calls Run(), "event", or Run(heartBeat)

queueVars == <<EventQueue, immediate, realtime>>
timeVars  == <<now, CurrentSecond>>
vars == <<clock, queueVars, firing, timeVars, m_shutdown, sockets, input,
          sleep, pc, mode>>

Time == 0 .. MaxTime
Forever == -1                   \* EPoll(nullptr)
Seconds(t) == t \div USEC
Micros(t) == t % USEC
Partial(S, T) == UNION {[D -> T] : D \in SUBSET S}
NoEvents == [e \in {} |-> 0]

Pending == immediate \cup DOMAIN realtime

-----------------------------------------------------------------------------
Init ==
    /\ clock = 0 /\ EventQueue = FALSE /\ immediate = {} /\ realtime = NoEvents
    /\ firing = NoEvents /\ now = 0 /\ CurrentSecond = 0
    /\ m_shutdown = FALSE /\ sockets = FALSE /\ input = FALSE
    /\ sleep = 0 /\ pc = "out" /\ mode \in {"event", "heartbeat"}

\* CSJFramework::Init: the event queue and the socket manager.
InitFramework ==
    /\ pc = "out"
    /\ EventQueue' = TRUE /\ sockets' = TRUE /\ pc' = "ready"
    /\ UNCHANGED <<mode, clock, immediate, realtime, firing, timeVars,
                   m_shutdown, input, sleep>>

PushImmediateEvent(e) ==
    /\ immediate' = IF EventQueue THEN immediate \cup {e} ELSE immediate
    /\ UNCHANGED <<EventQueue, realtime, m_shutdown>>

PushRealTimeEvent(e, t) ==
    /\ realtime' = IF EventQueue
                   THEN [f \in DOMAIN realtime \cup {e} |->
                            IF f = e THEN t ELSE realtime[f]]
                   ELSE realtime
    /\ UNCHANGED <<EventQueue, immediate, m_shutdown>>

Shutdown == m_shutdown' = TRUE /\ UNCHANGED queueVars

\* What a piece of server code may do; an event object is queued once.
Handler ==
    \/ UNCHANGED <<queueVars, m_shutdown>>
    \/ \E e \in Events \ (Pending \cup DOMAIN firing) :
          PushImmediateEvent(e) \/ \E t \in Time : PushRealTimeEvent(e, t)
    \/ Shutdown

\* The server's own start-up code, between Init and Run.
StartUp ==
    /\ pc = "ready"
    /\ Handler
    /\ UNCHANGED <<mode, clock, firing, timeVars, sockets, input, sleep,
                   pc>>

Run ==
    /\ pc = "ready" /\ pc' = "top"
    /\ UNCHANGED <<mode, clock, queueVars, firing, timeVars, m_shutdown,
                   sockets, input, sleep>>

\* Mutant: Run returns only once nothing is queued.
ReturnWhenDrained ==
    /\ pc = "top" /\ m_shutdown /\ Pending = {}
    /\ pc' = "returned"
    /\ UNCHANGED <<mode, clock, queueVars, firing, timeVars, m_shutdown,
                   sockets, input, sleep>>

ReturnFromRun ==
    /\ pc = "top" /\ m_shutdown
    /\ pc' = "returned"
    /\ UNCHANGED <<mode, clock, queueVars, firing, timeVars, m_shutdown,
                   sockets, input, sleep>>

-----------------------------------------------------------------------------
(* Dispatch(now): the immediate events and the timers that have expired.   *)
(* What their handlers push stays queued for the next iteration.           *)

Expired(t) == {e \in DOMAIN realtime : realtime[e] <= t}

\* Mutant: the seconds of the previous iteration.
ReadClockLate == now' = clock /\ CurrentSecond' = Seconds(now)

\* gettimeofday, and the copy of its seconds.
ReadClock == now' = clock /\ CurrentSecond' = Seconds(clock)

StartDispatch ==
    /\ pc = "top" /\ ~m_shutdown
    /\ ReadClock
    /\ firing' = [e \in immediate \cup Expired(clock) |->
                     IF e \in immediate THEN 0 ELSE realtime[e]]
    /\ immediate' = {}
    /\ realtime' = [e \in DOMAIN realtime \ Expired(clock) |-> realtime[e]]
    /\ pc' = "dispatch"
    /\ UNCHANGED <<mode, clock, EventQueue, m_shutdown, sockets, input,
                   sleep>>

Fire ==
    /\ pc = "dispatch"
    /\ \E e \in DOMAIN firing :
          firing' = [f \in DOMAIN firing \ {e} |-> firing[f]]
    /\ Handler
    /\ UNCHANGED <<mode, clock, timeVars, sockets, input, sleep, pc>>

-----------------------------------------------------------------------------

\* Mutant: the microseconds are made positive without taking a second.
TimeoutNoBorrow(ready, current) ==
    LET sec   == Seconds(ready) - Seconds(current)
        usec  == Micros(ready) - Micros(current)
        usec2 == IF usec < 0 THEN usec + USEC ELSE usec
    IN  IF sec < 0 THEN 0 ELSE sec * USEC + usec2

(* The wait.  Timeout is the struct timeval arithmetic on two fields.      *)
Timeout(ready, current) ==
    LET sec   == Seconds(ready) - Seconds(current)
        usec  == Micros(ready) - Micros(current)
        sec2  == IF usec < 0 THEN sec - 1 ELSE sec
        usec2 == IF usec < 0 THEN usec + USEC ELSE usec
    IN  IF sec2 < 0 THEN 0 ELSE sec2 * USEC + usec2

EPoll(timeout) ==
    /\ pc = "dispatch" /\ DOMAIN firing = {}
    /\ sleep' = timeout
    /\ pc' = "epoll"
    /\ UNCHANGED <<mode, clock, queueVars, firing, timeVars, m_shutdown,
                   sockets, input>>

\* Mutant: with immediate events queued the loop does not poll at all.
PollOnceSkipped ==
    /\ mode = "event" /\ immediate # {}
    /\ pc = "dispatch" /\ DOMAIN firing = {}
    /\ pc' = "top"
    /\ UNCHANGED <<mode, clock, queueVars, firing, timeVars, m_shutdown,
                   sockets, input, sleep>>

\* Case 1: immediate events are queued.
PollOnce == mode = "event" /\ immediate # {} /\ EPoll(0)

\* Case 2: sleep until the next timer.
PollUntilTimer ==
    /\ mode = "event" /\ immediate = {}
    /\ \E e \in DOMAIN realtime :
          /\ \A f \in DOMAIN realtime : realtime[e] <= realtime[f]
          /\ EPoll(Timeout(realtime[e], now))

\* Mutant: only the immediate events are looked at before blocking.
PollForeverWithTimers == mode = "event" /\ immediate = {} /\ EPoll(Forever)

\* Case 3: nothing is queued.
PollForever == mode = "event" /\ Pending = {} /\ EPoll(Forever)

\* Mutant: the heartbeat is not handed to EPoll.
PollHeartBeatForever == mode = "heartbeat" /\ EPoll(Forever)

PollHeartBeat == mode = "heartbeat" /\ EPoll(HeartBeat)

\* EPoll serves the ready sockets, whose handlers run here, and returns.
ServeInput ==
    /\ pc = "epoll" /\ input
    /\ input' = FALSE
    /\ Handler
    /\ pc' = "top"
    /\ UNCHANGED <<mode, clock, firing, timeVars, sockets, sleep>>

TimedOut ==
    /\ pc = "epoll" /\ ~input /\ sleep = 0
    /\ pc' = "top"
    /\ UNCHANGED <<mode, clock, queueVars, firing, timeVars, m_shutdown,
                   sockets, input, sleep>>

\* CSJFramework::Done, once Run has returned.
Done ==
    /\ pc = "returned"
    /\ EventQueue' = FALSE /\ immediate' = {} /\ realtime' = NoEvents
    /\ m_shutdown' = FALSE /\ sockets' = FALSE /\ input' = FALSE
    /\ pc' = "out"
    /\ UNCHANGED <<mode, clock, firing, timeVars, sleep>>

-----------------------------------------------------------------------------
(* The environment *)

Tick ==
    /\ clock' = IF clock < MaxTime THEN clock + 1 ELSE clock
    /\ sleep' = IF sleep > 0 THEN sleep - 1 ELSE sleep
    /\ UNCHANGED <<mode, queueVars, firing, timeVars, m_shutdown, sockets,
                   input, pc>>

InputArrives ==
    /\ sockets /\ ~input
    /\ input' = TRUE
    /\ UNCHANGED <<mode, clock, queueVars, firing, timeVars, m_shutdown,
                   sockets, sleep, pc>>

Loop == \/ Run \/ ReturnFromRun \/ StartDispatch \/ Fire
        \/ PollOnce \/ PollUntilTimer \/ PollForever \/ PollHeartBeat
        \/ ServeInput \/ TimedOut \/ Done

Next == InitFramework \/ StartUp \/ Loop \/ Tick \/ InputArrives

Spec == Init /\ [][Next]_vars

\* The thread runs whenever it is not blocked, and time passes.
FairSpec == Spec /\ WF_vars(Loop) /\ WF_vars(Tick)

-----------------------------------------------------------------------------
TypeOK ==
    /\ clock \in Time /\ now \in Time /\ CurrentSecond \in Nat
    /\ EventQueue \in BOOLEAN /\ immediate \subseteq Events
    /\ realtime \in Partial(Events, Time) /\ firing \in Partial(Events, Time)
    /\ m_shutdown \in BOOLEAN /\ sockets \in BOOLEAN /\ input \in BOOLEAN
    /\ sleep \in Nat \cup {Forever}
    /\ pc \in {"out", "ready", "top", "dispatch", "epoll", "returned"}
    /\ mode \in {"event", "heartbeat"}

(* While the loop waits it loses no event: a wait without end has nothing  *)
(* queued, a queued immediate event allows no wait at all, and a wait for  *)
(* a timer is over neither before the first timer has expired nor later    *)
(* than the time the iteration itself took (csj_framework.cpp:88-116).     *)
WaitsForNextEvent ==
    mode = "event" /\ pc = "epoll" =>
        /\ sleep = Forever => Pending = {}
        /\ immediate # {} => sleep = 0
        /\ immediate = {} /\ DOMAIN realtime # {} =>
              /\ \E e \in DOMAIN realtime : clock + sleep >= realtime[e]
              /\ \A e \in DOMAIN realtime :
                    sleep = 0 \/ now + sleep <= realtime[e]

(* A handler run by Dispatch that asks for the current second is never     *)
(* told one before its own ready time: the second is cached before the     *)
(* dispatch, from the same reading of the clock.                           *)
SecondCoversFiring ==
    \A e \in DOMAIN firing : CurrentSecond >= Seconds(firing[e])

(* Every queued event is run, however many immediate events its handlers   *)
(* keep pushing and however busy the sockets are, unless the server is     *)
(* shut down first.                                                        *)
EventsFire ==
    \A e \in Events :
        (e \in Pending) ~> (e \in DOMAIN firing \/ m_shutdown \/ pc = "out")

(* Ready sockets are served although events keep coming.                   *)
InputServed == input ~> (~input \/ m_shutdown)

(* A server of Run(heartBeat) acts on a shutdown, whoever calls it and     *)
(* whatever is queued: it looks at the flag again after at most a          *)
(* heartbeat.                                                              *)
HeartBeatTearsDown == mode = "heartbeat" /\ m_shutdown ~> ~sockets

(* Shutdown() ends in the socket manager being torn down                   *)
(* (csj_framework.cpp:11, event-loop/README.md).                           *)
ShutdownTearsDown == m_shutdown ~> ~sockets
=============================================================================
