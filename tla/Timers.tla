------------------------------- MODULE Timers -------------------------------
(***************************************************************************)
(* The timer scheduler (src/stage/threading/TimerScheduler.cpp), its       *)
(* timers (Timer.cpp) and the hosting's thread that drives it              *)
(* (src/stage/core/Hosting.cpp).                                           *)
(*                                                                         *)
(* Rounds run one at a time, under the hosting's mutex, on the thread      *)
(* called Ticker here.  A round looks at as many timers as the list had    *)
(* when it began, one after another from the cursor on; of a timer it      *)
(* reads _last, _interval, _disposed and _enabled without a mutex.  Other  *)
(* threads, Users, and the callbacks call Start, Stop, SetInterval and     *)
(* Dispose of a timer, which take the timer's mutex and then, with it, the *)
(* scheduler's; the scheduler itself takes them the other way about when   *)
(* it stops a timer.                                                       *)
(*                                                                         *)
(* Time is kept as differences: the age of a timer is now - _last, lag is  *)
(* now - ticks where ticks is the time a round began at, and sinceRound is *)
(* now - _lastTime.  The clock does not go back.                           *)
(***************************************************************************)
EXTENDS LinkedList, FiniteSets

CONSTANTS
  Timers, Users, Ticker,
  Intervals,   \* the intervals SetInterval is called with, 0 to stop
  MaxLag,      \* bound: how long a round may last
  MaxOps       \* bound: how many calls are made

ASSUME TimersAssumption ==
  /\ NULL \notin Timers /\ Ticker \notin Users
  /\ NULL \notin Users \cup {Ticker}
  /\ Intervals \subseteq Nat /\ MaxLag \in Nat /\ MaxOps \in Nat

VARIABLES
  timer,       \* each timer's _enabled, _disposed, _interval and age
  list, table, cursor, minPeriod, closed,   \* the scheduler's own fields
  slock,       \* the thread that holds the scheduler's mutex, or NULL
  tlock,       \* the thread that holds each timer's mutex, or NULL
  pc,          \* where the round is: "idle", "fetch", "look", "judge", "ask",
               \* "callback", "stop", "stopping"
  current,     \* the timer the round looks at
  counts,      \* how many it has still to look at
  lag, sinceRound,
  call,        \* the call each thread is in: [op, timer], or NoCall
  ops,         \* calls made
  crashed      \* NULL was dereferenced

scheduler == <<list, table, cursor, minPeriod, closed>>
round == <<pc, current, counts>>
clock == <<lag, sinceRound>>
vars == <<timer, scheduler, slock, tlock, round, clock, call, ops, crashed>>

Threads == Users \cup {Ticker}
NoCall == [op |-> "none", timer |-> NULL]
MaxInterval == CHOOSE i \in Intervals : \A j \in Intervals : j <= i
MaxAge == MaxInterval + MaxLag

\* Every timer has been made and given its interval by the one who made it.
Init ==
  /\ \E given \in [Timers -> Intervals \ {0}] :
       timer = [t \in Timers |-> [enabled |-> FALSE, disposed |-> FALSE,
                                 interval |-> given[t], age |-> NULL]]
  /\ list = EmptyList(Timers) /\ table = {} /\ cursor = NULL
  /\ minPeriod = 1 /\ closed = FALSE
  /\ slock = NULL /\ tlock = [t \in Timers |-> NULL]
  /\ pc = "idle" /\ current = NULL /\ counts = 0 /\ lag = 0 /\ sinceRound = 0
  /\ call = [th \in Threads |-> NoCall] /\ ops = 0 /\ crashed = FALSE

--------------------------------------------------------------------------------
(* What Start and Stop of the scheduler do once they have both mutexes.    *)

SchedulerStart(t) ==
  /\ timer' = [timer EXCEPT ![t].enabled = TRUE, ![t].age = 0]
  /\ list' = AddLast(list, t)
  /\ table' = table \cup {t}
  /\ IF minPeriod = 0 \/ list.count <= 0 \/ table = {}
       THEN cursor' = NULL /\ minPeriod' = timer[t].interval
       ELSE /\ minPeriod' = IF minPeriod > timer[t].interval
                              THEN timer[t].interval ELSE minPeriod
            /\ UNCHANGED cursor

\* A mutant: the cursor is not brought back to the head.
CursorBehindOnly(t) == IF cursor # t THEN cursor ELSE list.next[t]

\* Where the cursor goes when the node under it is removed.
CursorBehind(t) ==
  IF cursor # t THEN cursor
  ELSE IF list.next[t] # NULL THEN list.next[t] ELSE list.first

SchedulerStop(t) ==
  LET removed == Remove(list, t)
      rest == table \ {t}
      empty == removed.count <= 0 \/ rest = {}
  IN  /\ list' = Unlinked(removed, t)
      /\ table' = rest
      /\ cursor' = IF empty THEN NULL ELSE CursorBehind(t)
      /\ minPeriod' = IF empty THEN 0 ELSE minPeriod

--------------------------------------------------------------------------------
(* Calls.  A thread that holds a timer's mutex is in a call on that timer. *)

CanCall(th, t) ==
  /\ ~crashed /\ ops < MaxOps /\ call[th] = NoCall /\ tlock[t] = NULL
  /\ th = Ticker => pc = "callback"

\* The timer's mutex is taken and the scheduler's is waited for.
Enters(th, op, t) ==
  /\ ops' = ops + 1
  /\ tlock' = [tlock EXCEPT ![t] = th]
  /\ call' = [call EXCEPT ![th] = [op |-> op, timer |-> t]]
  /\ UNCHANGED <<timer, scheduler, slock, round, clock, crashed>>

\* The call is over before it needs the scheduler.
Sets(t, x) ==
  /\ ops' = ops + 1
  /\ timer' = [timer EXCEPT ![t] = x]
  /\ UNCHANGED <<scheduler, slock, tlock, round, clock, call, crashed>>

Start(th, t) ==
  /\ CanCall(th, t) /\ ~timer[t].disposed /\ ~timer[t].enabled
  /\ Enters(th, "start", t)

Stop(th, t) ==
  /\ CanCall(th, t) /\ ~timer[t].disposed
  /\ IF timer[t].enabled THEN Enters(th, "stop", t)
     ELSE Sets(t, [timer[t] EXCEPT !.age = NULL])

SetInterval(th, t) ==
  /\ CanCall(th, t)
  /\ \E i \in Intervals :
       IF i <= 0 /\ timer[t].enabled
         THEN ~timer[t].disposed /\ Enters(th, "interval", t)
         ELSE Sets(t, [timer[t] EXCEPT !.interval = i])

\* A disposed timer's node is unlinked whether or not it was stopped before.
Dispose(th, t) ==
  /\ CanCall(th, t) /\ ~timer[t].disposed
  /\ IF timer[t].enabled THEN Enters(th, "dispose", t)
     ELSE Sets(t, [timer[t] EXCEPT !.disposed = TRUE])

Leaves(th) ==
  /\ tlock' = [tlock EXCEPT ![call[th].timer] = NULL]
  /\ call' = [call EXCEPT ![th] = NoCall]
  /\ UNCHANGED <<slock, round, clock, ops>>

Waits(th, ops_) == ~crashed /\ slock = NULL /\ call[th].op \in ops_

StartEnds(th) ==
  LET t == call[th].timer
  IN  /\ Waits(th, {"start"})
      /\ IF closed \/ timer[t].interval <= 0 \/ t \in table
           THEN UNCHANGED <<timer, scheduler>>
           ELSE SchedulerStart(t) /\ UNCHANGED closed
      /\ UNCHANGED crashed
      /\ Leaves(th)

\* The timer as Stop, SetInterval(0) and Dispose leave it.
Stopped(x, op) ==
  [enabled |-> FALSE, disposed |-> x.disposed \/ op = "dispose",
   interval |-> IF op = "interval" THEN 0 ELSE x.interval, age |-> NULL]

StopEnds(th) ==
  LET t == call[th].timer
      op == call[th].op
  IN  /\ Waits(th, {"stop", "interval", "dispose"})
      /\ IF closed
           THEN /\ timer' = [timer EXCEPT ![t].disposed = @ \/ op = "dispose"]
                /\ UNCHANGED <<scheduler, crashed>>
         ELSE IF RemoveFaults(list, t)
           THEN crashed' = TRUE /\ UNCHANGED <<timer, scheduler>>
           ELSE /\ SchedulerStop(t)
                /\ timer' = [timer EXCEPT ![t] = Stopped(@, op)]
                /\ UNCHANGED <<closed, crashed>>
      /\ Leaves(th)

--------------------------------------------------------------------------------
(* TimerScheduler::Dispose holds the scheduler's mutex to the end, and     *)
(* needs every timer's and the hosting's on the way.                       *)

Close(th) ==
  /\ ~crashed /\ ~closed /\ ops < MaxOps /\ call[th] = NoCall /\ slock = NULL
  /\ ops' = ops + 1
  /\ slock' = th /\ cursor' = NULL
  /\ call' = [call EXCEPT ![th] = [op |-> "close", timer |-> NULL]]
  /\ UNCHANGED <<timer, list, table, minPeriod, closed, tlock, round, clock, crashed>>

CloseStops(th) ==
  LET t == list.first
  IN  /\ ~crashed /\ call[th].op = "close" /\ t # NULL /\ tlock[t] = NULL
      /\ SchedulerStop(t)
      /\ timer' = [timer EXCEPT ![t].enabled = FALSE, ![t].age = NULL]
      /\ UNCHANGED <<closed, slock, tlock, round, clock, call, ops, crashed>>

CloseEnds(th) ==
  /\ ~crashed /\ call[th].op = "close" /\ list.first = NULL /\ pc = "idle"
  /\ closed' = TRUE /\ slock' = NULL
  /\ list' = Clear(list, FALSE) /\ table' = {}
  /\ call' = [call EXCEPT ![th] = NoCall]
  /\ UNCHANGED <<timer, cursor, minPeriod, tlock, round, clock, ops, crashed>>

--------------------------------------------------------------------------------
(* The round.                                                              *)

Goes(where) ==
  pc' = where /\ UNCHANGED <<current, counts, clock, call, ops, crashed>>

\* TimerScheduler::DoEvents
DoEvents ==
  /\ ~crashed /\ pc = "idle" /\ slock = NULL /\ list.count > 0
  /\ sinceRound >= (IF minPeriod <= 0 THEN 1000 ELSE minPeriod)
  /\ pc' = "fetch"
  /\ counts' = IF list.count < 1000 THEN list.count ELSE 1000
  /\ lag' = 0 /\ sinceRound' = 0
  /\ UNCHANGED <<timer, scheduler, slock, tlock, current, call, ops, crashed>>

RoundEnds ==
  /\ ~crashed /\ pc = "fetch" /\ (counts = 0 \/ closed)
  /\ pc' = "idle" /\ current' = NULL /\ counts' = 0 /\ lag' = 0
  /\ UNCHANGED <<timer, scheduler, slock, tlock, sinceRound, call, ops, crashed>>

\* A mutant: the cursor stays where it is.
CursorStays ==
  IF list.count <= 0 \/ table = {} THEN NULL
  ELSE IF cursor = NULL THEN list.first ELSE cursor

\* The node NextTimerObject moves the cursor to.
CursorNext ==
  IF list.count <= 0 \/ table = {} THEN NULL
  ELSE IF cursor = NULL \/ list.next[cursor] = NULL THEN list.first
  ELSE list.next[cursor]

\* A mutant: the scheduler's mutex is kept while the timer is looked at.
NextTimerObjectLocked ==
  /\ ~crashed /\ pc = "fetch" /\ counts > 0 /\ ~closed /\ slock \in {NULL, Ticker}
  /\ cursor' = CursorNext /\ current' = CursorNext
  /\ counts' = counts - 1
  /\ pc' = IF CursorNext = NULL THEN "fetch" ELSE "look"
  /\ slock' = Ticker
  /\ UNCHANGED <<timer, list, table, minPeriod, closed, tlock, clock, call,
                 ops, crashed>>

NextTimerObject ==
  /\ ~crashed /\ pc = "fetch" /\ counts > 0 /\ ~closed /\ slock = NULL
  /\ cursor' = CursorNext /\ current' = CursorNext
  /\ counts' = counts - 1
  /\ pc' = IF CursorNext = NULL THEN "fetch" ELSE "look"
  /\ UNCHANGED <<timer, list, table, minPeriod, closed, slock, tlock, clock, call,
                 ops, crashed>>

\* A timer without _last is given one.
Look ==
  /\ ~crashed /\ pc = "look"
  /\ timer' = [timer EXCEPT ![current].age = IF @ = NULL THEN lag ELSE @]
  /\ Goes(IF timer[current].age = NULL THEN "fetch" ELSE "judge")
  /\ UNCHANGED <<scheduler, slock, tlock>>

IsOff(x) == x.interval <= 0 \/ x.disposed \/ ~x.enabled

\* last > ticks || ticks - last >= interval, where last may be 0 again by now.
IsDue(x) == x.age = NULL \/ x.age < lag \/ x.age - lag >= x.interval

JudgeOff ==
  /\ ~crashed /\ pc = "judge" /\ IsOff(timer[current])
  /\ Goes("stop")
  /\ UNCHANGED <<timer, scheduler, slock, tlock>>

JudgeDue ==
  /\ ~crashed /\ pc = "judge" /\ ~IsOff(timer[current]) /\ IsDue(timer[current])
  /\ timer' = [timer EXCEPT ![current].age = lag]
  /\ Goes("ask")
  /\ UNCHANGED <<scheduler, slock, tlock>>

JudgeEarly ==
  /\ ~crashed /\ pc = "judge" /\ ~IsOff(timer[current]) /\ ~IsDue(timer[current])
  /\ Goes("fetch")
  /\ UNCHANGED <<timer, scheduler, slock, tlock>>

\* Timer::DoTick asks under the timer's mutex and calls back without it.
DoTick ==
  /\ ~crashed /\ pc = "ask" /\ tlock[current] = NULL
  /\ Goes(IF timer[current].enabled THEN "callback" ELSE "stop")
  /\ UNCHANGED <<timer, scheduler, slock, tlock>>

CallbackEnds ==
  /\ ~crashed /\ pc = "callback" /\ call[Ticker] = NoCall
  /\ Goes("fetch")
  /\ UNCHANGED <<timer, scheduler, slock, tlock>>

\* TimerScheduler::Stop of a timer found to be off: the scheduler's mutex,
StaleStop ==
  /\ ~crashed /\ pc = "stop" /\ slock = NULL
  /\ IF closed THEN Goes("fetch") /\ UNCHANGED slock
     ELSE Goes("stopping") /\ slock' = Ticker
  /\ UNCHANGED <<timer, scheduler, tlock>>

\* and then the timer's.
StaleStopEnds ==
  /\ ~crashed /\ pc = "stopping" /\ tlock[current] = NULL
  /\ IF RemoveFaults(list, current)
       THEN crashed' = TRUE /\ UNCHANGED <<timer, scheduler>>
       ELSE /\ SchedulerStop(current)
            /\ timer' = [timer EXCEPT ![current].enabled = FALSE, ![current].age = NULL]
            /\ UNCHANGED <<closed, crashed>>
  /\ slock' = NULL /\ pc' = "fetch"
  /\ UNCHANGED <<tlock, current, counts, clock, call, ops>>

\* Time passes; how old a thing is matters up to the longest interval.
Older(n, max) == IF n < max THEN n + 1 ELSE n
Elapse ==
  /\ ~crashed
  /\ pc # "idle" => lag < MaxLag
  /\ timer' = [t \in Timers |->
                 [timer[t] EXCEPT !.age = IF @ = NULL THEN @ ELSE Older(@, MaxAge)]]
  /\ lag' = IF pc = "idle" THEN lag ELSE lag + 1
  /\ sinceRound' = Older(sinceRound, MaxInterval)
  /\ UNCHANGED <<scheduler, slock, tlock, round, call, ops, crashed>>

--------------------------------------------------------------------------------
Call(th) ==
  \E t \in Timers : Start(th, t) \/ Stop(th, t) \/ SetInterval(th, t) \/ Dispose(th, t)

Return(th) == StartEnds(th) \/ StopEnds(th) \/ CloseStops(th) \/ CloseEnds(th)

Round ==
  \/ DoEvents \/ RoundEnds \/ NextTimerObject \/ Look
  \/ JudgeOff \/ JudgeDue \/ JudgeEarly
  \/ DoTick \/ CallbackEnds \/ StaleStop \/ StaleStopEnds

Next ==
  \/ \E th \in Threads : Call(th) \/ Return(th)
  \/ \E u \in Users : Close(u)
  \/ Round
  \/ Elapse

\* The hosting drives the scheduler for ever, calls that have a mutex to wait
\* for get it once it is free, and time passes.
Fairness ==
  /\ WF_vars(Round) /\ WF_vars(Elapse)
  /\ WF_vars(\E th \in Threads : Return(th))

Spec == Init /\ [][Next]_vars /\ Fairness

--------------------------------------------------------------------------------
Free(t) == slock = NULL /\ tlock[t] = NULL

\* The list chains exactly the timers of the table, each once, the cursor is one
\* of them, and a timer that nobody is starting or stopping is enabled if and
\* only if it is there, whatever threads and callbacks start, stop and dispose.
InStep ==
  /\ \E place \in [table -> 1 .. list.count] :
       /\ \A i \in 1 .. list.count : \E t \in table : place[t] = i
       /\ \A t \in table : /\ place[t] = 1 <=> t = list.first
                           /\ place[t] = list.count <=> t = list.last
       /\ \A s, t \in table : /\ place[s] = place[t] => s = t
                              /\ list.next[s] = t <=> place[t] = place[s] + 1
                              /\ list.prev[t] = s <=> place[t] = place[s] + 1
  /\ cursor \in table \cup {NULL}
  /\ \A t \in Timers : Free(t) => (timer[t].enabled <=> t \in table)

\* th cannot go on before other gives a mutex back.
WaitsFor(th, other) ==
  \/ call[th].op \in {"start", "stop", "interval", "dispose"} /\ slock = other
  \/ /\ call[th].op = "close"
     /\ \/ list.first # NULL /\ tlock[list.first] = other
        \/ list.first = NULL /\ other = Ticker /\ pc # "idle"
  \/ /\ th = Ticker
     /\ \/ pc \in {"idle", "fetch", "stop"} /\ slock = other
        \/ pc \in {"ask", "stopping"} /\ tlock[current] = other

Stuck == \E a, b \in Threads : a # b /\ WaitsFor(a, b) /\ WaitsFor(b, a)

\* Although timers and scheduler lock each other in opposite orders, threads
\* come to wait for each other in two cases only: the round stops a timer that
\* it found off while another thread is in a call on that very timer, or the
\* scheduler is disposed during a round or a call.
StuckOnlyAtStaleStop ==
  Stuck => \/ pc = "stopping" /\ \E u \in Users : call[u].timer = current
           \/ \E u \in Users : call[u].op = "close"

\* The list and the cursor are a queue of timers and a position in it.
Queue == INSTANCE TimerQueue WITH queue <- Walk(list)
QueueSpec == Queue!Spec

\* A timer that stays started ticks, although stopping the timer under the
\* cursor lets a round pass over the one behind it; unless threads are stuck.
\* One timer stands for all, which differ in nothing.
Ticks ==
  LET t == CHOOSE t \in Timers : TRUE
  IN  t \in table ~> \/ pc = "callback" /\ current = t
                     \/ t \notin table \/ Stuck \/ crashed
================================================================================
