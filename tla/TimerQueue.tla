----------------------------- MODULE TimerQueue -----------------------------
(***************************************************************************)
(* What the timer scheduler promises of its list and its cursor: a queue   *)
(* of timers, each in it once, in the order in which they were started,    *)
(* and a cursor that goes around it.  A timer that is stopped under the    *)
(* cursor leaves the cursor at the one behind it.                          *)
(***************************************************************************)
EXTENDS Integers, Sequences, SequencesExt

CONSTANTS Timers, NULL

VARIABLES
  queue,    \* the started timers
  cursor    \* the timer looked at last, or NULL

\* The timer behind the i-th, the first one behind the last.
Behind(i) == queue[IF i = Len(queue) THEN 1 ELSE i + 1]

Init == queue = <<>> /\ cursor = NULL

Start(t) ==
  /\ \A i \in DOMAIN queue : queue[i] # t
  /\ queue' = Append(queue, t)
  /\ cursor' = IF queue = <<>> THEN NULL ELSE cursor

\* The i-th timer is stopped.
Stop(i) ==
  /\ queue' = RemoveAt(queue, i)
  /\ cursor' = IF Len(queue) = 1 THEN NULL
               ELSE IF cursor = queue[i] THEN Behind(i) ELSE cursor

MoveOn ==
  /\ UNCHANGED queue
  /\ \/ cursor = NULL /\ queue # <<>> /\ cursor' = queue[1]
     \/ \E i \in DOMAIN queue : cursor = queue[i] /\ cursor' = Behind(i)

\* The scheduler is being disposed.
LetGo == cursor' = NULL /\ UNCHANGED queue

Next ==
  \/ \E t \in Timers : Start(t)
  \/ \E i \in DOMAIN queue : Stop(i)
  \/ MoveOn \/ LetGo

Spec == Init /\ [][Next]_<<queue, cursor>>
================================================================================
