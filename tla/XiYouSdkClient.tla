---------------------------- MODULE XiYouSdkClient ----------------------------
(***************************************************************************)
(* XiYouSdkClient over SocketClient: one connection to the service, which  *)
(* is opened again when it is lost, and a table of calls that wait for an  *)
(* answer, are sent again and time out.                                    *)
(*                                                                         *)
(* Everything runs on the thread that calls DoEvents.  DoEvents is three   *)
(* steps: the table of calls, silence and heartbeat, the socket; `pc` is   *)
(* the next of them.  The application calls between the steps: before      *)
(* DoEvents or from the event that ends a step.  In the middle of a step   *)
(* it may dispose the client when it hears that the link is lost (Lost);   *)
(* it does not while ProcessTimeout is going through the table, which      *)
(* disposal would empty under the iterator.                                *)
(* Times are ages, counted up to the constant they are compared with.      *)
(***************************************************************************)
EXTENDS Integers, FiniteSets

CONSTANTS
  Calls,              \* sequence numbers (SocketMessage::NewId)
  RetryCount,         \* GetRetryCount of each call's handler
  CallTimeout,        \* GetTimeout of the handlers
  TimeoutInterval,    \* GetTimeoutInterval
  MaxSilence,         \* GetMaxSilencingTime
  HeartbeatInterval,
  ConnectTimeout, ReconnectDelay,
  Faults              \* which may happen: "send", "reset", "clock"

ASSUME SdkAssumption ==
  /\ RetryCount \in [Calls -> Nat]
  /\ CallTimeout \in Nat \ {0} /\ TimeoutInterval \in Nat
  /\ MaxSilence \in Nat \ {0} /\ HeartbeatInterval \in Nat \ {0}
  /\ ConnectTimeout \in Nat \ {0} /\ ReconnectDelay \in Nat \ {0}
  /\ Faults \subseteq {"send", "reset", "clock"}

VARIABLES
  link,    \* m_State, m_LastCountTime, m_LastActivityTime, m_LastHeartbeatTime,
           \* and the last event the application was told
  swept,   \* since m_LastTimeoutTime
  calls,   \* m_SocketInvokes
  asked,   \* copies of each call the service has and may answer
  told,    \* history: how often each call's callback ran
  pc

vars == <<link, swept, calls, asked, told, pc>>

Never == -1   \* a time that is zero

CountLimit == IF ConnectTimeout > ReconnectDelay THEN ConnectTimeout ELSE ReconnectDelay

Link == [state     : {"Default", "Connecting", "Connected", "Disconnect", "CleanUp"},
         counted   : 0..CountLimit,
         activity  : 0..MaxSilence \cup {Never},
         heartbeat : 0..HeartbeatInterval \cup {Never},
         event     : {"none", "open", "late", "gone", "closed"}]

Call == [status : {"new", "refused", "pending", "done"},
         age    : 0..CallTimeout,
         tried  : Nat]

TypeOK ==
  /\ link \in Link
  /\ swept \in 0..TimeoutInterval
  /\ calls \in [Calls -> Call]
  /\ asked \in [Calls -> Nat]
  /\ told \in [Calls -> Nat]
  /\ pc \in {"table", "silence", "socket"}
  /\ \A c \in Calls : calls[c].tried <= RetryCount[c] /\ asked[c] <= calls[c].tried + 1

Init ==
  /\ link = [state |-> "Default", counted |-> 0, activity |-> Never,
             heartbeat |-> Never, event |-> "none"]
  /\ swept = 0
  /\ calls = [c \in Calls |-> [status |-> "new", age |-> 0, tried |-> 0]]
  /\ asked = [c \in Calls |-> 0] /\ told = [c \in Calls |-> 0]
  /\ pc = "table"

-----------------------------------------------------------------------------
(* The link.                                                               *)

Connected == link.state = "Connected"
HasSocket(l) == l.state \in {"Connecting", "Connected"}

\* CloseOrAbort with OnError and OnClose, which forget the times.
Closed(l) ==
  IF HasSocket(l)
    THEN [l EXCEPT !.state = "Disconnect", !.counted = 0,
                   !.activity = Never, !.heartbeat = Never, !.event = "closed"]
    ELSE [l EXCEPT !.state = "Disconnect", !.counted = 0]

\* ProcessConnected and OnOpen: the first message is sent before the times are
\* set and the application is told.
OpenedWell(l) ==
  [l EXCEPT !.state = "Connected", !.activity = 0, !.heartbeat = 0, !.event = "open"]

\* Mutant: the times are not reset.
CleanedUpTimed(l) == [Closed(l) EXCEPT !.state = "CleanUp"]

\* What Dispose makes of a link.
CleanedUp(l) ==
  [Closed([l EXCEPT !.activity = Never, !.heartbeat = Never]) EXCEPT !.state = "CleanUp"]

\* A link is lost in the middle of a step: the application hears of it and may
\* dispose the client before the step goes on.
Lost(l) == {Closed(l), CleanedUp(Closed(l))}

\* The first message cannot be sent: the link is closed, or the client even
\* disposed, and then all is done as if it were open.
Late(l) == [l EXCEPT !.activity = 0, !.heartbeat = 0,
                     !.event = IF l.state = "CleanUp" THEN "gone" ELSE "late"]
OpenedLate(l) == {Late(k) : k \in Lost([l EXCEPT !.state = "Connected"])}

Become(l) ==
  /\ link' = l
  /\ asked' = IF l.state = "Connected" THEN asked ELSE [c \in Calls |-> 0]

\* A message of a connected client may fail to be sent, which closes the link.
SendMayFail == Connected /\ "send" \in Faults

-----------------------------------------------------------------------------
(* The table of calls.                                                     *)

Pending == {c \in Calls : calls[c].status = "pending"}

\* Disposal drops whatever is in the table without a word.
Disposing == link.state # "CleanUp" /\ link'.state = "CleanUp"
Dropped == [c \in Calls |->
  IF c \in Pending THEN [calls[c] EXCEPT !.status = "done"] ELSE calls[c]]

\* A step may dispose the client, and does nothing else to the table.
TableKept ==
  /\ swept' = IF Disposing THEN TimeoutInterval ELSE swept
  /\ calls' = IF Disposing THEN Dropped ELSE calls
  /\ UNCHANGED told

\* Mutant: calls time out only while there is a connection.
ExpiredConnected == {c \in Pending : Connected /\ calls[c].age >= CallTimeout}

Expired == {c \in Pending : calls[c].age >= CallTimeout}

\* Those that are sent again instead.
Again == {c \in Expired : RetryCount[c] > calls[c].tried}

Over == Expired \ Again

\* ProcessTimeout.
ProcessTimeout ==
  /\ pc = "table" /\ pc' = "silence"
  /\ IF swept < TimeoutInterval THEN UNCHANGED <<link, swept, calls, asked, told>> ELSE
       /\ swept' = 0
       /\ told' = [c \in Calls |-> IF c \in Over THEN told[c] + 1 ELSE told[c]]
       /\ calls' = [c \in Calls |->
            IF c \in Over THEN [calls[c] EXCEPT !.status = "done"]
            ELSE IF c \in Again THEN [calls[c] EXCEPT !.age = 0, !.tried = @ + 1]
            ELSE calls[c]]
       /\ \/ /\ asked' = [c \in Calls |->
                  IF c \in Again /\ Connected THEN asked[c] + 1 ELSE asked[c]]
             /\ UNCHANGED link
          \/ Again # {} /\ SendMayFail /\ Become(Closed(link))

\* InvokeAsync, when the call has been sent, or not: one that may be sent again
\* is kept all the same, also by a client its failure disposed.
Kept(c, sent) ==
  /\ swept' = IF Disposing THEN TimeoutInterval ELSE swept
  /\ calls' = [(IF Disposing THEN Dropped ELSE calls) EXCEPT ![c].status =
       IF sent \/ RetryCount[c] > 0 THEN "pending" ELSE "refused"]

InvokeAsync(c) ==
  /\ calls[c].status = "new" /\ link.state # "CleanUp"
  /\ \/ Connected /\ asked' = [asked EXCEPT ![c] = @ + 1] /\ UNCHANGED link /\ Kept(c, TRUE)
     \/ SendMayFail /\ (\E l \in Lost(link) : Become(l)) /\ Kept(c, FALSE)
     \/ ~Connected /\ UNCHANGED <<asked, link>> /\ Kept(c, FALSE)
  /\ UNCHANGED <<told, pc>>

-----------------------------------------------------------------------------
(* Silence and heartbeat.                                                  *)

Silent == link.activity # Never /\ link.activity >= MaxSilence
HeartbeatDue == link.heartbeat # Never /\ link.heartbeat >= HeartbeatInterval

\* The time of the heartbeat is set though sending it may have closed the link or
\* disposed the client, and whether there is a link or not.
CheckSilence ==
  /\ pc = "silence" /\ pc' = "socket"
  /\ \/ Silent /\ Become(Closed(link))
     \/ /\ ~Silent /\ HeartbeatDue
        /\ \/ Become([link EXCEPT !.heartbeat = 0])
           \/ SendMayFail /\ \E l \in Lost(link) : Become([l EXCEPT !.heartbeat = 0])
     \/ ~Silent /\ ~HeartbeatDue /\ UNCHANGED <<link, asked>>
  /\ TableKept

-----------------------------------------------------------------------------
(* The socket.                                                             *)

InSocket(state) == pc = "socket" /\ link.state = state

\* ConnectSocket, from the state Default: under way, at once, or not at all, in
\* which case CloseOrAbort does not find the new socket.
Connecting(l) == [l EXCEPT !.state = "Connecting", !.counted = 0]
Opened == {OpenedWell(link)} \cup (IF "send" \in Faults THEN OpenedLate(link) ELSE {})

\* Mutant: what Open returns is not looked at.
FailedToOpenUnnoticed(l) == [l EXCEPT !.state = "Default"]

FailedToOpen(l) == Closed([l EXCEPT !.state = "Default"])

OpenSocket ==
  \E l \in {Connecting(link), FailedToOpen(link)} \cup Opened : Become(l)

Connects ==
  /\ InSocket("Connecting") /\ link.counted < ConnectTimeout
  /\ \E l \in Opened : Become(l)

ConnectFails == InSocket("Connecting") /\ Become(Closed(link))

StillConnecting ==
  /\ InSocket("Connecting") /\ link.counted < ConnectTimeout
  /\ UNCHANGED <<link, asked>>

\* The peer has closed the connection.
ReadsEnd == InSocket("Connected") /\ "reset" \in Faults /\ Become(Closed(link))

ReconnectDue == InSocket("Disconnect") /\ link.counted >= ReconnectDelay
Reconnect == ReconnectDue /\ OpenSocket
ReconnectBegins == ReconnectDue /\ Become(Connecting(link))

NothingToDo ==
  /\ pc = "socket" /\ link.state # "Connecting" /\ ~ReconnectDue
  /\ UNCHANGED <<link, asked>>

\* DoEvents returns.
SocketEvents ==
  /\ Connects \/ ConnectFails \/ StillConnecting \/ ReadsEnd \/ Reconnect \/ NothingToDo
  /\ pc' = "table"
  /\ TableKept

Heard == [link EXCEPT !.activity = 0, !.heartbeat = 0]

\* Mutant: FetchInvokeInfo leaves the call in the table.
FetchInvokeInfoKeeping(c) ==
  IF c \in Pending THEN told' = [told EXCEPT ![c] = @ + 1] /\ UNCHANGED calls
                   ELSE UNCHANGED <<calls, told>>

\* FetchInvokeInfo: an answer that comes late is taken for a request, of which
\* the table knows nothing.
FetchInvokeInfo(c) ==
  IF c \in Pending
    THEN /\ told' = [told EXCEPT ![c] = @ + 1]
         /\ calls' = [calls EXCEPT ![c].status = "done"]
    ELSE UNCHANGED <<calls, told>>

\* OnMessage; DoEvents goes on reading.
ReceiveAnswer(c) ==
  /\ InSocket("Connected") /\ asked[c] > 0
  /\ link' = Heard /\ asked' = [asked EXCEPT ![c] = @ - 1]
  /\ FetchInvokeInfo(c)
  /\ UNCHANGED <<swept, pc>>

ReceiveOther ==
  /\ InSocket("Connected")
  /\ link' = Heard
  /\ UNCHANGED <<swept, calls, asked, told, pc>>

-----------------------------------------------------------------------------
(* The application and time.                                               *)

Open ==
  /\ link.state = "Default"
  /\ OpenSocket /\ TableKept /\ UNCHANGED pc

\* In any state, with or without a socket: a client that was never opened, or
\* that has been disposed, connects after the delay.
Abort == Become(Closed(link)) /\ UNCHANGED <<swept, calls, told, pc>>

Dispose ==
  /\ link.state # "CleanUp"
  /\ Become(CleanedUp(link)) /\ TableKept /\ UNCHANGED pc

Aged(n, limit) == IF n = Never \/ n >= limit THEN n ELSE n + 1

Elapse ==
  /\ link' = [link EXCEPT
       !.counted = IF @ < CountLimit /\ link.state \in {"Connecting", "Disconnect"}
                     THEN @ + 1 ELSE @,
       !.activity = Aged(@, MaxSilence), !.heartbeat = Aged(@, HeartbeatInterval)]
  /\ swept' = Aged(swept, TimeoutInterval)
  /\ calls' = [c \in Calls |->
       IF c \in Pending THEN [calls[c] EXCEPT !.age = Aged(@, CallTimeout)] ELSE calls[c]]
  /\ UNCHANGED <<asked, told, pc>>

\* The wall clock goes back: differences are unsigned, and all is overdue.
ClockBack ==
  /\ "clock" \in Faults
  /\ link' = [link EXCEPT
       !.counted = IF link.state \in {"Connecting", "Disconnect"} THEN CountLimit ELSE @,
       !.activity = IF @ = Never THEN @ ELSE MaxSilence,
       !.heartbeat = IF @ = Never THEN @ ELSE HeartbeatInterval]
  /\ swept' = TimeoutInterval
  /\ calls' = [c \in Calls |->
       IF c \in Pending THEN [calls[c] EXCEPT !.age = CallTimeout] ELSE calls[c]]
  /\ UNCHANGED <<asked, told, pc>>

-----------------------------------------------------------------------------
Next ==
  \/ ProcessTimeout \/ CheckSilence \/ SocketEvents
  \/ \E c \in Calls : InvokeAsync(c) \/ ReceiveAnswer(c)
  \/ ReceiveOther \/ Open \/ Abort \/ Dispose \/ Elapse \/ ClockBack

\* DoEvents is called again and again and returns, and time passes.  To connect
\* again is not impossible for ever.
Fairness ==
  /\ WF_vars(ProcessTimeout) /\ WF_vars(CheckSilence) /\ WF_vars(SocketEvents)
  /\ WF_vars(Elapse)
  /\ SF_vars(ReconnectBegins /\ SocketEvents)

Safe == Init /\ [][Next]_vars
Spec == Safe /\ Fairness

-----------------------------------------------------------------------------
(* Properties.                                                             *)

\* However often a call is sent and answered, its callback runs once at most,
\* and not while the call may still be answered or time out (FetchInvokeInfo,
\* ProcessTimeout).
OneOutcome ==
  \A c \in Calls : /\ told[c] <= 1
                   /\ told[c] = 1 => calls[c].status = "done"

\* A call that was accepted is answered, times out or is dropped by Dispose,
\* whatever becomes of the link.
CallDecided == \A c \in Calls : c \in Pending ~> c \notin Pending

\* A disposed client connects again in two cases only, though the check of
\* silence goes on and CloseOrAbort makes any state one that connects again: the
\* application aborts it, or it was disposed from the error of its first message,
\* after which OnOpen sets the times (Dispose, OnOpen).
DisposedForGood ==
  [][link.state = "CleanUp" /\ link'.state # "CleanUp"
       => Abort \/ link.event = "gone"]_vars

\* A link that was lost comes back if connecting is not in vain for ever and the
\* application does not abort for ever, unless it was told too late (OnOpen): then
\* the times run without a link and each DoEvents restarts the delay.
Reconnects ==
  (<>[][~Abort]_vars /\ ([]<>(link.state = "Connecting") => []<>Connected)) =>
    (link.state \in {"Connecting", "Disconnect"}
       ~> (Connected \/ link.state = "CleanUp" \/ link.event \in {"late", "gone"}))
=============================================================================
