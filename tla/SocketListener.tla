--------------------------- MODULE SocketListener ---------------------------
(***************************************************************************)
(* The two listeners of a StageSocketCommunication, from the port to the   *)
(* socket with its handler: stage/net/SocketListener.cpp,                  *)
(* stage/stage/StageSocketListener.cpp and the parts of                    *)
(* StageSocketCommunication.cpp that start and end them.                   *)
(*                                                                         *)
(* Three parties interleave.  The application calls Listen and Dispose of  *)
(* the communication, one at a time (its mutex), and each takes the mutex  *)
(* of one listener after the other.  A worker thread runs the accept       *)
(* callbacks of both listeners, one at a time (the strand), and takes a    *)
(* listener's mutex only for single questions.  Peers connect, and may     *)
(* reset the connection at any moment.                                     *)
(*                                                                         *)
(* The source's constant answers (no delay, transparent, mask) and the     *)
(* length of the kernel's queue are left out; MaxListens bounds the calls  *)
(* of Listen and MaxErrors the accepts the operating system fails.         *)
(***************************************************************************)
EXTENDS Integers, FiniteSets

CONSTANTS Peers,        \* connections that may arrive
          Port,         \* Port[p]: the listener p connects to
          NoPeer,       \* the callback of a failed accept has no connection
          MaxListens, MaxErrors

Listeners == {"client", "server"}

ASSUME PeersFinite == IsFiniteSet(Peers)
ASSUME PortAssumption == Port \in [Peers -> Listeners]
ASSUME NoPeerAssumption == NoPeer \notin Peers
ASSUME BoundsAssumption == MaxListens \in Nat /\ MaxErrors \in Nat

VARIABLES
  alive,      \* the process has not been ended by an escaped exception
  app,        \* where the application is in Listen or Dispose
  closed,     \* _disposed of the communication
  listens,    \* calls of Listen so far: the listeners exist from the first on
  opened,     \* _server holds an open acceptor
  listening,  \* _listening
  disposed,   \* _disposed of the listener; its _hosting is null from then on
  handler,    \* _socketHandler has been made
  waiting,    \* accepts the acceptor has outstanding
  failed,     \* completed accepts without a connection, posted to the strand
  errors,     \* accepts the operating system has failed
  place,      \* where each connection is
  gone,       \* connections reset by the peer
  handled,    \* open sockets that were given a handler
  callback    \* the accept callback on the strand

appVars == <<app, closed, listens>>
listenerVars == <<opened, listening, disposed, handler>>
peerVars == <<place, gone, handled>>
vars == <<alive, appVars, listenerVars, waiting, failed, errors, peerVars,
          callback>>

Stages == {"idle", "check", "make", "again"}
Answers == {"unread", "null", "object"}
Places == {"away", "backlog", "accepted", "held", "open", "refused"}

NoCallback == [at |-> "idle", listener |-> "client", peer |-> NoPeer,
               hosting |-> "unread", handler |-> "unread"]

At(q, l) == {p \in Peers : place[p] = q /\ Port[p] = l}

AppType ==
  /\ alive \in BOOLEAN /\ closed \in BOOLEAN
  /\ app \in {"idle", "listen client", "listen server",
              "dispose client", "dispose server"}
  /\ listens \in 0 .. MaxListens

ListenerType ==
  /\ opened \in [Listeners -> BOOLEAN]
  /\ listening \in [Listeners -> BOOLEAN]
  /\ disposed \in [Listeners -> BOOLEAN]
  /\ handler \in [Listeners -> BOOLEAN]

AcceptType ==
  /\ waiting \in [Listeners -> Nat]
  /\ failed \in [Listeners -> Nat]
  /\ errors \in 0 .. MaxErrors

PeerType ==
  /\ place \in [Peers -> Places]
  /\ gone \subseteq Peers /\ handled \subseteq Peers

CallbackType ==
  callback \in [at : Stages, listener : Listeners, peer : Peers \cup {NoPeer},
                hosting : Answers, handler : Answers]

TypeOK == AppType /\ ListenerType /\ AcceptType /\ PeerType /\ CallbackType

Init ==
  /\ alive = TRUE /\ app = "idle" /\ closed = FALSE /\ listens = 0
  /\ opened = [l \in Listeners |-> FALSE]
  /\ listening = [l \in Listeners |-> FALSE]
  /\ disposed = [l \in Listeners |-> FALSE]
  /\ handler = [l \in Listeners |-> FALSE]
  /\ waiting = [l \in Listeners |-> 0]
  /\ failed = [l \in Listeners |-> 0]
  /\ errors = 0
  /\ place = [p \in Peers |-> "away"]
  /\ gone = {} /\ handled = {}
  /\ callback = NoCallback

-----------------------------------------------------------------------------
(* StartAccpet: one more accept, unless the listener has been disposed.    *)

\* A mutant: the test of _disposed is missing.
AcceptsAnyway(l) == 1

AcceptsAfter(l) == IF disposed[l] THEN 0 ELSE 1

StartAccpet(l) == waiting' = [waiting EXCEPT ![l] = @ + AcceptsAfter(l)]

-----------------------------------------------------------------------------
(* The application.                                                        *)

\* The sendback controller and the listeners are made if they are not there.
CommunicationListen ==
  /\ alive /\ app = "idle" /\ ~closed /\ listens < MaxListens
  /\ listens' = listens + 1
  /\ app' = "listen client"
  /\ UNCHANGED <<alive, closed, listenerVars, waiting, failed, errors,
                 peerVars, callback>>

\* What follows a listener that has begun to listen.
AfterListen(l) == IF l = "client" THEN "listen server" ELSE "idle"

Turn(l) == IF l = "client" THEN "listen client" ELSE "listen server"

CanListen(l) == ~listening[l] /\ ~disposed[l] /\ ~opened[l]

Listen(l) ==
  /\ alive /\ app = Turn(l) /\ CanListen(l)
  /\ opened' = [opened EXCEPT ![l] = TRUE]
  /\ listening' = [listening EXCEPT ![l] = TRUE]
  /\ StartAccpet(l)
  /\ app' = AfterListen(l)
  /\ UNCHANGED <<alive, closed, listens, disposed, handler, failed, errors,
                 peerVars, callback>>

\* The port is taken: bind throws when the acceptor is already open.
ListenBindFails(l) ==
  /\ alive /\ app = Turn(l) /\ CanListen(l)
  /\ opened' = [opened EXCEPT ![l] = TRUE]
  /\ app' = "idle"
  /\ UNCHANGED <<alive, closed, listens, listening, disposed, handler, waiting,
                 failed, errors, peerVars, callback>>

\* It listens already (FALSE, which the communication turns into an
\* exception), or a failed bind has left the acceptor open (open throws).
ListenRefused(l) ==
  /\ alive /\ app = Turn(l) /\ ~CanListen(l)
  /\ app' = "idle"
  /\ UNCHANGED <<alive, closed, listens, listenerVars, waiting, failed, errors,
                 peerVars, callback>>

CommunicationDispose ==
  /\ alive /\ app = "idle" /\ ~closed
  /\ closed' = TRUE
  /\ app' = IF listens = 0 THEN "idle" ELSE "dispose client"
  /\ UNCHANGED <<alive, listens, listenerVars, waiting, failed, errors,
                 peerVars, callback>>

\* The outstanding accept completes as aborted, the kernel refuses those
\* nobody has accepted, the handler and the hosting are let go.
Dispose(l) ==
  /\ alive
  /\ app = IF l = "client" THEN "dispose client" ELSE "dispose server"
  /\ app' = IF l = "client" THEN "dispose server" ELSE "idle"
  /\ disposed' = [disposed EXCEPT ![l] = TRUE]
  /\ listening' = [listening EXCEPT ![l] = FALSE]
  /\ opened' = [opened EXCEPT ![l] = FALSE]
  /\ handler' = [handler EXCEPT ![l] = FALSE]
  /\ failed' = [failed EXCEPT ![l] = @ + waiting[l]]
  /\ waiting' = [waiting EXCEPT ![l] = 0]
  /\ place' = [p \in Peers |->
                 IF p \in At("backlog", l) THEN "refused" ELSE place[p]]
  /\ UNCHANGED <<alive, closed, listens, errors, gone, handled, callback>>

-----------------------------------------------------------------------------
(* The peers and the operating system.                                     *)

Connect(p) ==
  /\ alive /\ place[p] = "away" /\ listening[Port[p]]
  /\ place' = [place EXCEPT ![p] = "backlog"]
  /\ UNCHANGED <<alive, appVars, listenerVars, waiting, failed, errors, gone,
                 handled, callback>>

Reset(p) ==
  /\ alive /\ place[p] \in {"backlog", "accepted", "held"} /\ p \notin gone
  /\ gone' = gone \cup {p}
  /\ UNCHANGED <<alive, appVars, listenerVars, waiting, failed, errors, place,
                 handled, callback>>

Accepted(p) ==
  /\ alive /\ place[p] = "backlog" /\ waiting[Port[p]] > 0
  /\ waiting' = [waiting EXCEPT ![Port[p]] = @ - 1]
  /\ place' = [place EXCEPT ![p] = "accepted"]
  /\ UNCHANGED <<alive, appVars, listenerVars, failed, errors, gone, handled,
                 callback>>

AcceptFails(l) ==
  /\ alive /\ waiting[l] > 0 /\ errors < MaxErrors
  /\ errors' = errors + 1
  /\ waiting' = [waiting EXCEPT ![l] = @ - 1]
  /\ failed' = [failed EXCEPT ![l] = @ + 1]
  /\ UNCHANGED <<alive, appVars, listenerVars, peerVars, callback>>

-----------------------------------------------------------------------------
(* The accept callback, step by step: between any two of them the          *)
(* application may dispose the listener and the peer may reset.            *)

\* A mutant: a failed accept is not followed by another.
CallbackGivesUp(l) ==
  /\ alive /\ callback.at = "idle" /\ failed[l] > 0
  /\ failed' = [failed EXCEPT ![l] = @ - 1]
  /\ UNCHANGED <<alive, appVars, listenerVars, waiting, errors, peerVars,
                 callback>>

CallbackFailed(l) ==
  /\ alive /\ callback.at = "idle" /\ failed[l] > 0
  /\ failed' = [failed EXCEPT ![l] = @ - 1]
  /\ callback' = [NoCallback EXCEPT !.at = "again", !.listener = l]
  /\ UNCHANGED <<alive, appVars, listenerVars, waiting, errors, peerVars>>

CallbackBegins(p) ==
  /\ alive /\ callback.at = "idle" /\ place[p] = "accepted"
  /\ place' = [place EXCEPT ![p] = "held"]
  /\ callback' = [NoCallback EXCEPT !.at = "check", !.listener = Port[p],
                                    !.peer = p]
  /\ UNCHANGED <<alive, appVars, listenerVars, waiting, failed, errors, gone,
                 handled>>

IsDisposed ==
  /\ alive /\ callback.at = "check" /\ ~disposed[callback.listener]
  /\ callback' = [callback EXCEPT !.at = "make"]
  /\ UNCHANGED <<alive, appVars, listenerVars, waiting, failed, errors,
                 peerVars>>

\* A mutant: a refused connection is not followed by another accept.
CallbackReturns ==
  /\ alive /\ callback.at = "check"
  /\ disposed[callback.listener] \/ callback.peer \in gone
  /\ place' = [place EXCEPT ![callback.peer] = "refused"]
  /\ callback' = NoCallback
  /\ UNCHANGED <<alive, appVars, listenerVars, waiting, failed, errors, gone,
                 handled>>

\* The listener is disposed, or the option cannot be set on a reset
\* connection: the socket object is dropped and its destructor closes it.
CallbackRefuses ==
  /\ alive /\ callback.at = "check"
  /\ disposed[callback.listener] \/ callback.peer \in gone
  /\ place' = [place EXCEPT ![callback.peer] = "refused"]
  /\ callback' = [callback EXCEPT !.at = "again"]
  /\ UNCHANGED <<alive, appVars, listenerVars, waiting, failed, errors, gone,
                 handled>>

\* The two arguments of the socket's constructor are evaluated in either
\* order; this one is read without the listener's mutex.
GetHostingObject ==
  /\ alive /\ callback.at = "make" /\ callback.hosting = "unread"
  /\ callback' = [callback EXCEPT !.hosting =
                    IF disposed[callback.listener] THEN "null" ELSE "object"]
  /\ UNCHANGED <<alive, appVars, listenerVars, waiting, failed, errors,
                 peerVars>>

\* A mutant: the handler is not made when it is first asked for.
HandlerMadeBefore(l) == handler[l]

\* The handler a listener has after it has been asked for it.
HandlerOnDemand(l) == handler[l] \/ ~disposed[l]

GetSocketHandler ==
  LET l == callback.listener IN
  /\ alive /\ callback.at = "make" /\ callback.handler = "unread"
  /\ handler' = [handler EXCEPT ![l] = HandlerOnDemand(l)]
  /\ callback' = [callback EXCEPT !.handler =
                    IF HandlerOnDemand(l) THEN "object" ELSE "null"]
  /\ UNCHANGED <<alive, appVars, opened, listening, disposed, waiting, failed,
                 errors, peerVars>>

Ready == /\ callback.at = "make"
         /\ callback.hosting # "unread" /\ callback.handler # "unread"

ProcessAccept ==
  /\ alive /\ Ready /\ callback.hosting = "object"
  /\ place' = [place EXCEPT ![callback.peer] = "open"]
  /\ handled' = IF callback.handler = "object" THEN handled \cup {callback.peer}
                                               ELSE handled
  /\ callback' = [callback EXCEPT !.at = "again"]
  /\ UNCHANGED <<alive, appVars, listenerVars, waiting, failed, errors, gone>>

\* The constructor throws: no hosting, or no remote endpoint any more.
\* Nothing between it and the worker's loop catches, so the process ends.
ConstructorThrows ==
  /\ alive /\ Ready
  /\ callback.hosting = "null" \/ callback.peer \in gone
  /\ alive' = FALSE
  /\ UNCHANGED <<appVars, listenerVars, waiting, failed, errors, peerVars,
                 callback>>

CallbackEnds ==
  /\ alive /\ callback.at = "again"
  /\ StartAccpet(callback.listener)
  /\ callback' = NoCallback
  /\ UNCHANGED <<alive, appVars, listenerVars, failed, errors, peerVars>>

-----------------------------------------------------------------------------

Application == \/ CommunicationListen \/ CommunicationDispose
               \/ \E l \in Listeners : \/ Listen(l) \/ ListenBindFails(l)
                                       \/ ListenRefused(l) \/ Dispose(l)

Callback == \/ \E l \in Listeners : CallbackFailed(l)
            \/ \E p \in Peers : CallbackBegins(p)
            \/ IsDisposed \/ CallbackRefuses \/ GetHostingObject
            \/ GetSocketHandler \/ ProcessAccept \/ ConstructorThrows
            \/ CallbackEnds

Next == \/ Application \/ Callback
        \/ \E p \in Peers : Connect(p) \/ Reset(p) \/ Accepted(p)
        \/ \E l \in Listeners : AcceptFails(l)

\* A call of the application goes on once it has begun, the kernel hands over
\* what it has queued, and the worker threads run what is posted.
Fairness == /\ WF_vars(app # "idle" /\ Application)
            /\ WF_vars(\E p \in Peers : Accepted(p))
            /\ WF_vars(Callback)

Spec == Init /\ [][Next]_vars /\ Fairness

-----------------------------------------------------------------------------

Running(l) == IF callback.at # "idle" /\ callback.listener = l THEN 1 ELSE 0

Accepts(l) == waiting[l] + failed[l] + Cardinality(At("accepted", l))
                + Running(l)

\* While a listener listens, exactly one accept is outstanding, completed or
\* being handled: whatever a callback meets, it ends by starting the next
\* accept, and never a second one beside it.  A disposed listener keeps at
\* most the one that was under way.
OneAccept ==
  \A l \in Listeners : /\ Accepts(l) \in {0, 1}
                       /\ listening[l] => Accepts(l) = 1

\* A socket that was opened without a handler (it would authenticate anybody
\* and host nobody), and an exception that ended the process, have a cause
\* outside the callback: its listener was disposed under it or, for the
\* exception, the peer had reset the connection.
MadeWhole ==
  /\ \A p \in Peers : place[p] = "open" => p \in handled \/ disposed[Port[p]]
  /\ ~alive => callback.peer \in gone \/ disposed[callback.listener]

\* Every connection the kernel has queued is in the end opened or refused,
\* however the accepts before it ended, unless the process has.
ArrivalsSettled ==
  \A p \in Peers :
    place[p] = "backlog" ~> place[p] \in {"open", "refused"} \/ ~alive

\* A disposed communication comes to rest: no accept is outstanding or posted
\* and no callback runs, and it stays so.
ClosedForGood ==
  closed ~> [](~alive \/ \A l \in Listeners : Accepts(l) = 0)

=============================================================================
