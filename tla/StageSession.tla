----------------------------- MODULE StageSession -----------------------------
(***************************************************************************)
(* StageSocket: the session over one connection, from its opening to its   *)
(* end.  A socket in client mode connects and asks to be authenticated; a  *)
(* socket in serving mode accepts, answers with the key of the session,    *)
(* and both then exchange encrypted messages and heartbeats.  A timer of   *)
(* each socket closes it if authentication takes too long or nothing has   *)
(* been heard for too long.                                                *)
(*                                                                         *)
(* Callbacks of a socket run under its mutex and are single steps.  The    *)
(* timer decides under the mutex, releases it, and aborts afterwards.      *)
(* Time passes in intervals of the timer.  While the system is prompt, a   *)
(* timer is served and a connection accepted within one interval and a     *)
(* frame arrives within Delay; `faulted` tells that something else than    *)
(* prompt, orderly running has happened.                                   *)
(***************************************************************************)
EXTENDS Integers, Sequences

CONSTANTS
  Keys, NoKey,
  AuthWait,           \* GetAuthenticationWaitTime, in intervals of the timer
  MaxInactive,        \* GetMaxInactiveTime
  HeartbeatInterval,  \* GetInitiateHeartbeatIntervalTime
  Delay,              \* what a frame takes at most while the system is prompt
  MaxInFlight,        \* bound: data is sent while fewer frames are under way,
                      \* and time passes late only while no more are
  Faults              \* which of these may happen: "slow", "cut", "reset",
                      \* "clock", "refuse", "close", "stray"

Ends == {"client", "server"}
Peer(e) == IF e = "client" THEN "server" ELSE "client"

ASSUME SessionAssumption ==
  /\ NoKey \notin Keys
  /\ AuthWait \in Nat \ {0} /\ MaxInactive \in Nat \ {0}
  /\ HeartbeatInterval \in Nat \ {0}
  /\ Delay \in Nat /\ MaxInFlight \in Nat
  /\ Faults \subseteq {"slow", "cut", "reset", "clock", "refuse", "close", "stray"}

VARIABLES
  end,      \* the fields of each StageSocket
  wire,     \* frames on their way from each end to the other, oldest first
  cut,      \* the connection has silently stopped carrying anything
  faulted   \* history: something happened that may end a sound session

vars == <<end, wire, cut, faulted>>

End == [phase     : {"new", "opened", "disposed"},
        reading   : BOOLEAN,            \* PullUpListen was called
        recvauth  : BOOLEAN,            \* _recvauthAAA
        establish : BOOLEAN,
        key       : Keys \cup {NoKey},  \* _key, _subtract and _modVt
        waited    : 0..AuthWait,        \* since _waitAuthAAAStartTime
        idle      : 0..MaxInactive,     \* since _lastActivityTime
        beat      : 0..HeartbeatInterval,  \* since _lastInitiateHeartbeatTime
        ticked    : BOOLEAN,            \* the timer ran in this interval
        closing   : BOOLEAN]            \* it decided to abort and has not yet

Frame == [kind : {"request", "response", "refusal", "heartbeat", "data"},
          key  : Keys \cup {NoKey},     \* response: the session's; data: used
          age  : 0..Delay]

New == [phase |-> "new", reading |-> FALSE, recvauth |-> FALSE,
        establish |-> FALSE, key |-> NoKey, waited |-> 0, idle |-> 0,
        beat |-> 0, ticked |-> FALSE, closing |-> FALSE]

\* CloseOrAbort and Dispose: nothing of the session is left.
Disposed == [New EXCEPT !.phase = "disposed"]

TypeOK ==
  /\ end \in [Ends -> End]
  /\ wire \in [Ends -> Seq(Frame)]
  /\ cut \in BOOLEAN /\ faulted \in BOOLEAN

Init ==
  /\ end = [e \in Ends |-> New]
  /\ wire = [e \in Ends |-> <<>>]
  /\ cut = FALSE /\ faulted = FALSE

-----------------------------------------------------------------------------
(* The connection.                                                         *)

Is(e, phase) == end[e].phase = phase

\* What e sends is under way unless nothing arrives or nobody reads any more.
Sent(e, kind, k) ==
  IF cut \/ Is(Peer(e), "disposed")
    THEN <<>>
    ELSE <<[kind |-> kind, key |-> k, age |-> 0]>>

Send(e, kind, k) == wire' = [wire EXCEPT ![e] = @ \o Sent(e, kind, k)]

\* e reads the frame its peer sent first, and sends what `reply` holds.
Receive(e, reply) ==
  wire' = [wire EXCEPT ![Peer(e)] = Tail(@), ![e] = @ \o reply]

\* e is disposed; what it has sent may still arrive.
Abort(e) ==
  /\ end' = [end EXCEPT ![e] = Disposed]
  /\ wire' = [wire EXCEPT ![Peer(e)] = <<>>]

\* The next frame for e, if it reads.
Incoming(e, kinds) ==
  /\ Is(e, "opened") /\ end[e].reading /\ wire[Peer(e)] # <<>>
  /\ Head(wire[Peer(e)]).kind \in kinds

Heard(e) == [end[e] EXCEPT !.idle = 0]

-----------------------------------------------------------------------------
(* Opening.                                                                *)

\* Open in client mode: the timer starts before the connection is attempted.
ClientOpen ==
  /\ Is("client", "new")
  /\ end' = [end EXCEPT !["client"].phase = "opened"]
  /\ UNCHANGED <<wire, cut, faulted>>

\* The callback of async_connect: ask to be authenticated, then listen.
ClientConnected ==
  /\ Is("client", "opened") /\ ~end["client"].reading /\ ~cut
  /\ end' = [end EXCEPT !["client"].reading = TRUE]
  /\ Send("client", "request", NoKey)
  /\ UNCHANGED <<cut, faulted>>

\* A connection is accepted whatever has become of the other end since.
ServerAccept ==
  /\ Is("server", "new") /\ ~Is("client", "new")
  /\ end' = [end EXCEPT !["server"].phase = "opened", !["server"].reading = TRUE]
  /\ UNCHANGED <<wire, cut, faulted>>

-----------------------------------------------------------------------------
(* ProcessInput.                                                           *)

\* A frame that is out of place in the state of the socket ends the session:
\* anything but a first authentication before, authentication after.
ReceiveUnexpected(e) ==
  /\ \/ ~end[e].establish /\ Incoming(e, {"heartbeat", "data"})
     \/ (end[e].establish \/ end[e].recvauth)
          /\ Incoming(e, {"request", "response", "refusal"})
  /\ Abort(e)
  /\ UNCHANGED <<cut, faulted>>

AwaitsAuth(e) == ~end[e].establish /\ ~end[e].recvauth

\* Mutant: a key is generated for the answer and another one for the session.
ReceiveRequestTwoKeys ==
  /\ AwaitsAuth("server") /\ Incoming("server", {"request"})
  /\ \E k, l \in Keys :
       /\ Receive("server", Sent("server", "response", k))
       /\ end' = [end EXCEPT !["server"] = [Heard("server") EXCEPT
                    !.recvauth = TRUE, !.waited = 0, !.key = l,
                    !.establish = TRUE, !.beat = 0]]
  /\ UNCHANGED <<cut, faulted>>

\* The handler agrees: the answer carries the key of the session, which counts
\* as established as soon as the answer is on its way.
ReceiveRequest ==
  /\ AwaitsAuth("server") /\ Incoming("server", {"request"})
  /\ \E k \in Keys :
       /\ Receive("server", Sent("server", "response", k))
       /\ end' = [end EXCEPT !["server"] = [Heard("server") EXCEPT
                    !.recvauth = TRUE, !.waited = 0, !.key = k,
                    !.establish = TRUE, !.beat = 0]]
  /\ UNCHANGED <<cut, faulted>>

\* The handler refuses: the answer says so and the socket is aborted.
RefuseRequest ==
  /\ "refuse" \in Faults
  /\ AwaitsAuth("server") /\ Incoming("server", {"request"})
  /\ end' = [end EXCEPT !["server"] = Disposed]
  /\ wire' = [wire EXCEPT !["client"] = <<>>,
                          !["server"] = @ \o Sent("server", "refusal", NoKey)]
  /\ faulted' = TRUE /\ UNCHANGED cut

ReceiveResponse ==
  /\ AwaitsAuth("client") /\ Incoming("client", {"response"})
  /\ Receive("client", <<>>)
  /\ end' = [end EXCEPT !["client"] = [Heard("client") EXCEPT
               !.recvauth = TRUE, !.waited = 0,
               !.key = Head(wire["server"]).key,
               !.establish = TRUE, !.beat = 0]]
  /\ UNCHANGED <<cut, faulted>>

\* A refusal, and a handler that does not accept what it is given.
ReceiveRefused(e) ==
  /\ \/ AwaitsAuth(e) /\ e = "client" /\ Incoming(e, {"refusal"})
     \/ "refuse" \in Faults /\ Incoming(e, {"response", "heartbeat", "data"})
  /\ Abort(e)
  /\ faulted' = TRUE /\ UNCHANGED cut

\* Mutant: the serving end does not answer.
ReceiveHeartbeatSilently(e) ==
  /\ end[e].establish /\ Incoming(e, {"heartbeat"})
  /\ Receive(e, <<>>)
  /\ end' = [end EXCEPT ![e] = Heard(e)]
  /\ UNCHANGED <<cut, faulted>>

\* Only the serving end answers a heartbeat.
ReceiveHeartbeat(e) ==
  /\ end[e].establish /\ Incoming(e, {"heartbeat"})
  /\ Receive(e, IF e = "server" THEN Sent(e, "heartbeat", NoKey) ELSE <<>>)
  /\ end' = [end EXCEPT ![e] = Heard(e)]
  /\ UNCHANGED <<cut, faulted>>

ReceiveData(e) ==
  /\ end[e].establish /\ Incoming(e, {"data"})
  /\ Receive(e, <<>>)
  /\ end' = [end EXCEPT ![e] = Heard(e)]
  /\ UNCHANGED <<cut, faulted>>

\* The handlers send on sockets they know to be established.
SendData(e) ==
  /\ end[e].establish /\ Len(wire[e]) < MaxInFlight
  /\ Send(e, "data", end[e].key)
  /\ UNCHANGED <<end, cut, faulted>>

-----------------------------------------------------------------------------
(* ProcessTickAlways.                                                      *)

\* Mutant: only established sockets are looked at.
ExpiredEstablished(e) == end[e].establish /\ end[e].idle >= MaxInactive

Expired(e) ==
  IF end[e].establish THEN end[e].idle >= MaxInactive
                      ELSE end[e].waited >= AuthWait

Ticks(e) == Is(e, "opened") /\ ~end[e].ticked /\ ~end[e].closing

\* The time compared is set to the present, and the mutex released.
TickExpired(e) ==
  /\ Ticks(e) /\ Expired(e)
  /\ end' = [end EXCEPT ![e].ticked = TRUE, ![e].closing = TRUE,
               ![e].waited = IF end[e].establish THEN @ ELSE 0,
               ![e].idle = IF end[e].establish THEN 0 ELSE @]
  /\ UNCHANGED <<wire, cut, faulted>>

BeatDue(e) ==
  /\ end[e].establish /\ e = "client" /\ end[e].beat >= HeartbeatInterval

\* Mutant: sending a heartbeat counts as activity.
TickBeatActive(e) ==
  /\ Ticks(e) /\ ~Expired(e) /\ BeatDue(e)
  /\ end' = [end EXCEPT ![e].ticked = TRUE, ![e].beat = 0, ![e].idle = 0]
  /\ Send(e, "heartbeat", NoKey)
  /\ UNCHANGED <<cut, faulted>>

TickBeat(e) ==
  /\ Ticks(e) /\ ~Expired(e) /\ BeatDue(e)
  /\ end' = [end EXCEPT ![e].ticked = TRUE, ![e].beat = 0]
  /\ Send(e, "heartbeat", NoKey)
  /\ UNCHANGED <<cut, faulted>>

TickNothing(e) ==
  /\ Ticks(e) /\ ~Expired(e) /\ ~BeatDue(e)
  /\ end' = [end EXCEPT ![e].ticked = TRUE]
  /\ UNCHANGED <<wire, cut, faulted>>

\* Whatever has arrived since the timer decided.
TickAbort(e) ==
  /\ Is(e, "opened") /\ end[e].closing
  /\ Abort(e)
  /\ faulted' = TRUE /\ UNCHANGED cut

-----------------------------------------------------------------------------
(* The environment.                                                        *)

\* The next interval may begin: nothing is late.
Prompt ==
  /\ \A e \in Ends :
       /\ Is(e, "opened") => end[e].ticked /\ ~end[e].closing
       /\ \A i \in 1..Len(wire[e]) : wire[e][i].age < Delay
  /\ Is("client", "opened") => end["client"].reading \/ cut
  /\ ~Is("client", "new") => ~Is("server", "new")

Aged(n, limit) == IF n < limit THEN n + 1 ELSE n

\* Of each end only the times are kept that its timer compares.
Advance ==
  /\ \/ Prompt
     \/ "slow" \in Faults /\ \A e \in Ends : Len(wire[e]) <= MaxInFlight
  /\ end' = [e \in Ends |->
       IF ~Is(e, "opened") THEN end[e]
       ELSE IF ~end[e].establish
         THEN [end[e] EXCEPT !.ticked = FALSE, !.waited = Aged(@, AuthWait)]
         ELSE [end[e] EXCEPT !.ticked = FALSE, !.idle = Aged(@, MaxInactive),
                 !.beat = IF e = "client" THEN Aged(@, HeartbeatInterval) ELSE @]]
  /\ wire' = [e \in Ends |-> [i \in 1..Len(wire[e]) |->
       [wire[e][i] EXCEPT !.age = Aged(@, Delay)]]]
  /\ faulted' = (faulted \/ ~Prompt)
  /\ UNCHANGED cut

\* The wall clock goes back: a time in the future counts as long ago.
ClockBack(e) ==
  /\ "clock" \in Faults /\ Is(e, "opened")
  /\ end' = [end EXCEPT
       ![e].waited = IF end[e].establish THEN @ ELSE AuthWait,
       ![e].idle = IF end[e].establish THEN MaxInactive ELSE @,
       ![e].beat = IF end[e].establish /\ e = "client" THEN HeartbeatInterval ELSE @]
  /\ faulted' = TRUE /\ UNCHANGED <<wire, cut>>

\* An operation on the kernel's socket fails: the peer has closed it, or the
\* connection is reset or refused.
Broken(e) ==
  /\ Is(e, "opened") /\ (Is(Peer(e), "disposed") \/ "reset" \in Faults)
  /\ Abort(e)
  /\ faulted' = TRUE /\ UNCHANGED cut

Close(e) ==
  /\ "close" \in Faults /\ Is(e, "opened")
  /\ Abort(e)
  /\ faulted' = TRUE /\ UNCHANGED cut

\* Clients need not run this code: one may ask twice, or begin otherwise.
\* Bound: only as the first thing that goes wrong.
Stray ==
  /\ "stray" \in Faults /\ Is("client", "opened") /\ ~cut
  /\ ~faulted
  /\ \E kind \in {"request", "heartbeat"} : Send("client", kind, NoKey)
  /\ faulted' = TRUE /\ UNCHANGED <<end, cut>>

Cut ==
  /\ "cut" \in Faults /\ ~cut /\ ~Is("client", "new")
  /\ cut' = TRUE /\ wire' = [e \in Ends |-> <<>>]
  /\ faulted' = TRUE /\ UNCHANGED end

-----------------------------------------------------------------------------
Input(e) ==
  \/ ReceiveUnexpected(e) \/ ReceiveRefused(e)
  \/ ReceiveHeartbeat(e) \/ ReceiveData(e)
  \/ e = "server" /\ (ReceiveRequest \/ RefuseRequest)
  \/ e = "client" /\ ReceiveResponse

Tick(e) == TickExpired(e) \/ TickBeat(e) \/ TickNothing(e)

Next ==
  \/ ClientOpen \/ ClientConnected \/ ServerAccept
  \/ \E e \in Ends : Input(e) \/ SendData(e) \/ Tick(e) \/ TickAbort(e)
  \/ \E e \in Ends : ClockBack(e) \/ Broken(e) \/ Close(e)
  \/ Advance \/ Cut \/ Stray

\* The timers are served again and again and time passes; unless it is cut, a
\* connection is made and accepted and what is under way arrives.  No failure
\* is ever reported for sure.
Fairness ==
  /\ \A e \in Ends : WF_vars(Input(e)) /\ WF_vars(Tick(e)) /\ WF_vars(TickAbort(e))
  /\ WF_vars(Advance) /\ WF_vars(ClientConnected) /\ WF_vars(ServerAccept)

Safe == Init /\ [][Next]_vars
Spec == Safe /\ Fairness

-----------------------------------------------------------------------------
(* Properties.                                                             *)

\* The client never believes in a session the server does not keep: if it is
\* established then so is the server unless it has gone, with the same key,
\* and what either sends can be read by the other when it arrives
\* (CompletelyAuthentication, DecryptMessage).
SessionAgrees ==
  /\ end["client"].establish /\ ~Is("server", "disposed") =>
       end["server"].establish /\ end["server"].key = end["client"].key
  /\ \A e \in Ends :
       end[e].establish /\ Incoming(e, {"data"}) =>
         end[e].key # NoKey /\ Head(wire[Peer(e)]).key = end[e].key

\* As long as everything is prompt no session ends by itself: authentication
\* is in time and heartbeats, which only the client begins and only received
\* frames count for, keep both timers quiet (ProcessTickAlways).
StaysUp ==
  ~faulted => \A e \in Ends : ~Is(e, "disposed") /\ ~end[e].closing

\* A socket that was opened is authenticated or given up (line 756).
AuthDecided ==
  \A e \in Ends : Is(e, "opened") ~> (end[e].establish \/ Is(e, "disposed"))

\* If one end has gone, the other notices, though the connection be silent
\* and whatever frames are left of the dead one (line 762).
DeadNoticed ==
  \A e \in Ends : Is(Peer(e), "disposed") /\ Is(e, "opened")
                    ~> Is(e, "disposed")
=============================================================================
