-------------------------- MODULE StageSessionProofs --------------------------
(***************************************************************************)
(* Typing of StageSession, and its agreement on sessions and keys, for     *)
(* every length of time and every set of keys and of faults.               *)
(***************************************************************************)
EXTENDS StageSession, SequenceTheorems, TLAPS

\* The keys that responses and data under way carry.
Carried(s) == {s[i].key : i \in {j \in 1..Len(s) : s[j].kind \in {"response", "data"}}}

\* All keys in use by anyone: there is one at most, and only if the server has
\* taken a request.
InUse == (UNION {Carried(wire[e]) : e \in Ends})
           \cup {end[e].key : e \in {d \in Ends : end[d].establish}}

OneKey ==
  /\ InUse \subseteq Keys
  /\ \A k, l \in InUse : k = l
  /\ end["server"].establish \/ Is("server", "disposed") \/ InUse = {}

IInv == TypeOK /\ OneKey

-----------------------------------------------------------------------------
(* Frames under way.                                                       *)

LEMMA SendFrames ==
  ASSUME NEW s \in Seq(Frame), NEW t \in Seq(Frame)
  PROVE  s \o t \in Seq(Frame) /\ Carried(s \o t) = Carried(s) \cup Carried(t)
<1> DEFINE u == s \o t
<1>1. /\ u \in Seq(Frame) /\ Len(u) = Len(s) + Len(t)
      /\ Len(s) \in Nat /\ Len(t) \in Nat
  OBVIOUS
<1>2. \A i \in 1..Len(u) : u[i] = IF i <= Len(s) THEN s[i] ELSE t[i - Len(s)]
  OBVIOUS
<1>3. \A i \in 1..Len(s) : i \in 1..Len(u) /\ u[i] = s[i]
  BY <1>1, <1>2
<1>4. \A i \in 1..Len(t) : Len(s) + i \in 1..Len(u) /\ u[Len(s) + i] = t[i]
  <2> SUFFICES ASSUME NEW i \in 1..Len(t)
               PROVE  Len(s) + i \in 1..Len(u) /\ u[Len(s) + i] = t[i]
    OBVIOUS
  <2> HIDE DEF u
  <2>1. Len(s) + i \in 1..Len(u) /\ ~(Len(s) + i <= Len(s)) /\ Len(s) + i - Len(s) = i
    BY <1>1
  <2> QED BY <2>1, <1>2
<1> HIDE DEF u
<1>5. Carried(s) \subseteq Carried(u) /\ Carried(t) \subseteq Carried(u)
  BY <1>3, <1>4 DEF Carried
<1>6. Carried(u) \subseteq Carried(s) \cup Carried(t)
  <2> SUFFICES ASSUME NEW i \in 1..Len(u), u[i].kind \in {"response", "data"}
               PROVE  u[i].key \in Carried(s) \cup Carried(t)
    BY DEF Carried
  <2>1. CASE i <= Len(s)
    <3>1. i \in 1..Len(s) /\ u[i] = s[i]
      BY <2>1, <1>1, <1>2
    <3> QED BY <3>1 DEF Carried
  <2>2. CASE ~(i <= Len(s))
    <3>1. i - Len(s) \in 1..Len(t) /\ u[i] = t[i - Len(s)]
      BY <2>2, <1>1, <1>2
    <3> QED BY <3>1 DEF Carried
  <2> QED BY <2>1, <2>2
<1> QED BY <1>1, <1>5, <1>6 DEF u

LEMMA ReadFrame ==
  ASSUME NEW s \in Seq(Frame), s # <<>>
  PROVE  /\ Tail(s) \in Seq(Frame) /\ Carried(Tail(s)) \subseteq Carried(s)
         /\ Head(s) \in Frame
         /\ Head(s).kind \in {"response", "data"} => Head(s).key \in Carried(s)
<1> DEFINE t == Tail(s)
<1>1. /\ t \in Seq(Frame) /\ Len(t) = Len(s) - 1 /\ Len(s) \in Nat /\ Len(s) > 0
      /\ \A i \in 1..Len(t) : t[i] = s[i + 1]
      /\ Head(s) = s[1] /\ 1 \in 1..Len(s) /\ s[1] \in Frame
  OBVIOUS
<1>2. \A i \in 1..Len(t) : i + 1 \in 1..Len(s) /\ t[i] = s[i + 1]
  BY <1>1
<1> HIDE DEF t
<1>3. Carried(t) \subseteq Carried(s)
  BY <1>2 DEF Carried
<1>4. Head(s).kind \in {"response", "data"} => Head(s).key \in Carried(s)
  BY <1>1 DEF Carried
<1> QED BY <1>1, <1>3, <1>4 DEF t

LEMMA NoFrames == <<>> \in Seq(Frame) /\ Carried(<<>>) = {}
  BY DEF Carried

LEMMA OneFrame ==
  ASSUME NEW f \in Frame
  PROVE  /\ <<f>> \in Seq(Frame)
         /\ Carried(<<f>>) = IF f.kind \in {"response", "data"} THEN {f.key} ELSE {}
<1>1. <<f>> \in Seq(Frame) /\ Len(<<f>>) = 1 /\ <<f>>[1] = f /\ 1..1 = {1}
  OBVIOUS
<1> QED BY <1>1 DEF Carried

\* What Sent puts under way.
LEMMA SentFrames ==
  ASSUME NEW e \in Ends, NEW kind \in {"request", "response", "refusal", "heartbeat", "data"},
         NEW k \in Keys \cup {NoKey}
  PROVE  /\ Sent(e, kind, k) \in Seq(Frame)
         /\ Carried(Sent(e, kind, k))
              \subseteq IF kind \in {"response", "data"} THEN {k} ELSE {}
<1> DEFINE f == [kind |-> kind, key |-> k, age |-> 0]
<1>1. f \in Frame
  BY SessionAssumption DEF Frame
<1>2. f.kind = kind /\ f.key = k
  OBVIOUS
<1>3. Sent(e, kind, k) = <<>> \/ Sent(e, kind, k) = <<f>>
  BY DEF Sent
<1> HIDE DEF f
<1> QED BY <1>1, <1>2, <1>3, NoFrames, OneFrame

LEMMA AgedFrames ==
  ASSUME NEW s \in Seq(Frame)
  PROVE  LET t == [i \in 1..Len(s) |-> [s[i] EXCEPT !.age = Aged(@, Delay)]]
         IN  t \in Seq(Frame) /\ Carried(t) = Carried(s)
<1> DEFINE t == [i \in 1..Len(s) |-> [s[i] EXCEPT !.age = Aged(@, Delay)]]
<1>1. \A i \in 1..Len(s) : s[i] \in Frame
  OBVIOUS
<1>2. \A i \in 1..Len(s) : t[i] \in Frame /\ t[i].kind = s[i].kind /\ t[i].key = s[i].key
  <2> SUFFICES ASSUME NEW i \in 1..Len(s)
               PROVE  t[i] \in Frame /\ t[i].kind = s[i].kind /\ t[i].key = s[i].key
    OBVIOUS
  <2> DEFINE n == s[i].age
  <2>1. n \in 0..Delay
    BY <1>1 DEF Frame
  <2>2. Aged(n, Delay) \in 0..Delay
    BY <2>1, SessionAssumption DEF Aged
  <2>3. t[i] = [s[i] EXCEPT !.age = Aged(n, Delay)]
    OBVIOUS
  <2> HIDE DEF t, n
  <2> QED BY <1>1, <2>2, <2>3 DEF Frame
<1>3. t \in Seq(Frame) /\ Len(t) = Len(s)
  <2> HIDE DEF t
  <2>1. DOMAIN t = 1..Len(s) /\ t = [i \in 1..Len(s) |-> t[i]]
    BY DEF t
  <2> QED BY <1>2, <2>1
<1> HIDE DEF t
<1>4. Carried(t) = Carried(s)
  BY <1>2, <1>3 DEF Carried
<1> QED BY <1>3, <1>4 DEF t

-----------------------------------------------------------------------------
(* What every action amounts to.                                           *)

LEMMA Records == New \in End /\ Disposed \in End
<1>1. 0 \in 0..AuthWait /\ 0 \in 0..MaxInactive /\ 0 \in 0..HeartbeatInterval
  BY SessionAssumption
<1>2. New \in End
  BY <1>1 DEF New, End
<1>3. Disposed \in End
  BY <1>2 DEF Disposed, End
<1> QED BY <1>2, <1>3

LEMMA PeerEnds == \A e \in Ends : Peer(e) \in Ends /\ Peer(e) # e
  BY DEF Ends, Peer

LEMMA Used ==
  \A e \in Ends : /\ Carried(wire[e]) \subseteq InUse
                  /\ end[e].establish => end[e].key \in InUse
<1> SUFFICES ASSUME NEW e \in Ends
             PROVE  /\ Carried(wire[e]) \subseteq InUse
                    /\ end[e].establish => end[e].key \in InUse
  OBVIOUS
<1>1. Carried(wire[e]) \subseteq InUse
  BY Zenon DEF InUse
<1>2. ASSUME end[e].establish PROVE end[e].key \in InUse
  <2>1. e \in {d \in Ends : end[d].establish}
    BY <1>2
  <2> QED BY <2>1, Zenon DEF InUse
<1> QED BY <1>1, <1>2

\* A step that brings no other key into use, and after which the server still
\* answers for the one there is.
LEMMA Kept ==
  ASSUME IInv,
         end' \in [Ends -> End], wire' \in [Ends -> Seq(Frame)],
         cut' \in BOOLEAN, faulted' \in BOOLEAN,
         \A d \in Ends : Carried(wire'[d]) \subseteq InUse,
         \A d \in Ends : end'[d].establish => end'[d].key \in InUse,
         end'["server"].establish \/ end'["server"].phase = "disposed" \/ InUse = {}
  PROVE  IInv'
<1>1. TypeOK'
  BY DEF TypeOK
<1>2. InUse' \subseteq InUse
  <2>1. UNION {Carried(wire'[e]) : e \in Ends} \subseteq InUse
    OBVIOUS
  <2>2. {end'[e].key : e \in {d \in Ends : end'[d].establish}} \subseteq InUse
    OBVIOUS
  <2>3. InUse' = (UNION {Carried(wire'[e]) : e \in Ends})
                   \cup {end'[e].key : e \in {d \in Ends : end'[d].establish}}
    BY DEF InUse, Carried
  <2> QED BY <2>1, <2>2, <2>3
<1>3. OneKey'
  BY <1>2 DEF IInv, OneKey, Is
<1> QED BY <1>1, <1>3 DEF IInv

\* The frames after a Send, a Receive and an Abort.
LEMMA Sends ==
  ASSUME TypeOK, NEW e \in Ends,
         NEW kind \in {"request", "response", "refusal", "heartbeat", "data"},
         NEW k \in Keys \cup {NoKey}, kind \in {"response", "data"} => k \in InUse,
         Send(e, kind, k)
  PROVE  /\ wire' \in [Ends -> Seq(Frame)]
         /\ \A d \in Ends : Carried(wire'[d]) \subseteq InUse
<1> DEFINE t == Sent(e, kind, k)
<1>1. t \in Seq(Frame) /\ Carried(t) \subseteq InUse
  BY SentFrames
<1>2. wire[e] \in Seq(Frame)
  BY DEF TypeOK
<1>3. wire' = [wire EXCEPT ![e] = @ \o t]
  BY DEF Send
<1> HIDE DEF t
<1>4. wire[e] \o t \in Seq(Frame) /\ Carried(wire[e] \o t) \subseteq InUse
  BY <1>1, <1>2, SendFrames, Used
<1> QED BY <1>3, <1>4, Used DEF TypeOK

LEMMA Receives ==
  ASSUME TypeOK, NEW e \in Ends, wire[Peer(e)] # <<>>,
         NEW t \in Seq(Frame), NEW S, Carried(t) \subseteq S, InUse \subseteq S,
         Receive(e, t)
  PROVE  /\ wire' \in [Ends -> Seq(Frame)]
         /\ \A d \in Ends : Carried(wire'[d]) \subseteq S
<1>1. wire[e] \in Seq(Frame) /\ wire[Peer(e)] \in Seq(Frame)
  BY PeerEnds DEF TypeOK
<1>2. /\ wire[e] \o t \in Seq(Frame) /\ Carried(wire[e] \o t) \subseteq S
      /\ Tail(wire[Peer(e)]) \in Seq(Frame) /\ Carried(Tail(wire[Peer(e)])) \subseteq S
  BY <1>1, SendFrames, ReadFrame, Used, PeerEnds
<1>3. wire' = [wire EXCEPT ![Peer(e)] = Tail(@), ![e] = @ \o t]
  BY DEF Receive
<1>4. /\ wire' \in [Ends -> Seq(Frame)]
      /\ \A d \in Ends : wire'[d] = IF d = e THEN wire[e] \o t ELSE Tail(wire[Peer(e)])
  BY <1>2, <1>3, PeerEnds DEF TypeOK, Ends, Peer
<1> QED BY <1>2, <1>4

LEMMA Aborts ==
  ASSUME IInv, NEW e \in Ends, Abort(e), cut' \in BOOLEAN, faulted' \in BOOLEAN
  PROVE  IInv'
<1>1. /\ end' \in [Ends -> End] /\ end'[e] = Disposed
      /\ \A d \in Ends : d # e => end'[d] = end[d]
  BY Records DEF IInv, TypeOK, Abort
<1>2. /\ wire' \in [Ends -> Seq(Frame)]
      /\ \A d \in Ends : wire'[d] = <<>> \/ wire'[d] = wire[d]
  BY NoFrames DEF IInv, TypeOK, Abort
<1>3. \A d \in Ends : Carried(wire'[d]) \subseteq InUse
  BY <1>2, NoFrames, Used
<1>4. ~Disposed.establish /\ Disposed.phase = "disposed"
  BY DEF Disposed, New
<1>5. \A d \in Ends : end'[d].establish => end'[d].key \in InUse
  BY <1>1, <1>4, Used
<1>6. end'["server"].establish \/ end'["server"].phase = "disposed" \/ InUse = {}
  BY <1>1, <1>4 DEF IInv, OneKey, Is, Ends
<1> QED BY <1>1, <1>2, <1>3, <1>5, <1>6, Kept

\* A step that leaves phase, establishment and keys alone, whatever it does to
\* the times.
LEMMA Times ==
  ASSUME IInv,
         end' \in [Ends -> End], wire' \in [Ends -> Seq(Frame)],
         cut' \in BOOLEAN, faulted' \in BOOLEAN,
         \A d \in Ends : Carried(wire'[d]) \subseteq InUse,
         \A d \in Ends : /\ end'[d].establish = end[d].establish
                         /\ end'[d].key = end[d].key
                         /\ end[d].phase = "disposed" => end'[d].phase = "disposed"
  PROVE  IInv'
<1>1. \A d \in Ends : end'[d].establish => end'[d].key \in InUse
  BY Used
<1>2. end'["server"].establish \/ end'["server"].phase = "disposed" \/ InUse = {}
  BY DEF IInv, OneKey, Is, Ends
<1> QED BY <1>1, <1>2, Kept

-----------------------------------------------------------------------------
(* The actions.                                                            *)

LEMMA Opens == IInv /\ (ClientOpen \/ ClientConnected \/ ServerAccept) => IInv'
<1> SUFFICES ASSUME IInv PROVE ClientOpen \/ ClientConnected \/ ServerAccept => IInv'
  OBVIOUS
<1>0. /\ end \in [Ends -> End] /\ cut \in BOOLEAN /\ faulted \in BOOLEAN
      /\ wire \in [Ends -> Seq(Frame)] /\ TypeOK
      /\ "client" \in Ends /\ "server" \in Ends
  BY DEF IInv, TypeOK, Ends
<1> DEFINE Opened(e) == [end[e] EXCEPT !.phase = "opened"]
           Listening(e) == [end[e] EXCEPT !.reading = TRUE]
           Accepted(e) == [end[e] EXCEPT !.phase = "opened", !.reading = TRUE]
<1>1. ASSUME NEW e \in Ends, NEW r, r \in {Opened(e), Listening(e), Accepted(e)},
             r = Listening(e) \/ end[e].phase # "disposed",
             end' = [end EXCEPT ![e] = r]
      PROVE  /\ end' \in [Ends -> End]
             /\ \A d \in Ends : /\ end'[d].establish = end[d].establish
                                /\ end'[d].key = end[d].key
                                /\ end[d].phase = "disposed" => end'[d].phase = "disposed"
  <2>1. end[e] \in End
    BY <1>0
  <2>2. /\ r \in End /\ r.establish = end[e].establish /\ r.key = end[e].key
        /\ end[e].phase = "disposed" => r.phase = "disposed"
    BY <1>1, <2>1 DEF End
  <2> QED BY <1>0, <1>1, <2>2
<1>2. CASE ClientOpen
  <2>1. end' = [end EXCEPT !["client"] = Opened("client")] /\ end["client"].phase # "disposed"
    BY <1>0, <1>2 DEF ClientOpen, Is
  <2> HIDE DEF Opened, Listening, Accepted
  <2> QED BY <1>0, <1>1, <1>2, <2>1, Used, Times DEF ClientOpen
<1>3. CASE ClientConnected
  <2>1. end' = [end EXCEPT !["client"] = Listening("client")]
    BY <1>0, <1>3 DEF ClientConnected
  <2>2. /\ wire' \in [Ends -> Seq(Frame)]
        /\ \A d \in Ends : Carried(wire'[d]) \subseteq InUse
    BY <1>0, <1>3, Sends DEF ClientConnected
  <2> HIDE DEF Opened, Listening, Accepted
  <2> QED BY <1>0, <1>1, <1>3, <2>1, <2>2, Times DEF ClientConnected
<1>4. CASE ServerAccept
  <2>1. end' = [end EXCEPT !["server"] = Accepted("server")] /\ end["server"].phase # "disposed"
    BY <1>0, <1>4 DEF ServerAccept, Is
  <2> HIDE DEF Opened, Listening, Accepted
  <2> QED BY <1>0, <1>1, <1>4, <2>1, Used, Times DEF ServerAccept
<1> QED BY <1>2, <1>3, <1>4

\* Hearing a frame, or nothing, and the timer: only times change.
LEMMA Hearing ==
  ASSUME IInv, NEW e \in Ends, end' = [end EXCEPT ![e] = Heard(e)]
  PROVE  /\ end' \in [Ends -> End]
         /\ \A d \in Ends : /\ end'[d].establish = end[d].establish
                            /\ end'[d].key = end[d].key
                            /\ end[d].phase = "disposed" => end'[d].phase = "disposed"
<1>1. end \in [Ends -> End] /\ end[e] \in End /\ 0 \in 0..MaxInactive
  BY SessionAssumption DEF IInv, TypeOK
<1>2. /\ Heard(e) \in End /\ Heard(e).establish = end[e].establish
      /\ Heard(e).key = end[e].key /\ Heard(e).phase = end[e].phase
  BY <1>1 DEF Heard, End
<1> QED BY <1>1, <1>2

\* The one step that brings a key into use: no other is, for the server has
\* not taken a request yet.
LEMMA Requested == IInv /\ ReceiveRequest => IInv'
<1> SUFFICES ASSUME IInv, ReceiveRequest PROVE IInv'
  OBVIOUS
<1>0. /\ end \in [Ends -> End] /\ cut \in BOOLEAN /\ faulted \in BOOLEAN /\ TypeOK
      /\ "server" \in Ends
  BY DEF IInv, TypeOK, Ends
<1>1. InUse = {}
  BY DEF IInv, OneKey, ReceiveRequest, AwaitsAuth, Incoming, Is
<1>2. PICK k \in Keys :
        /\ Receive("server", Sent("server", "response", k))
        /\ end' = [end EXCEPT !["server"] = [Heard("server") EXCEPT
                     !.recvauth = TRUE, !.waited = 0, !.key = k,
                     !.establish = TRUE, !.beat = 0]]
  BY DEF ReceiveRequest
<1> DEFINE r == [Heard("server") EXCEPT !.recvauth = TRUE, !.waited = 0, !.key = k,
                   !.establish = TRUE, !.beat = 0]
<1>3. r \in End /\ r.key = k /\ r.establish
  <2>1. end["server"] \in End /\ 0 \in 0..MaxInactive /\ 0 \in 0..AuthWait
        /\ 0 \in 0..HeartbeatInterval
    BY <1>0, SessionAssumption
  <2>2. Heard("server") \in End
    BY <2>1 DEF Heard, End
  <2> QED BY <2>1, <2>2 DEF End
<1>4. end' = [end EXCEPT !["server"] = r]
  BY <1>2
<1> HIDE DEF r
<1>5. /\ end' \in [Ends -> End] /\ end'["server"].establish /\ end'["server"].key = k
      /\ \A d \in Ends : d # "server" => end'[d] = end[d]
  BY <1>0, <1>3, <1>4
<1>6. /\ wire' \in [Ends -> Seq(Frame)]
      /\ \A d \in Ends : Carried(wire'[d]) \subseteq {k}
  <2>1. /\ Sent("server", "response", k) \in Seq(Frame)
        /\ Carried(Sent("server", "response", k)) \subseteq {k}
    BY <1>0, SentFrames
  <2>2. wire[Peer("server")] # <<>>
    BY DEF ReceiveRequest, Incoming
  <2> QED BY <1>0, <1>1, <1>2, <2>1, <2>2, Receives
<1>7. \A d \in Ends : end'[d].establish => end'[d].key = k
  BY <1>1, <1>5, Used
<1>8. InUse' \subseteq {k}
  <2>1. UNION {Carried(wire'[e]) : e \in Ends} \subseteq {k}
    BY <1>6
  <2>2. {end'[e].key : e \in {d \in Ends : end'[d].establish}} \subseteq {k}
    BY <1>7
  <2>3. InUse' = (UNION {Carried(wire'[e]) : e \in Ends})
                   \cup {end'[e].key : e \in {d \in Ends : end'[d].establish}}
    BY DEF InUse, Carried
  <2> QED BY <2>1, <2>2, <2>3
<1>9. OneKey'
  BY <1>5, <1>8 DEF OneKey
<1>10. TypeOK'
  BY <1>0, <1>5, <1>6 DEF TypeOK, ReceiveRequest
<1> QED BY <1>9, <1>10 DEF IInv

LEMMA Refused == IInv /\ RefuseRequest => IInv'
<1> SUFFICES ASSUME IInv, RefuseRequest PROVE IInv'
  OBVIOUS
<1>0. /\ end \in [Ends -> End] /\ wire \in [Ends -> Seq(Frame)] /\ TypeOK
      /\ "server" \in Ends /\ cut' \in BOOLEAN /\ faulted' \in BOOLEAN
  BY DEF IInv, TypeOK, Ends, RefuseRequest
<1>1. /\ end' \in [Ends -> End] /\ end'["server"] = Disposed
      /\ \A d \in Ends : d # "server" => end'[d] = end[d]
  BY <1>0, Records DEF RefuseRequest
<1>2. ~Disposed.establish /\ Disposed.phase = "disposed"
  BY DEF Disposed, New
<1>3. \A d \in Ends : end'[d].establish => end'[d].key \in InUse
  BY <1>1, <1>2, Used
<1> DEFINE t == Sent("server", "refusal", NoKey)
<1>4. t \in Seq(Frame) /\ Carried(t) \subseteq InUse
  BY <1>0, SentFrames
<1>5. wire' = [wire EXCEPT !["client"] = <<>>, !["server"] = @ \o t]
  BY DEF RefuseRequest
<1> HIDE DEF t
<1>6. wire["server"] \o t \in Seq(Frame) /\ Carried(wire["server"] \o t) \subseteq InUse
  BY <1>0, <1>4, SendFrames, Used
<1>7. /\ wire' \in [Ends -> Seq(Frame)]
      /\ \A d \in Ends : wire'[d] = IF d = "server" THEN wire["server"] \o t ELSE <<>>
  BY <1>0, <1>5, <1>6, NoFrames DEF Ends
<1>8. \A d \in Ends : Carried(wire'[d]) \subseteq InUse
  BY <1>6, <1>7, NoFrames
<1> QED BY <1>0, <1>1, <1>2, <1>3, <1>7, <1>8, Kept

\* The client takes the key it is given, which is in use already.
LEMMA Responded == IInv /\ ReceiveResponse => IInv'
<1> SUFFICES ASSUME IInv, ReceiveResponse PROVE IInv'
  OBVIOUS
<1>0. /\ end \in [Ends -> End] /\ wire \in [Ends -> Seq(Frame)] /\ TypeOK
      /\ "client" \in Ends /\ "server" \in Ends /\ Peer("client") = "server"
      /\ cut' \in BOOLEAN /\ faulted' \in BOOLEAN
  BY DEF IInv, TypeOK, Ends, Peer, ReceiveResponse
<1> DEFINE k == Head(wire["server"]).key
<1>1. wire["server"] # <<>> /\ Head(wire["server"]).kind = "response"
  BY <1>0 DEF ReceiveResponse, Incoming
<1>2. k \in InUse /\ k \in Keys
  BY <1>0, <1>1, ReadFrame, Used DEF IInv, OneKey
<1>3. /\ wire' \in [Ends -> Seq(Frame)]
      /\ \A d \in Ends : Carried(wire'[d]) \subseteq InUse
  BY <1>0, <1>1, NoFrames, Receives DEF ReceiveResponse
<1> DEFINE r == [Heard("client") EXCEPT !.recvauth = TRUE, !.waited = 0, !.key = k,
                   !.establish = TRUE, !.beat = 0]
<1>4. end' = [end EXCEPT !["client"] = r]
  BY DEF ReceiveResponse
<1> HIDE DEF k
<1>5. r \in End /\ r.key = k /\ r.establish
  <2>1. end["client"] \in End /\ 0 \in 0..MaxInactive /\ 0 \in 0..AuthWait
        /\ 0 \in 0..HeartbeatInterval
    BY <1>0, SessionAssumption
  <2>2. Heard("client") \in End
    BY <2>1 DEF Heard, End
  <2> QED BY <1>2, <2>1, <2>2 DEF End
<1> HIDE DEF r
<1>6. /\ end' \in [Ends -> End] /\ end'["client"].key = k
      /\ \A d \in Ends : d # "client" => end'[d] = end[d]
  BY <1>0, <1>4, <1>5
<1>7. \A d \in Ends : end'[d].establish => end'[d].key \in InUse
  BY <1>2, <1>6, Used
<1>8. end'["server"].establish \/ end'["server"].phase = "disposed" \/ InUse = {}
  BY <1>0, <1>6 DEF IInv, OneKey, Is
<1> QED BY <1>0, <1>3, <1>6, <1>7, <1>8, Kept

LEMMA Heartbeats ==
  ASSUME IInv, NEW e \in Ends, ReceiveHeartbeat(e) \/ ReceiveData(e)
  PROVE  IInv'
<1>0. TypeOK /\ cut' \in BOOLEAN /\ faulted' \in BOOLEAN
  BY DEF IInv, TypeOK, ReceiveHeartbeat, ReceiveData
<1>1. wire[Peer(e)] # <<>> /\ end' = [end EXCEPT ![e] = Heard(e)]
  BY DEF ReceiveHeartbeat, ReceiveData, Incoming
<1>2. PICK t \in Seq(Frame) : Carried(t) \subseteq InUse /\ Receive(e, t)
  <2>1. CASE ReceiveData(e)
    BY <2>1, NoFrames DEF ReceiveData
  <2>2. CASE ReceiveHeartbeat(e) /\ e = "server"
    <3>1. /\ Sent(e, "heartbeat", NoKey) \in Seq(Frame)
          /\ Carried(Sent(e, "heartbeat", NoKey)) \subseteq InUse
      BY SentFrames
    <3> QED BY <2>2, <3>1 DEF ReceiveHeartbeat
  <2>3. CASE ReceiveHeartbeat(e) /\ e # "server"
    BY <2>3, NoFrames DEF ReceiveHeartbeat
  <2> QED BY <2>1, <2>2, <2>3
<1>3. /\ wire' \in [Ends -> Seq(Frame)]
      /\ \A d \in Ends : Carried(wire'[d]) \subseteq InUse
  BY <1>0, <1>1, <1>2, Receives
<1> QED BY <1>0, <1>1, <1>3, Hearing, Times

LEMMA DataSent ==
  ASSUME IInv, NEW e \in Ends, SendData(e)
  PROVE  IInv'
<1>0. TypeOK /\ end \in [Ends -> End] /\ cut' \in BOOLEAN /\ faulted' \in BOOLEAN
  BY DEF IInv, TypeOK, SendData
<1>1. end[e].key \in InUse /\ end[e].key \in Keys
  BY Used DEF SendData, IInv, OneKey
<1>2. /\ wire' \in [Ends -> Seq(Frame)]
      /\ \A d \in Ends : Carried(wire'[d]) \subseteq InUse
  BY <1>0, <1>1, Sends DEF SendData
<1> QED BY <1>0, <1>2, Times DEF SendData

LEMMA Ticking ==
  ASSUME IInv, NEW e \in Ends, Tick(e)
  PROVE  IInv'
<1>0. /\ TypeOK /\ end \in [Ends -> End] /\ wire \in [Ends -> Seq(Frame)] /\ end[e] \in End
      /\ 0 \in 0..AuthWait /\ 0 \in 0..MaxInactive /\ 0 \in 0..HeartbeatInterval
      /\ cut' \in BOOLEAN /\ faulted' \in BOOLEAN
  BY SessionAssumption DEF IInv, TypeOK, Tick, TickExpired, TickBeat, TickNothing
<1>1. PICK r \in End : /\ end' = [end EXCEPT ![e] = r]
                       /\ r.establish = end[e].establish /\ r.key = end[e].key
                       /\ r.phase = end[e].phase
  <2>1. CASE TickExpired(e)
    <3> DEFINE r == [end[e] EXCEPT !.ticked = TRUE, !.closing = TRUE,
                       !.waited = IF end[e].establish THEN @ ELSE 0,
                       !.idle = IF end[e].establish THEN 0 ELSE @]
    <3>1. end' = [end EXCEPT ![e] = r]
      BY <1>0, <2>1 DEF TickExpired
    <3>2. /\ r \in End /\ r.establish = end[e].establish /\ r.key = end[e].key
          /\ r.phase = end[e].phase
      BY <1>0 DEF End
    <3> QED BY <3>1, <3>2
  <2>2. CASE TickBeat(e)
    <3> DEFINE r == [end[e] EXCEPT !.ticked = TRUE, !.beat = 0]
    <3>1. end' = [end EXCEPT ![e] = r]
      BY <1>0, <2>2 DEF TickBeat
    <3>2. /\ r \in End /\ r.establish = end[e].establish /\ r.key = end[e].key
          /\ r.phase = end[e].phase
      BY <1>0 DEF End
    <3> QED BY <3>1, <3>2
  <2>3. CASE TickNothing(e)
    <3> DEFINE r == [end[e] EXCEPT !.ticked = TRUE]
    <3>1. end' = [end EXCEPT ![e] = r]
      BY <1>0, <2>3 DEF TickNothing
    <3>2. /\ r \in End /\ r.establish = end[e].establish /\ r.key = end[e].key
          /\ r.phase = end[e].phase
      BY <1>0 DEF End
    <3> QED BY <3>1, <3>2
  <2> QED BY <2>1, <2>2, <2>3 DEF Tick
<1>2. /\ end' \in [Ends -> End]
      /\ \A d \in Ends : /\ end'[d].establish = end[d].establish
                         /\ end'[d].key = end[d].key
                         /\ end[d].phase = "disposed" => end'[d].phase = "disposed"
  BY <1>0, <1>1
<1>3. /\ wire' \in [Ends -> Seq(Frame)]
      /\ \A d \in Ends : Carried(wire'[d]) \subseteq InUse
  <2>1. CASE TickBeat(e)
    BY <1>0, <2>1, Sends DEF TickBeat
  <2>2. CASE TickExpired(e) \/ TickNothing(e)
    BY <1>0, <2>2, Used DEF TickExpired, TickNothing
  <2> QED BY <2>1, <2>2 DEF Tick
<1> QED BY <1>0, <1>2, <1>3, Times

LEMMA Advances == IInv /\ Advance => IInv'
<1> SUFFICES ASSUME IInv, Advance PROVE IInv'
  OBVIOUS
<1>0. /\ end \in [Ends -> End] /\ wire \in [Ends -> Seq(Frame)]
      /\ cut' \in BOOLEAN /\ faulted' \in BOOLEAN
  BY DEF IInv, TypeOK, Advance
<1>1. \A n, limit : limit \in Nat /\ n \in 0..limit => Aged(n, limit) \in 0..limit
  BY DEF Aged
<1>2. ASSUME NEW d \in Ends
      PROVE  /\ end'[d] \in End
             /\ end'[d].establish = end[d].establish
             /\ end'[d].key = end[d].key
             /\ end[d].phase = "disposed" => end'[d].phase = "disposed"
  <2>1. /\ end[d] \in End
        /\ Aged(end[d].waited, AuthWait) \in 0..AuthWait
        /\ Aged(end[d].idle, MaxInactive) \in 0..MaxInactive
        /\ Aged(end[d].beat, HeartbeatInterval) \in 0..HeartbeatInterval
    BY <1>0, <1>1, SessionAssumption DEF End
  <2>2. CASE ~Is(d, "opened")
    BY <2>1, <2>2 DEF Advance
  <2>3. CASE Is(d, "opened") /\ ~end[d].establish
    <3>1. end'[d] = [end[d] EXCEPT !.ticked = FALSE, !.waited = Aged(@, AuthWait)]
      BY <2>3 DEF Advance
    <3> QED BY <2>1, <3>1 DEF End
  <2>4. CASE Is(d, "opened") /\ end[d].establish
    <3> DEFINE b == IF d = "client" THEN Aged(end[d].beat, HeartbeatInterval)
                                    ELSE end[d].beat
    <3>1. end'[d] = [end[d] EXCEPT !.ticked = FALSE, !.idle = Aged(@, MaxInactive),
                       !.beat = b]
      BY <2>4 DEF Advance
    <3>2. b \in 0..HeartbeatInterval
      BY <2>1 DEF End
    <3> HIDE DEF b
    <3> QED BY <2>1, <3>1, <3>2 DEF End
  <2> QED BY <2>2, <2>3, <2>4
<1>3. end' \in [Ends -> End]
  <2>1. end' = [d \in Ends |-> end'[d]]
    BY DEF Advance
  <2> QED BY <1>2, <2>1
<1>4. ASSUME NEW d \in Ends
      PROVE  wire'[d] \in Seq(Frame) /\ Carried(wire'[d]) = Carried(wire[d])
  <2> DEFINE t == [i \in 1..Len(wire[d]) |-> [wire[d][i] EXCEPT !.age = Aged(@, Delay)]]
  <2>1. wire'[d] = t
    BY DEF Advance
  <2>2. t \in Seq(Frame) /\ Carried(t) = Carried(wire[d])
    BY <1>0, AgedFrames
  <2> QED BY <2>1, <2>2, SMTT(20)
<1>5. wire' \in [Ends -> Seq(Frame)]
  <2>1. wire' = [d \in Ends |-> wire'[d]]
    BY DEF Advance
  <2> QED BY <1>4, <2>1, SMTT(20)
<1>6. \A d \in Ends : Carried(wire'[d]) \subseteq InUse
  BY <1>4, Used
<1> QED BY <1>0, <1>2, <1>3, <1>5, <1>6, Times, SMTT(20)

LEMMA ClocksBack ==
  ASSUME IInv, NEW e \in Ends, ClockBack(e)
  PROVE  IInv'
<1>0. /\ end \in [Ends -> End] /\ wire \in [Ends -> Seq(Frame)] /\ end[e] \in End
      /\ AuthWait \in 0..AuthWait /\ MaxInactive \in 0..MaxInactive
      /\ HeartbeatInterval \in 0..HeartbeatInterval
      /\ cut' \in BOOLEAN /\ faulted' \in BOOLEAN
  BY SessionAssumption DEF IInv, TypeOK, ClockBack
<1> DEFINE r == [end[e] EXCEPT
      !.waited = IF end[e].establish THEN @ ELSE AuthWait,
      !.idle = IF end[e].establish THEN MaxInactive ELSE @,
      !.beat = IF end[e].establish /\ e = "client" THEN HeartbeatInterval ELSE @]
<1>1. end' = [end EXCEPT ![e] = r]
  BY <1>0 DEF ClockBack
<1>2. /\ r \in End /\ r.establish = end[e].establish /\ r.key = end[e].key
      /\ r.phase = end[e].phase
  BY <1>0 DEF End
<1> HIDE DEF r
<1>3. /\ end' \in [Ends -> End]
      /\ \A d \in Ends : /\ end'[d].establish = end[d].establish
                         /\ end'[d].key = end[d].key
                         /\ end[d].phase = "disposed" => end'[d].phase = "disposed"
  BY <1>0, <1>1, <1>2
<1> QED BY <1>0, <1>3, Used, Times DEF ClockBack

LEMMA Strays == IInv /\ (Stray \/ Cut) => IInv'
<1> SUFFICES ASSUME IInv, Stray \/ Cut PROVE IInv'
  OBVIOUS
<1>0. /\ TypeOK /\ end \in [Ends -> End] /\ end' = end
      /\ cut' \in BOOLEAN /\ faulted' \in BOOLEAN /\ "client" \in Ends
  BY DEF IInv, TypeOK, Stray, Cut, Ends
<1>1. /\ wire' \in [Ends -> Seq(Frame)]
      /\ \A d \in Ends : Carried(wire'[d]) \subseteq InUse
  <2>1. CASE Stray
    BY <1>0, <2>1, Sends DEF Stray
  <2>2. CASE Cut
    BY <2>2, NoFrames DEF Cut
  <2> QED BY <2>1, <2>2
<1> QED BY <1>0, <1>1, Times

-----------------------------------------------------------------------------
(* The inductive invariant.                                                *)

LEMMA Initially == Init => IInv
<1> SUFFICES ASSUME Init PROVE IInv
  OBVIOUS
<1>1. TypeOK
  BY Records, NoFrames DEF Init, TypeOK
<1>2. InUse = {}
  <2>1. \A e \in Ends : Carried(wire[e]) = {} /\ ~end[e].establish
    BY NoFrames DEF Init, New
  <2> QED BY <2>1 DEF InUse
<1>3. OneKey
  BY <1>2 DEF OneKey
<1> QED BY <1>1, <1>3 DEF IInv

LEMMA Inductive == IInv /\ [Next]_vars => IInv'
<1> SUFFICES ASSUME IInv, [Next]_vars PROVE IInv'
  OBVIOUS
<1>0. cut \in BOOLEAN /\ faulted \in BOOLEAN
  BY DEF IInv, TypeOK
<1>1. CASE ClientOpen \/ ClientConnected \/ ServerAccept
  BY <1>1, Opens
<1>2. ASSUME NEW e \in Ends, Input(e) PROVE IInv'
  <2>1. CASE ReceiveUnexpected(e) \/ ReceiveRefused(e)
    <3>1. Abort(e) /\ cut' \in BOOLEAN /\ faulted' \in BOOLEAN
      BY <1>0, <2>1 DEF ReceiveUnexpected, ReceiveRefused
    <3> QED BY <3>1, Aborts
  <2>2. CASE ReceiveHeartbeat(e) \/ ReceiveData(e)
    BY <2>2, Heartbeats
  <2>3. CASE ReceiveRequest \/ RefuseRequest \/ ReceiveResponse
    BY <2>3, Requested, Refused, Responded
  <2> QED BY <1>2, <2>1, <2>2, <2>3 DEF Input
<1>3. ASSUME NEW e \in Ends, SendData(e) \/ Tick(e) \/ ClockBack(e) PROVE IInv'
  BY <1>3, DataSent, Ticking, ClocksBack
<1>4. ASSUME NEW e \in Ends, TickAbort(e) \/ Broken(e) \/ Close(e) PROVE IInv'
  <2>1. Abort(e) /\ cut' \in BOOLEAN /\ faulted' \in BOOLEAN
    BY <1>0, <1>4 DEF TickAbort, Broken, Close
  <2> QED BY <2>1, Aborts
<1>5. CASE Advance \/ Cut \/ Stray
  BY <1>5, Advances, Strays
<1>6. CASE UNCHANGED vars
  BY <1>6, Used, Times DEF vars, IInv, TypeOK
<1> QED BY <1>1, <1>2, <1>3, <1>4, <1>5, <1>6 DEF Next

\* Whatever the times, the keys and the faults, the fields of both sockets and
\* the frames under way keep their types: no time outgrows what its timer
\* compares it with, and only keys of the set are ever carried.
THEOREM Typing == Safe => []TypeOK
<1>1. Safe => []IInv
  BY Initially, Inductive, PTL DEF Safe
<1>2. IInv => TypeOK
  BY DEF IInv
<1> QED BY <1>1, <1>2, PTL

LEMMA Agrees == IInv => SessionAgrees
<1> SUFFICES ASSUME IInv PROVE SessionAgrees
  OBVIOUS
<1>0. /\ "client" \in Ends /\ "server" \in Ends /\ wire \in [Ends -> Seq(Frame)]
      /\ NoKey \notin InUse /\ \A k, l \in InUse : k = l
  BY SessionAssumption DEF IInv, TypeOK, OneKey, Ends
<1>1. ASSUME end["client"].establish, ~Is("server", "disposed")
      PROVE  end["server"].establish /\ end["server"].key = end["client"].key
  <2>1. end["client"].key \in InUse
    BY <1>0, <1>1, Used
  <2>2. end["server"].establish
    BY <1>1, <2>1 DEF IInv, OneKey
  <2> QED BY <1>0, <2>1, <2>2, Used
<1>2. ASSUME NEW e \in Ends, end[e].establish, Incoming(e, {"data"})
      PROVE  end[e].key # NoKey /\ Head(wire[Peer(e)]).key = end[e].key
  <2>1. end[e].key \in InUse
    BY <1>2, Used
  <2>2. Head(wire[Peer(e)]).key \in InUse
    <3>1. wire[Peer(e)] # <<>> /\ Head(wire[Peer(e)]).kind = "data"
      BY <1>2 DEF Incoming
    <3>2. Head(wire[Peer(e)]).key \in Carried(wire[Peer(e)])
      BY <1>0, <3>1, ReadFrame, PeerEnds
    <3> QED BY <3>2, Used, PeerEnds
  <2> QED BY <1>0, <2>1, <2>2
<1> QED BY <1>1, <1>2 DEF SessionAgrees

\* The two ends of a connection agree on their session: one key is ever in use,
\* the serving end answers for it as long as it lives, and what has arrived can
\* be read with the key its reader holds, whatever is late, lost or stray.
THEOREM Agreement == Safe => []SessionAgrees
<1>1. Safe => []IInv
  BY Initially, Inductive, PTL DEF Safe
<1> QED BY <1>1, Agrees, PTL
-----------------------------------------------------------------------------
(* While nothing late, lost or stray has happened.  The session is opened, *)
(* asked for, answered and then running; each stage bounds how long ago    *)
(* anything happened by the ages of the frames that are under way.         *)

\* c and s are the client's and the server's socket, wc and ws what each of
\* them has sent.
Kinds(w, K) == \A i \in 1..Len(w) : w[i].kind \in K

Waiting(c) == c.phase = "opened" /\ c.reading /\ ~c.establish /\ ~c.recvauth

Unasked(c, s, wc, ws) ==
  /\ c.phase \in {"new", "opened"} /\ ~c.reading /\ ~c.establish /\ ~c.recvauth
  /\ s.phase = "new" \/ (c.phase = "opened" /\ s.phase = "opened")
  /\ ~s.establish /\ ~s.recvauth
  /\ c.waited = 0 /\ s.waited = 0 /\ wc = <<>> /\ ws = <<>>

Asked(c, s, wc, ws) ==
  /\ Waiting(c)
  /\ (s.phase = "new" /\ c.waited = 0) \/ s.phase = "opened"
  /\ ~s.establish /\ ~s.recvauth
  /\ Len(wc) = 1 /\ wc[1].kind = "request" /\ ws = <<>>
  /\ c.waited = wc[1].age /\ s.waited = wc[1].age

Answered(c, s, wc, ws) ==
  /\ Waiting(c)
  /\ s.phase = "opened" /\ s.establish
  /\ wc = <<>> /\ ws # <<>> /\ ws[1].kind = "response"
  /\ \A i \in 2..Len(ws) : ws[i].kind = "data"
  /\ c.waited <= Delay + ws[1].age /\ s.idle <= ws[1].age

\* A heartbeat is under way that was sent when n intervals had passed.
Beating(w, idle, n) ==
  \E i \in 1..Len(w) : w[i].kind = "heartbeat" /\ idle <= n + w[i].age

Running(c, s, wc, ws) ==
  /\ c.phase = "opened" /\ c.reading /\ c.establish
  /\ s.phase = "opened" /\ s.establish
  /\ Kinds(wc, {"heartbeat", "data"}) /\ Kinds(ws, {"heartbeat", "data"})
  /\ c.ticked => c.beat < HeartbeatInterval
  /\ s.idle <= Delay + c.beat \/ Beating(wc, s.idle, Delay + HeartbeatInterval)
  /\ \/ c.idle <= c.beat
     \/ Beating(wc, c.idle, HeartbeatInterval)
     \/ Beating(ws, c.idle, HeartbeatInterval + Delay)

Sound(c, s, wc, ws) ==
  /\ ~c.closing /\ ~s.closing
  /\ \/ Unasked(c, s, wc, ws) \/ Asked(c, s, wc, ws)
     \/ Answered(c, s, wc, ws) \/ Running(c, s, wc, ws)

SoundSession ==
  ~faulted => ~cut /\ Sound(end["client"], end["server"], wire["client"], wire["server"])

\* What the times must be like: a request and its answer fit into the time for
\* authentication, and a heartbeat and its answer into that for inactivity.
TimesFit ==
  AuthWait > 2 * Delay /\ MaxInactive > HeartbeatInterval + 2 * Delay

LEMMA BeatingOn ==
  ASSUME NEW w \in Seq(Frame), NEW t \in Seq(Frame), NEW idle \in Nat, NEW n \in Nat,
         Beating(w, idle, n)
  PROVE  Beating(w \o t, idle, n)
<1>1. PICK i \in 1..Len(w) : w[i].kind = "heartbeat" /\ idle <= n + w[i].age
  BY DEF Beating
<1>2. i \in 1..Len(w \o t) /\ (w \o t)[i] = w[i]
  OBVIOUS
<1> QED BY <1>1, <1>2 DEF Beating

LEMMA BeatingNow ==
  ASSUME NEW w \in Seq(Frame), NEW f \in Frame, f.kind = "heartbeat",
         NEW idle \in Nat, NEW n \in Nat, idle <= n
  PROVE  Beating(w \o <<f>>, idle, n)
<1>1. /\ Len(w) + 1 \in 1..Len(w \o <<f>>) /\ (w \o <<f>>)[Len(w) + 1] = f
      /\ f.age \in Nat
  BY SessionAssumption DEF Frame
<1>2. idle <= n + f.age
  BY <1>1
<1> HIDE DEF Beating
<1>3. \E i \in 1..Len(w \o <<f>>) :
        (w \o <<f>>)[i].kind = "heartbeat" /\ idle <= n + (w \o <<f>>)[i].age
  BY <1>1, <1>2, Zenon
<1> QED BY <1>3 DEF Beating

LEMMA BeatingTail ==
  ASSUME NEW w \in Seq(Frame), w # <<>>, NEW idle \in Nat, NEW n \in Nat,
         Beating(w, idle, n)
  PROVE  \/ Beating(Tail(w), idle, n)
         \/ Head(w).kind = "heartbeat" /\ idle <= n + Head(w).age
<1>1. PICK i \in 1..Len(w) : w[i].kind = "heartbeat" /\ idle <= n + w[i].age
  BY DEF Beating
<1>2. CASE i = 1
  BY <1>1, <1>2
<1>3. CASE i # 1
  <2>1. i - 1 \in 1..Len(Tail(w)) /\ Tail(w)[i - 1] = w[i]
    BY <1>3
  <2> QED BY <1>1, <2>1 DEF Beating
<1> QED BY <1>2, <1>3

LEMMA KindsOn ==
  ASSUME NEW w \in Seq(Frame), NEW t \in Seq(Frame), NEW K, Kinds(w, K), Kinds(t, K)
  PROVE  Kinds(w \o t, K)
<1> SUFFICES ASSUME NEW i \in 1..Len(w \o t) PROVE (w \o t)[i].kind \in K
  BY DEF Kinds
<1>1. CASE i <= Len(w)
  <2>1. i \in 1..Len(w) /\ (w \o t)[i] = w[i]
    BY <1>1
  <2> QED BY <2>1 DEF Kinds
<1>2. CASE ~(i <= Len(w))
  <2>1. i - Len(w) \in 1..Len(t) /\ (w \o t)[i] = t[i - Len(w)]
    BY <1>2
  <2> QED BY <2>1 DEF Kinds
<1> QED BY <1>1, <1>2

LEMMA KindsTail ==
  ASSUME NEW w \in Seq(Frame), w # <<>>, NEW K, \A i \in 2..Len(w) : w[i].kind \in K
  PROVE  Kinds(Tail(w), K)
<1> SUFFICES ASSUME NEW i \in 1..Len(Tail(w)) PROVE Tail(w)[i].kind \in K
  BY DEF Kinds
<1>1. i + 1 \in 2..Len(w) /\ Tail(w)[i] = w[i + 1]
  OBVIOUS
<1> QED BY <1>1

LEMMA KindsOne ==
  ASSUME NEW f \in Frame, NEW K, f.kind \in K
  PROVE  Kinds(<<f>>, K)
  BY DEF Kinds

\* Frames grow older by one, as long as none is late.
Grown(w, u) ==
  /\ Len(u) = Len(w)
  /\ \A i \in 1..Len(w) : u[i].age = w[i].age + 1 /\ u[i].kind = w[i].kind
  /\ \A K : Kinds(w, K) => Kinds(u, K)
  /\ \A idle, j, n \in Nat :
       Beating(w, idle, n) /\ j <= idle + 1 => Beating(u, j, n)

LEMMA BeatingOlder ==
  ASSUME NEW w \in Seq(Frame), \A i \in 1..Len(w) : w[i].age < Delay,
         NEW u \in Seq(Frame),
         u = [i \in 1..Len(w) |-> [w[i] EXCEPT !.age = Aged(@, Delay)]]
  PROVE  Grown(w, u)
<1>1. DOMAIN u = 1..Len(w) /\ Len(u) \in Nat /\ Len(w) \in Nat /\ DOMAIN u = 1..Len(u)
  OBVIOUS
<1>2. Len(u) = Len(w)
  <2>1. 1..Len(u) = 1..Len(w)
    BY <1>1
  <2> QED BY <1>1, <2>1
<1>3. ASSUME NEW i \in 1..Len(w)
      PROVE  u[i].age = w[i].age + 1 /\ u[i].kind = w[i].kind /\ w[i].age \in Nat
  <2>1. w[i] \in Frame /\ w[i].age < Delay
    OBVIOUS
  <2>2. w[i].age \in Nat
    BY <2>1, SessionAssumption DEF Frame
  <2> DEFINE n == Aged(w[i].age, Delay)
  <2>3. n = w[i].age + 1
    BY <2>1 DEF Aged
  <2>4. u[i] = [w[i] EXCEPT !.age = n]
    OBVIOUS
  <2> HIDE DEF n
  <2>5. u[i].age = n /\ u[i].kind = w[i].kind
    BY <2>1, <2>4 DEF Frame
  <2> QED BY <2>2, <2>3, <2>5
<1>4. ASSUME NEW K, Kinds(w, K) PROVE Kinds(u, K)
  BY <1>2, <1>3, <1>4 DEF Kinds
<1>5. ASSUME NEW idle \in Nat, NEW j \in Nat, NEW n \in Nat, Beating(w, idle, n), j <= idle + 1
      PROVE  Beating(u, j, n)
  <2>1. PICK i \in 1..Len(w) : w[i].kind = "heartbeat" /\ idle <= n + w[i].age
    BY <1>5 DEF Beating
  <2>2. /\ i \in 1..Len(u) /\ u[i].kind = "heartbeat" /\ w[i].age \in Nat
        /\ u[i].age = w[i].age + 1
    BY <1>2, <1>3, <2>1
  <2>3. j <= n + u[i].age
    BY <1>5, <2>1, <2>2
  <2> QED BY <2>2, <2>3 DEF Beating
<1> QED BY <1>2, <1>3, <1>4, <1>5 DEF Grown

-----------------------------------------------------------------------------
(* The steps of a session in which nothing is late.                        *)

\* The state of such a session.
Going == IInv /\ ~faulted /\ ~cut
           /\ Sound(end["client"], end["server"], wire["client"], wire["server"])

\* What the steps leave to show.
Goes == Sound(end'["client"], end'["server"], wire'["client"], wire'["server"])

LEMMA EndTypes ==
  ASSUME NEW c \in End
  PROVE  /\ c.phase \in {"new", "opened", "disposed"}
         /\ c.reading \in BOOLEAN /\ c.recvauth \in BOOLEAN /\ c.establish \in BOOLEAN
         /\ c.ticked \in BOOLEAN /\ c.closing \in BOOLEAN
         /\ c.waited \in Nat /\ c.waited <= AuthWait
         /\ c.idle \in Nat /\ c.idle <= MaxInactive
         /\ c.beat \in Nat /\ c.beat <= HeartbeatInterval
  BY SessionAssumption DEF End

LEMMA FrameTypes ==
  ASSUME NEW w \in Seq(Frame), NEW i \in 1..Len(w)
  PROVE  w[i] \in Frame /\ w[i].age \in Nat /\ w[i].age <= Delay
<1>1. w[i] \in Frame
  OBVIOUS
<1> QED BY <1>1, SessionAssumption DEF Frame

LEMMA BeatingBound ==
  ASSUME NEW w \in Seq(Frame), NEW idle \in Nat, NEW n \in Nat, Beating(w, idle, n)
  PROVE  idle <= n + Delay
<1>1. PICK i \in 1..Len(w) : w[i].kind = "heartbeat" /\ idle <= n + w[i].age
  BY DEF Beating
<1>2. w[i].age \in Nat /\ w[i].age <= Delay
  BY FrameTypes
<1> QED BY <1>1, <1>2, SessionAssumption

LEMMA GoingTypes ==
  ASSUME Going
  PROVE  /\ TypeOK
         /\ end \in [Ends -> End] /\ wire \in [Ends -> Seq(Frame)]
         /\ Ends = {"client", "server"} /\ Peer("client") = "server" /\ Peer("server") = "client"
         /\ end["client"] \in End /\ end["server"] \in End
         /\ wire["client"] \in Seq(Frame) /\ wire["server"] \in Seq(Frame)
         /\ ~cut /\ ~faulted
  BY DEF Going, IInv, TypeOK, Ends, Peer

\* No timer has waited in vain.
LEMMA Calm ==
  ASSUME Going, TimesFit, NEW e \in Ends
  PROVE  ~Expired(e)
<1> DEFINE c == end["client"]  s == end["server"]  wc == wire["client"]  ws == wire["server"]
<1>1. /\ c \in End /\ s \in End /\ wc \in Seq(Frame) /\ ws \in Seq(Frame)
      /\ e = "client" \/ e = "server"
      /\ Sound(c, s, wc, ws)
  BY GoingTypes DEF Going, Ends
<1>2. /\ c.waited \in Nat /\ c.idle \in Nat /\ c.beat \in Nat /\ c.beat <= HeartbeatInterval
      /\ s.waited \in Nat /\ s.idle \in Nat /\ s.beat \in Nat
      /\ c.establish \in BOOLEAN /\ s.establish \in BOOLEAN
  BY <1>1, EndTypes
<1>3. /\ Delay \in Nat /\ HeartbeatInterval \in Nat /\ AuthWait \in Nat /\ MaxInactive \in Nat
      /\ AuthWait > 2 * Delay /\ MaxInactive > HeartbeatInterval + 2 * Delay
      /\ AuthWait > 0
  BY SessionAssumption DEF TimesFit
<1> SUFFICES /\ ~(IF c.establish THEN c.idle >= MaxInactive ELSE c.waited >= AuthWait)
             /\ ~(IF s.establish THEN s.idle >= MaxInactive ELSE s.waited >= AuthWait)
  BY <1>1 DEF Expired
<1> HIDE DEF c, s, wc, ws
<1>4. CASE Unasked(c, s, wc, ws)
  BY <1>2, <1>3, <1>4 DEF Unasked
<1>5. CASE Asked(c, s, wc, ws)
  <2>1. 1 \in 1..Len(wc)
    BY <1>1, <1>5 DEF Asked
  <2>2. wc[1].age \in Nat /\ wc[1].age <= Delay
    BY <1>1, <2>1, FrameTypes
  <2> QED BY <1>2, <1>3, <1>5, <2>2 DEF Asked, Waiting
<1>6. CASE Answered(c, s, wc, ws)
  <2>1. 1 \in 1..Len(ws)
    BY <1>1, <1>6 DEF Answered
  <2>2. ws[1].age \in Nat /\ ws[1].age <= Delay
    BY <1>1, <2>1, FrameTypes
  <2> QED BY <1>2, <1>3, <1>6, <2>2 DEF Answered, Waiting
<1>7. CASE Running(c, s, wc, ws)
  <2>1. s.idle <= Delay + HeartbeatInterval + Delay
    <3>1. CASE s.idle <= Delay + c.beat
      BY <1>2, <1>3, <3>1
    <3>2. CASE Beating(wc, s.idle, Delay + HeartbeatInterval)
      BY <1>1, <1>2, <1>3, <3>2, BeatingBound
    <3> QED BY <1>7, <3>1, <3>2 DEF Running
  <2>2. c.idle <= Delay + HeartbeatInterval + Delay
    <3>1. CASE c.idle <= c.beat
      BY <1>2, <1>3, <3>1
    <3>2. CASE Beating(wc, c.idle, HeartbeatInterval)
      <4>1. c.idle <= HeartbeatInterval + Delay
        BY <1>1, <1>2, <1>3, <3>2, BeatingBound
      <4> QED BY <1>2, <1>3, <4>1
    <3>3. CASE Beating(ws, c.idle, HeartbeatInterval + Delay)
      <4>1. HeartbeatInterval + Delay \in Nat
        BY <1>3
      <4>2. c.idle <= (HeartbeatInterval + Delay) + Delay
        BY <1>1, <1>2, <3>3, <4>1, BeatingBound
      <4> QED BY <1>2, <1>3, <4>2
    <3> QED BY <1>7, <3>1, <3>2, <3>3 DEF Running
  <2> QED BY <1>2, <1>3, <1>7, <2>1, <2>2 DEF Running
<1> QED BY <1>1, <1>4, <1>5, <1>6, <1>7 DEF Sound

\* While both ends live and nothing is cut, what is sent is under way.
LEMMA SentWhole ==
  ASSUME Going, NEW e \in Ends, NEW kind, NEW k
  PROVE  Sent(e, kind, k) = <<[kind |-> kind, key |-> k, age |-> 0]>>
<1>1. ~Is("client", "disposed") /\ ~Is("server", "disposed")
  BY DEF Going, Sound, Unasked, Asked, Answered, Running, Waiting, Is
<1> QED BY <1>1, GoingTypes DEF Sent, Ends, Peer

LEMMA OpeningGoes ==
  ASSUME Going, ClientOpen \/ ClientConnected \/ ServerAccept
  PROVE  Goes
<1> DEFINE c == end["client"]  s == end["server"]  wc == wire["client"]  ws == wire["server"]
<1>1. /\ c \in End /\ s \in End /\ wc \in Seq(Frame) /\ ws \in Seq(Frame)
      /\ Sound(c, s, wc, ws)
  BY GoingTypes DEF Going
<1>2. CASE ClientOpen
  <2> DEFINE r == [c EXCEPT !.phase = "opened"]
  <2>1. end'["client"] = r /\ end'["server"] = s /\ wire' = wire /\ c.phase = "new"
    BY <1>2, GoingTypes DEF ClientOpen, Is
  <2>2. /\ r.phase = "opened" /\ r.reading = c.reading /\ r.establish = c.establish
        /\ r.recvauth = c.recvauth /\ r.waited = c.waited /\ r.closing = c.closing
    BY <1>1 DEF End
  <2> HIDE DEF c, s, wc, ws, r
  <2>3. Unasked(c, s, wc, ws) /\ ~c.closing /\ ~s.closing
    BY <1>1, <2>1 DEF Sound, Unasked, Asked, Answered, Running, Waiting
  <2>4. Unasked(r, s, wc, ws) /\ ~r.closing
    BY <2>2, <2>3 DEF Unasked
  <2> QED BY <2>1, <2>3, <2>4 DEF Goes, Sound, wc, ws
<1>3. CASE ClientConnected
  <2> DEFINE r == [c EXCEPT !.reading = TRUE]
             f == [kind |-> "request", key |-> NoKey, age |-> 0]
  <2>1. end'["client"] = r /\ end'["server"] = s /\ c.phase = "opened" /\ ~c.reading
    BY <1>3, GoingTypes DEF ClientConnected, Is
  <2>2. wire'["client"] = wc \o <<f>> /\ wire'["server"] = ws
    BY <1>3, GoingTypes, SentWhole DEF ClientConnected, Send
  <2>3. /\ r.phase = "opened" /\ r.reading /\ r.establish = c.establish
        /\ r.recvauth = c.recvauth /\ r.waited = c.waited /\ r.closing = c.closing
    BY <1>1, <2>1 DEF End
  <2> HIDE DEF c, s, wc, ws, r
  <2>4. Unasked(c, s, wc, ws) /\ ~c.closing /\ ~s.closing
    BY <1>1, <2>1 DEF Sound, Unasked, Asked, Answered, Running, Waiting
  <2>5. Len(<<>> \o <<f>>) = 1 /\ (<<>> \o <<f>>)[1] = f /\ f.kind = "request" /\ f.age = 0
    OBVIOUS
  <2> HIDE DEF f
  <2>6. Asked(r, s, wire'["client"], ws) /\ ~r.closing
    BY <2>2, <2>3, <2>4, <2>5 DEF Unasked, Asked, Waiting
  <2> QED BY <2>1, <2>2, <2>4, <2>6 DEF Goes, Sound
<1>4. CASE ServerAccept
  <2> DEFINE r == [s EXCEPT !.phase = "opened", !.reading = TRUE]
  <2>1. end'["server"] = r /\ end'["client"] = c /\ wire' = wire /\ s.phase = "new" /\ c.phase # "new"
    BY <1>4, GoingTypes DEF ServerAccept, Is
  <2>2. /\ r.phase = "opened" /\ r.establish = s.establish
        /\ r.recvauth = s.recvauth /\ r.waited = s.waited /\ r.closing = s.closing
    BY <1>1 DEF End
  <2> HIDE DEF c, s, wc, ws, r
  <2>3. (Unasked(c, s, wc, ws) \/ Asked(c, s, wc, ws)) /\ ~c.closing /\ ~s.closing
    BY <1>1, <2>1 DEF Sound, Answered, Running
  <2>4. (Unasked(c, r, wc, ws) \/ Asked(c, r, wc, ws)) /\ ~r.closing
    BY <2>1, <2>2, <2>3 DEF Unasked, Asked, Waiting
  <2> QED BY <2>1, <2>3, <2>4 DEF Goes, Sound, wc, ws
<1> QED BY <1>2, <1>3, <1>4

\* The end that reads, and the frames on both ways.
LEMMA Arrival ==
  ASSUME Going, NEW e \in Ends, NEW t, Receive(e, t)
  PROVE  wire'[e] = wire[e] \o t /\ wire'[Peer(e)] = Tail(wire[Peer(e)])
  BY GoingTypes, PeerEnds DEF Receive

\* What a socket is after it has heard a frame.
LEMMA HeardTypes ==
  ASSUME Going, NEW e \in Ends
  PROVE  /\ Heard(e) \in End /\ Heard(e).idle = 0
         /\ \A x \in {"phase", "reading", "recvauth", "establish", "waited", "beat",
                      "ticked", "closing"} : Heard(e)[x] = end[e][x]
<1>1. end[e] \in End /\ 0 \in 0..MaxInactive
  BY GoingTypes, SessionAssumption
<1> QED BY <1>1 DEF Heard, End

\* A frame of these kinds has arrived, so the session is not further or less
\* far than that.
LEMMA WhereRequested ==
  ASSUME Going, AwaitsAuth("server"), Incoming("server", {"request"})
  PROVE  Asked(end["client"], end["server"], wire["client"], wire["server"])
<1> DEFINE c == end["client"]  s == end["server"]  wc == wire["client"]  ws == wire["server"]
<1>1. Sound(c, s, wc, ws) /\ ~s.establish /\ wc # <<>>
  BY GoingTypes DEF Going, AwaitsAuth, Incoming
<1> HIDE DEF c, s, wc, ws
<1>2. Asked(c, s, wc, ws)
  BY <1>1 DEF Sound, Unasked, Answered, Running
<1> QED BY <1>2 DEF c, s, wc, ws

LEMMA WhereResponded ==
  ASSUME Going, AwaitsAuth("client"), Incoming("client", {"response"})
  PROVE  Answered(end["client"], end["server"], wire["client"], wire["server"])
<1> DEFINE c == end["client"]  s == end["server"]  wc == wire["client"]  ws == wire["server"]
<1>1. Sound(c, s, wc, ws) /\ ~c.establish /\ ws # <<>>
  BY GoingTypes DEF Going, AwaitsAuth, Incoming
<1> HIDE DEF c, s, wc, ws
<1>2. Answered(c, s, wc, ws)
  BY <1>1 DEF Sound, Unasked, Asked, Running
<1> QED BY <1>2 DEF c, s, wc, ws

LEMMA WhereHeard ==
  ASSUME Going, NEW e \in Ends, end[e].establish, Incoming(e, {"heartbeat", "data"})
  PROVE  Running(end["client"], end["server"], wire["client"], wire["server"])
<1> DEFINE c == end["client"]  s == end["server"]  wc == wire["client"]  ws == wire["server"]
<1>1. /\ Sound(c, s, wc, ws) /\ ws \in Seq(Frame)
      /\ \/ c.establish
         \/ s.establish /\ wc # <<>>
  BY GoingTypes DEF Going, Incoming
<1> HIDE DEF c, s, wc, ws
<1>2. Running(c, s, wc, ws)
  BY <1>1 DEF Sound, Unasked, Asked, Answered, Waiting
<1> QED BY <1>2 DEF c, s, wc, ws

\* No end is told what it does not expect.
LEMMA Expected ==
  ASSUME Going, NEW e \in Ends
  PROVE  ~ReceiveUnexpected(e)
<1> SUFFICES ASSUME ReceiveUnexpected(e) PROVE FALSE
  OBVIOUS
<1> DEFINE c == end["client"]  s == end["server"]  wc == wire["client"]  ws == wire["server"]
<1>1. /\ Sound(c, s, wc, ws) /\ ws \in Seq(Frame) /\ wc \in Seq(Frame)
      /\ e = "client" \/ e = "server"
  BY GoingTypes DEF Going, Ends
<1>2. CASE e = "client"
  <2>1. /\ ws # <<>> /\ c.reading
        /\ \/ ~c.establish /\ Head(ws).kind \in {"heartbeat", "data"}
           \/ /\ c.establish \/ c.recvauth
              /\ Head(ws).kind \in {"request", "response", "refusal"}
    BY <1>2, GoingTypes DEF ReceiveUnexpected, Incoming
  <2>2. 1 \in 1..Len(ws) /\ Head(ws) = ws[1]
    BY <1>1, <2>1
  <2> HIDE DEF c, s, wc, ws
  <2> QED BY <1>1, <2>1, <2>2 DEF Sound, Unasked, Asked, Answered, Running, Waiting, Kinds
<1>3. CASE e = "server"
  <2>1. /\ wc # <<>> /\ s.reading
        /\ \/ ~s.establish /\ Head(wc).kind \in {"heartbeat", "data"}
           \/ /\ s.establish \/ s.recvauth
              /\ Head(wc).kind \in {"request", "response", "refusal"}
    BY <1>3, GoingTypes DEF ReceiveUnexpected, Incoming
  <2>2. 1 \in 1..Len(wc) /\ Head(wc) = wc[1]
    BY <1>1, <2>1
  <2> HIDE DEF c, s, wc, ws
  <2> QED BY <1>1, <2>1, <2>2 DEF Sound, Unasked, Asked, Answered, Running, Waiting, Kinds
<1> QED BY <1>1, <1>2, <1>3

LEMMA RequestGoes ==
  ASSUME Going, ReceiveRequest
  PROVE  Goes
<1> DEFINE c == end["client"]  s == end["server"]  wc == wire["client"]  ws == wire["server"]
<1>1. /\ c \in End /\ s \in End /\ wc \in Seq(Frame) /\ ws \in Seq(Frame)
      /\ ~c.closing /\ ~s.closing
  BY GoingTypes DEF Going, Sound
<1>2. Asked(c, s, wc, ws) /\ s.phase = "opened"
  BY WhereRequested DEF ReceiveRequest, Incoming, Is
<1>3. PICK k \in Keys :
        /\ Receive("server", Sent("server", "response", k))
        /\ end' = [end EXCEPT !["server"] = [Heard("server") EXCEPT
                     !.recvauth = TRUE, !.waited = 0, !.key = k,
                     !.establish = TRUE, !.beat = 0]]
  BY Zenon DEF ReceiveRequest
<1> DEFINE f == [kind |-> "response", key |-> k, age |-> 0]
           r == [Heard("server") EXCEPT !.recvauth = TRUE, !.waited = 0, !.key = k,
                   !.establish = TRUE, !.beat = 0]
<1>4. wire'["server"] = ws \o <<f>> /\ wire'["client"] = Tail(wc)
  <2>1. Receive("server", Sent("server", "response", k)) /\ "server" \in Ends
    BY <1>3, GoingTypes
  <2>2. Receive("server", <<f>>)
    BY <2>1, SentWhole
  <2> HIDE DEF f
  <2> QED BY <2>1, <2>2, Arrival, GoingTypes
<1>5. end'["client"] = c /\ end'["server"] = r
  BY <1>3, GoingTypes
<1>6. r.phase = "opened" /\ r.establish /\ r.idle = 0 /\ ~r.closing
  <2>1. /\ Heard("server") \in End /\ Heard("server").idle = 0
        /\ Heard("server").phase = s.phase /\ Heard("server").closing = s.closing
    BY HeardTypes, GoingTypes
  <2> HIDE DEF c, s, wc, ws
  <2> QED BY <1>1, <1>2, <2>1 DEF End
<1> HIDE DEF c, s, wc, ws, r
<1>7. Tail(wc) = <<>>
  <2>1. wc \in Seq(Frame) /\ Len(wc) = 1
    BY <1>1, <1>2 DEF Asked
  <2>2. wc # <<>>
    BY <2>1
  <2>3. Tail(wc) \in Seq(Frame) /\ Len(Tail(wc)) = 0
    BY <2>1, <2>2
  <2> QED BY <2>3, EmptySeq
<1>8. /\ Len(<<>> \o <<f>>) = 1 /\ (<<>> \o <<f>>)[1] = f /\ <<>> \o <<f>> # <<>>
      /\ f.kind = "response" /\ f.age = 0
  OBVIOUS
<1>9. c.waited <= Delay + f.age
  <2>1. 1 \in 1..Len(wc)
    BY <1>1, <1>2 DEF Asked
  <2>2. wc[1].age \in Nat /\ wc[1].age <= Delay
    BY <1>1, <2>1, FrameTypes
  <2> QED BY <1>2, <1>8, <2>2, SessionAssumption DEF Asked
<1> HIDE DEF f
<1>10. \A i \in 2..Len(<<>> \o <<f>>) : FALSE
  BY <1>8
<1>11. Answered(c, r, <<>>, <<>> \o <<f>>)
  BY <1>2, <1>6, <1>8, <1>9, <1>10, SessionAssumption DEF Asked, Answered
<1>12. wire'["client"] = <<>> /\ wire'["server"] = <<>> \o <<f>>
  BY <1>2, <1>4, <1>7 DEF Asked
<1> QED BY <1>1, <1>5, <1>6, <1>11, <1>12 DEF Goes, Sound

LEMMA ResponseGoes ==
  ASSUME Going, ReceiveResponse
  PROVE  Goes
<1> DEFINE c == end["client"]  s == end["server"]  wc == wire["client"]  ws == wire["server"]
<1>1. /\ c \in End /\ s \in End /\ wc \in Seq(Frame) /\ ws \in Seq(Frame)
      /\ ~c.closing /\ ~s.closing
  BY GoingTypes DEF Going, Sound
<1>2. Answered(c, s, wc, ws)
  BY WhereResponded DEF ReceiveResponse
<1> DEFINE r == [Heard("client") EXCEPT !.recvauth = TRUE, !.waited = 0,
                   !.key = Head(wire["server"]).key, !.establish = TRUE, !.beat = 0]
<1>3. wire'["client"] = wc \o <<>> /\ wire'["server"] = Tail(ws)
  BY Arrival, GoingTypes DEF ReceiveResponse
<1>4. end'["server"] = s /\ end'["client"] = r
  BY GoingTypes DEF ReceiveResponse
<1>5. /\ r.phase = c.phase /\ r.reading = c.reading /\ r.establish /\ r.idle = 0
      /\ r.beat = 0 /\ r.closing = c.closing
  <2>1. /\ Heard("client") \in End /\ Heard("client").idle = 0
        /\ Heard("client").phase = c.phase /\ Heard("client").closing = c.closing
        /\ Heard("client").reading = c.reading
    BY HeardTypes, GoingTypes
  <2> DEFINE h == Heard("client")  k == Head(wire["server"]).key
  <2>2. h \in End /\ r = [h EXCEPT !.recvauth = TRUE, !.waited = 0,
                            !.key = k, !.establish = TRUE, !.beat = 0]
    BY <2>1
  <2> HIDE DEF c, s, wc, ws, h, k, r
  <2>3. /\ r.phase = h.phase /\ r.reading = h.reading /\ r.establish /\ r.idle = h.idle
        /\ r.beat = 0 /\ r.closing = h.closing
    BY <2>2 DEF End
  <2> QED BY <2>1, <2>3 DEF h
<1> HIDE DEF c, s, wc, ws, r
<1>6. wc \o <<>> = <<>> /\ Kinds(<<>>, {"heartbeat", "data"})
  BY <1>2 DEF Answered, Kinds
<1>7. Kinds(Tail(ws), {"heartbeat", "data"})
  BY <1>1, <1>2, KindsTail DEF Answered
<1>8. s.idle <= Delay + r.beat
  <2>1. 1 \in 1..Len(ws) /\ s.idle \in Nat
    BY <1>1, <1>2, EndTypes DEF Answered
  <2>2. ws[1].age \in Nat /\ ws[1].age <= Delay
    BY <1>1, <2>1, FrameTypes
  <2> QED BY <1>2, <1>5, <2>1, <2>2, SessionAssumption DEF Answered
<1>9. Running(r, s, <<>>, Tail(ws))
  BY <1>2, <1>5, <1>6, <1>7, <1>8, SessionAssumption DEF Answered, Waiting, Running
<1> QED BY <1>1, <1>3, <1>4, <1>5, <1>6, <1>9 DEF Goes, Sound

\* The server hears a frame; if it is a heartbeat, it answers.
LEMMA ServerHearsGoes ==
  ASSUME Going, ReceiveHeartbeat("server") \/ ReceiveData("server")
  PROVE  Goes
<1> DEFINE c == end["client"]  s == end["server"]  wc == wire["client"]  ws == wire["server"]
           r == Heard("server")
           f == [kind |-> "heartbeat", key |-> NoKey, age |-> 0]
<1>1. /\ c \in End /\ s \in End /\ wc \in Seq(Frame) /\ ws \in Seq(Frame)
      /\ ~c.closing /\ ~s.closing
  BY GoingTypes DEF Going, Sound
<1>2. Running(c, s, wc, ws) /\ wc # <<>>
  BY WhereHeard, GoingTypes DEF ReceiveHeartbeat, ReceiveData, Incoming
<1>3. end'["client"] = c /\ end'["server"] = r
  BY GoingTypes DEF ReceiveHeartbeat, ReceiveData
<1>4. r.phase = s.phase /\ r.establish = s.establish /\ r.idle = 0 /\ r.closing = s.closing
  BY HeardTypes, GoingTypes
<1>5. /\ wire'["client"] = Tail(wc)
      /\ \/ Head(wc).kind = "heartbeat" /\ wire'["server"] = ws \o <<f>>
         \/ Head(wc).kind = "data" /\ wire'["server"] = ws \o <<>>
  <2>1. CASE ReceiveHeartbeat("server")
    <3>1. /\ Receive("server", Sent("server", "heartbeat", NoKey)) /\ "server" \in Ends
          /\ Head(wc).kind = "heartbeat"
      BY <2>1, GoingTypes DEF ReceiveHeartbeat, Incoming
    <3>2. Receive("server", <<f>>)
      BY <3>1, SentWhole
    <3> HIDE DEF f
    <3> QED BY <3>1, <3>2, Arrival, GoingTypes
  <2>2. CASE ReceiveData("server")
    <3>1. Receive("server", <<>>) /\ "server" \in Ends /\ Head(wc).kind = "data"
      BY <2>2, GoingTypes DEF ReceiveData, Incoming
    <3> QED BY <3>1, Arrival, GoingTypes
  <2> QED BY <2>1, <2>2
<1>6. f \in Frame /\ f.kind = "heartbeat"
  BY SessionAssumption DEF Frame
<1> HIDE DEF c, s, wc, ws, r, f
<1>7. Tail(wc) \in Seq(Frame) /\ Head(wc) \in Frame /\ Head(wc).age <= Delay
      /\ Head(wc).age \in Nat
  <2>1. 1 \in 1..Len(wc) /\ Head(wc) = wc[1] /\ Tail(wc) \in Seq(Frame)
    BY <1>1, <1>2
  <2> QED BY <1>1, <2>1, FrameTypes
<1>8. /\ c.idle \in Nat /\ c.beat \in Nat /\ HeartbeatInterval \in Nat /\ Delay \in Nat
      /\ HeartbeatInterval + Delay \in Nat
  BY <1>1, EndTypes, SessionAssumption
<1>9. Kinds(Tail(wc), {"heartbeat", "data"})
  <2>1. \A i \in 2..Len(wc) : wc[i].kind \in {"heartbeat", "data"}
    BY <1>1, <1>2 DEF Running, Kinds
  <2> QED BY <1>1, <1>2, <2>1, KindsTail
<1>10. Kinds(wire'["server"], {"heartbeat", "data"})
  <2>1. Kinds(<<f>>, {"heartbeat", "data"}) /\ <<f>> \in Seq(Frame)
        /\ Kinds(<<>>, {"heartbeat", "data"}) /\ <<>> \in Seq(Frame)
    BY <1>6, KindsOne DEF Kinds
  <2> QED BY <1>1, <1>2, <1>5, <2>1, KindsOn DEF Running
<1>11. \A n \in Nat : Beating(ws, c.idle, n) => Beating(wire'["server"], c.idle, n)
  <2>1. <<f>> \in Seq(Frame) /\ <<>> \in Seq(Frame)
    BY <1>6
  <2> QED BY <1>1, <1>5, <1>8, <2>1, BeatingOn
<1>12. \/ c.idle <= c.beat
       \/ Beating(Tail(wc), c.idle, HeartbeatInterval)
       \/ Beating(wire'["server"], c.idle, HeartbeatInterval + Delay)
  <2>1. CASE Beating(wc, c.idle, HeartbeatInterval)
    <3>1. \/ Beating(Tail(wc), c.idle, HeartbeatInterval)
          \/ /\ Head(wc).kind = "heartbeat"
             /\ c.idle <= HeartbeatInterval + Head(wc).age
      BY <1>1, <1>2, <1>8, <2>1, BeatingTail
    <3>2. ASSUME Head(wc).kind = "heartbeat", c.idle <= HeartbeatInterval + Head(wc).age
          PROVE  Beating(wire'["server"], c.idle, HeartbeatInterval + Delay)
      <4>1. c.idle <= HeartbeatInterval + Delay
        <5> DEFINE a == Head(wc).age
        <5>1. a \in Nat /\ a <= Delay /\ c.idle <= HeartbeatInterval + a
          BY <1>7, <3>2
        <5> HIDE DEF a
        <5> QED BY <1>8, <5>1
      <4>2. wire'["server"] = ws \o <<f>>
        BY <1>5, <3>2
      <4> QED BY <1>1, <1>6, <1>8, <4>1, <4>2, BeatingNow
    <3> QED BY <3>1, <3>2
  <2> QED BY <1>2, <1>8, <1>11, <2>1 DEF Running
<1>13. Running(c, r, Tail(wc), wire'["server"])
  BY <1>2, <1>4, <1>8, <1>9, <1>10, <1>12 DEF Running
<1> QED BY <1>1, <1>3, <1>4, <1>5, <1>13 DEF Goes, Sound

LEMMA ClientHearsGoes ==
  ASSUME Going, ReceiveHeartbeat("client") \/ ReceiveData("client")
  PROVE  Goes
<1> DEFINE c == end["client"]  s == end["server"]  wc == wire["client"]  ws == wire["server"]
           r == Heard("client")
<1>1. /\ c \in End /\ s \in End /\ wc \in Seq(Frame) /\ ws \in Seq(Frame)
      /\ ~c.closing /\ ~s.closing
  BY GoingTypes DEF Going, Sound
<1>2. Running(c, s, wc, ws) /\ ws # <<>>
  BY WhereHeard, GoingTypes DEF ReceiveHeartbeat, ReceiveData, Incoming
<1>3. end'["server"] = s /\ end'["client"] = r
  BY GoingTypes DEF ReceiveHeartbeat, ReceiveData
<1>4. /\ r.phase = c.phase /\ r.reading = c.reading /\ r.establish = c.establish
      /\ r.idle = 0 /\ r.beat = c.beat /\ r.ticked = c.ticked /\ r.closing = c.closing
  BY HeardTypes, GoingTypes
<1>5. wire'["server"] = Tail(ws) /\ wire'["client"] = wc
  <2>1. Receive("client", <<>>) /\ "client" \in Ends
    BY GoingTypes DEF ReceiveHeartbeat, ReceiveData
  <2>2. wc \o <<>> = wc
    BY <1>1
  <2> QED BY <2>1, <2>2, Arrival, GoingTypes
<1> HIDE DEF c, s, wc, ws, r
<1>6. c.beat \in Nat
  BY <1>1, EndTypes
<1>7. Kinds(Tail(ws), {"heartbeat", "data"})
  <2>1. \A i \in 2..Len(ws) : ws[i].kind \in {"heartbeat", "data"}
    BY <1>1, <1>2 DEF Running, Kinds
  <2> QED BY <1>1, <1>2, <2>1, KindsTail
<1>8. Running(r, s, wc, Tail(ws))
  BY <1>2, <1>4, <1>6, <1>7 DEF Running
<1> QED BY <1>1, <1>3, <1>4, <1>5, <1>8 DEF Goes, Sound

LEMMA DataGoes ==
  ASSUME Going, NEW e \in Ends, SendData(e)
  PROVE  Goes
<1> DEFINE c == end["client"]  s == end["server"]  wc == wire["client"]  ws == wire["server"]
           f == [kind |-> "data", key |-> end[e].key, age |-> 0]
<1>1. /\ c \in End /\ s \in End /\ wc \in Seq(Frame) /\ ws \in Seq(Frame)
      /\ ~c.closing /\ ~s.closing /\ Sound(c, s, wc, ws)
      /\ c.idle \in Nat /\ s.idle \in Nat /\ HeartbeatInterval \in Nat /\ Delay \in Nat
      /\ Delay + HeartbeatInterval \in Nat /\ HeartbeatInterval + Delay \in Nat
  BY GoingTypes, EndTypes, SessionAssumption DEF Going, Sound
<1>2. end' = end /\ wire' = [wire EXCEPT ![e] = @ \o <<f>>] /\ end[e].establish
  BY SentWhole DEF SendData, Send
<1>3. f \in Frame /\ f.kind = "data"
  <2>1. end[e].key \in Keys \cup {NoKey}
    BY GoingTypes DEF End
  <2> QED BY <2>1, SessionAssumption DEF Frame
<1> HIDE DEF f
<1>4. <<f>> \in Seq(Frame) /\ Kinds(<<f>>, {"heartbeat", "data"})
  BY <1>3, KindsOne
<1>5. CASE e = "client"
  <2>1. wire'["client"] = wc \o <<f>> /\ wire'["server"] = ws /\ c.establish
    BY <1>2, <1>5, GoingTypes
  <2> HIDE DEF c, s, wc, ws
  <2>2. Running(c, s, wc, ws)
    BY <1>1, <2>1 DEF Sound, Unasked, Asked, Answered, Waiting
  <2>3. Kinds(wc \o <<f>>, {"heartbeat", "data"})
    BY <1>1, <1>4, <2>2, KindsOn DEF Running
  <2>4. /\ Beating(wc, s.idle, Delay + HeartbeatInterval)
             => Beating(wc \o <<f>>, s.idle, Delay + HeartbeatInterval)
        /\ Beating(wc, c.idle, HeartbeatInterval)
             => Beating(wc \o <<f>>, c.idle, HeartbeatInterval)
    BY <1>1, <1>4, BeatingOn
  <2>5. Running(c, s, wc \o <<f>>, ws)
    BY <2>2, <2>3, <2>4 DEF Running
  <2> QED BY <1>1, <1>2, <2>1, <2>5 DEF Goes, Sound, c, s
<1>6. CASE e = "server"
  <2>1. wire'["server"] = ws \o <<f>> /\ wire'["client"] = wc /\ s.establish
    BY <1>2, <1>6, GoingTypes
  <2> HIDE DEF c, s, wc, ws
  <2>2. CASE Running(c, s, wc, ws)
    <3>1. Kinds(ws \o <<f>>, {"heartbeat", "data"})
      BY <1>1, <1>4, <2>2, KindsOn DEF Running
    <3>2. Beating(ws, c.idle, HeartbeatInterval + Delay)
             => Beating(ws \o <<f>>, c.idle, HeartbeatInterval + Delay)
      BY <1>1, <1>4, BeatingOn
    <3>3. Running(c, s, wc, ws \o <<f>>)
      BY <2>2, <3>1, <3>2 DEF Running
    <3> QED BY <1>1, <1>2, <2>1, <3>3 DEF Goes, Sound, c, s
  <2>3. CASE Answered(c, s, wc, ws)
    <3> DEFINE u == ws \o <<f>>
    <3>1. ws \in Seq(Frame) /\ ws # <<>>
      BY <1>1, <2>3 DEF Answered
    <3>2. u # <<>> /\ u[1] = ws[1]
      BY <3>1
    <3>3. ASSUME NEW i \in 2..Len(u) PROVE u[i].kind = "data"
      <4>1. Len(u) = Len(ws) + 1 /\ Len(ws) \in Nat /\ u[Len(ws) + 1] = f
            /\ \A j \in 1..Len(ws) : u[j] = ws[j]
        BY <3>1
      <4> HIDE DEF u
      <4>2. (i \in 2..Len(ws) /\ u[i] = ws[i]) \/ u[i] = f
        BY <4>1
      <4> QED BY <1>3, <2>3, <4>2 DEF Answered
    <3> HIDE DEF u
    <3>4. Answered(c, s, wc, u)
      BY <2>3, <3>2, <3>3 DEF Answered
    <3> QED BY <1>1, <1>2, <2>1, <3>4 DEF Goes, Sound, c, s, u
  <2> QED BY <1>1, <2>1, <2>2, <2>3 DEF Sound, Unasked, Asked
<1> QED BY <1>5, <1>6, GoingTypes

LEMMA BeatGoes ==
  ASSUME Going, NEW e \in Ends, TickBeat(e)
  PROVE  Goes
<1> DEFINE c == end["client"]  s == end["server"]  wc == wire["client"]  ws == wire["server"]
           f == [kind |-> "heartbeat", key |-> NoKey, age |-> 0]
           r == [c EXCEPT !.ticked = TRUE, !.beat = 0]
<1>1. /\ c \in End /\ s \in End /\ wc \in Seq(Frame) /\ ws \in Seq(Frame)
      /\ ~c.closing /\ ~s.closing /\ Sound(c, s, wc, ws)
      /\ c.idle \in Nat /\ s.idle \in Nat /\ c.beat \in Nat /\ c.beat <= HeartbeatInterval
      /\ HeartbeatInterval \in Nat /\ HeartbeatInterval > 0 /\ Delay \in Nat
      /\ Delay + HeartbeatInterval \in Nat
  BY GoingTypes, EndTypes, SessionAssumption DEF Going, Sound
<1>2. e = "client" /\ c.establish /\ end'["client"] = r /\ end'["server"] = s
  BY GoingTypes DEF TickBeat, BeatDue
<1>3. wire'["client"] = wc \o <<f>> /\ wire'["server"] = ws
  <2>1. wire' = [wire EXCEPT !["client"] = @ \o Sent("client", "heartbeat", NoKey)]
        /\ "client" \in Ends
    BY <1>2, GoingTypes DEF TickBeat, Send
  <2>2. Sent("client", "heartbeat", NoKey) = <<f>>
    BY <2>1, SentWhole
  <2> HIDE DEF f
  <2> QED BY <2>1, <2>2, GoingTypes
<1>4. f \in Frame /\ f.kind = "heartbeat"
  BY SessionAssumption DEF Frame
<1>5. /\ r.phase = c.phase /\ r.reading = c.reading /\ r.establish = c.establish
      /\ r.idle = c.idle /\ r.beat = 0 /\ r.closing = c.closing
  BY <1>1 DEF End
<1> HIDE DEF c, s, wc, ws, r, f
<1>6. Running(c, s, wc, ws)
  BY <1>1, <1>2 DEF Sound, Unasked, Asked, Answered, Waiting
<1>7. <<f>> \in Seq(Frame) /\ Kinds(<<f>>, {"heartbeat", "data"})
  BY <1>4, KindsOne
<1>8. Kinds(wc \o <<f>>, {"heartbeat", "data"})
  BY <1>1, <1>6, <1>7, KindsOn DEF Running
<1>9. Beating(wc \o <<f>>, s.idle, Delay + HeartbeatInterval)
  <2>1. CASE s.idle <= Delay + c.beat
    <3>1. s.idle <= Delay + HeartbeatInterval
      BY <1>1, <2>1
    <3> QED BY <1>1, <1>4, <3>1, BeatingNow
  <2>2. CASE Beating(wc, s.idle, Delay + HeartbeatInterval)
    BY <1>1, <1>7, <2>2, BeatingOn
  <2> QED BY <1>6, <2>1, <2>2 DEF Running
<1>10. \/ Beating(wc \o <<f>>, c.idle, HeartbeatInterval)
       \/ Beating(ws, c.idle, HeartbeatInterval + Delay)
  <2>1. CASE c.idle <= c.beat
    <3>1. c.idle <= HeartbeatInterval
      BY <1>1, <2>1
    <3> QED BY <1>1, <1>4, <3>1, BeatingNow
  <2>2. CASE Beating(wc, c.idle, HeartbeatInterval)
    BY <1>1, <1>7, <2>2, BeatingOn
  <2> QED BY <1>6, <2>1, <2>2 DEF Running
<1>11. Running(r, s, wc \o <<f>>, ws)
  BY <1>1, <1>5, <1>6, <1>8, <1>9, <1>10 DEF Running
<1> QED BY <1>1, <1>2, <1>3, <1>5, <1>11 DEF Goes, Sound

LEMMA NothingGoes ==
  ASSUME Going, NEW e \in Ends, TickNothing(e)
  PROVE  Goes
<1> DEFINE c == end["client"]  s == end["server"]  wc == wire["client"]  ws == wire["server"]
           r == [end[e] EXCEPT !.ticked = TRUE]
<1>1. /\ c \in End /\ s \in End /\ end[e] \in End /\ Sound(c, s, wc, ws)
      /\ c.beat \in Nat /\ HeartbeatInterval \in Nat
  BY GoingTypes, EndTypes, SessionAssumption DEF Going
<1>2. wire' = wire /\ end' = [end EXCEPT ![e] = r]
      /\ (end[e].establish /\ e = "client" => end[e].beat < HeartbeatInterval)
  BY <1>1, GoingTypes DEF TickNothing, BeatDue
<1>3. /\ r.phase = end[e].phase /\ r.reading = end[e].reading
      /\ r.establish = end[e].establish /\ r.recvauth = end[e].recvauth
      /\ r.idle = end[e].idle /\ r.beat = end[e].beat /\ r.waited = end[e].waited
      /\ r.closing = end[e].closing
  BY <1>1 DEF End
<1> HIDE DEF r
<1>4. CASE e = "client"
  <2>1. end'["client"] = r /\ end'["server"] = s
    BY <1>2, <1>4, GoingTypes
  <2>2. /\ r.phase = c.phase /\ r.reading = c.reading
        /\ r.establish = c.establish /\ r.recvauth = c.recvauth
        /\ r.idle = c.idle /\ r.beat = c.beat /\ r.waited = c.waited
        /\ r.closing = c.closing /\ (c.establish => c.beat < HeartbeatInterval)
    BY <1>2, <1>3, <1>4
  <2> HIDE DEF c, s, wc, ws
  <2>3. Sound(r, s, wc, ws)
    BY <1>1, <2>2 DEF Sound, Unasked, Asked, Answered, Running, Waiting
  <2> QED BY <1>2, <2>1, <2>3 DEF Goes, wc, ws
<1>5. CASE e = "server"
  <2>1. end'["server"] = r /\ end'["client"] = c
    BY <1>2, <1>5, GoingTypes
  <2>2. /\ r.phase = s.phase /\ r.establish = s.establish /\ r.recvauth = s.recvauth
        /\ r.idle = s.idle /\ r.waited = s.waited /\ r.closing = s.closing
    BY <1>3, <1>5
  <2> HIDE DEF c, s, wc, ws
  <2>3. Sound(c, r, wc, ws)
    BY <1>1, <2>2 DEF Sound, Unasked, Asked, Answered, Running, Waiting
  <2> QED BY <1>2, <2>1, <2>3 DEF Goes, wc, ws
<1> QED BY <1>4, <1>5, GoingTypes

\* What becomes of an end when the next interval begins.
LEMMA AdvancesEnd ==
  ASSUME Going, Advance, NEW e \in Ends
  PROVE  /\ \A x \in {"phase", "reading", "establish", "recvauth", "closing"} :
              end'[e][x] = end[e][x]
         /\ end[e].phase # "opened" => end'[e].waited = end[e].waited
         /\ end[e].phase = "opened" /\ ~end[e].establish =>
              end'[e].waited = Aged(end[e].waited, AuthWait)
         /\ end[e].phase = "opened" /\ end[e].establish =>
              /\ end'[e].idle = Aged(end[e].idle, MaxInactive) /\ ~end'[e].ticked
              /\ e = "client" => end'[e].beat = Aged(end[e].beat, HeartbeatInterval)
<1>0. end[e] \in End
  BY GoingTypes
<1>1. CASE ~Is(e, "opened")
  <2>1. end'[e] = end[e]
    BY <1>1, Zenon DEF Advance
  <2> QED BY <1>1, <2>1 DEF Is
<1>2. CASE Is(e, "opened") /\ ~end[e].establish
  <2>1. end'[e] = [end[e] EXCEPT !.ticked = FALSE, !.waited = Aged(@, AuthWait)]
    BY <1>2, Zenon DEF Advance
  <2> DEFINE a == Aged(end[e].waited, AuthWait)
  <2>2. end'[e] = [end[e] EXCEPT !.ticked = FALSE, !.waited = a]
    BY <2>1
  <2> HIDE DEF a
  <2>3. /\ \A x \in {"phase", "reading", "establish", "recvauth", "closing"} :
             end'[e][x] = end[e][x]
        /\ end'[e].waited = a
    BY <1>0, <2>2 DEF End
  <2> QED BY <1>2, <2>3 DEF Is, a
<1>3. CASE Is(e, "opened") /\ end[e].establish
  <2> DEFINE a == Aged(end[e].idle, MaxInactive)
             b == IF e = "client" THEN Aged(end[e].beat, HeartbeatInterval)
                                  ELSE end[e].beat
  <2>1. end'[e] = [end[e] EXCEPT !.ticked = FALSE, !.idle = a, !.beat = b]
    BY <1>3, Zenon DEF Advance
  <2> HIDE DEF a, b
  <2>2. /\ \A x \in {"phase", "reading", "establish", "recvauth", "closing"} :
             end'[e][x] = end[e][x]
        /\ end'[e].idle = a /\ end'[e].beat = b /\ ~end'[e].ticked
    BY <1>0, <2>1 DEF End
  <2> QED BY <1>3, <2>2 DEF Is, a, b
<1> QED BY <1>1, <1>2, <1>3

LEMMA TimeGoes ==
  ASSUME Going, TimesFit, Advance, Prompt, TypeOK'
  PROVE  Goes
<1> DEFINE c == end["client"]  s == end["server"]  wc == wire["client"]  ws == wire["server"]
           d == end'["client"]  r == end'["server"]  vc == wire'["client"]  vs == wire'["server"]
           Older(w) == [i \in 1..Len(w) |-> [w[i] EXCEPT !.age = Aged(@, Delay)]]
<1>0. "client" \in Ends /\ "server" \in Ends
  BY GoingTypes
<1>1. /\ c \in End /\ s \in End /\ wc \in Seq(Frame) /\ ws \in Seq(Frame)
      /\ d \in End /\ r \in End /\ vc \in Seq(Frame) /\ vs \in Seq(Frame)
      /\ Sound(c, s, wc, ws) /\ vc = Older(wc) /\ vs = Older(ws)
  <2>1. wire' = [e \in Ends |-> Older(wire[e])]
    BY Zenon DEF Advance
  <2>2. Sound(c, s, wc, ws)
    BY DEF Going
  <2>3. d \in End /\ r \in End /\ vc \in Seq(Frame) /\ vs \in Seq(Frame)
    BY <1>0 DEF TypeOK
  <2> HIDE DEF Older
  <2> QED BY <1>0, <2>1, <2>2, <2>3, GoingTypes
<1>2. /\ HeartbeatInterval \in Nat /\ HeartbeatInterval > 0 /\ Delay \in Nat
      /\ MaxInactive \in Nat /\ AuthWait \in Nat /\ AuthWait > 2 * Delay
      /\ Delay + HeartbeatInterval \in Nat /\ HeartbeatInterval + Delay \in Nat
      /\ c.idle \in Nat /\ c.beat \in Nat /\ c.beat <= HeartbeatInterval
      /\ c.waited \in Nat /\ s.idle \in Nat /\ s.waited \in Nat
      /\ d.idle \in Nat /\ d.beat \in Nat /\ d.waited \in Nat
      /\ r.idle \in Nat /\ r.waited \in Nat
  <2>1. /\ c.idle \in Nat /\ c.beat \in Nat /\ c.beat <= HeartbeatInterval
        /\ c.waited \in Nat /\ s.idle \in Nat /\ s.waited \in Nat
    BY <1>1, EndTypes
  <2>2. /\ d.idle \in Nat /\ d.beat \in Nat /\ d.waited \in Nat
        /\ r.idle \in Nat /\ r.waited \in Nat
    BY <1>1, EndTypes
  <2> HIDE DEF c, s, d, r
  <2> QED BY <2>1, <2>2, SessionAssumption DEF TimesFit
<1>3. /\ c.phase = "opened" => c.ticked /\ c.reading
      /\ c.phase # "new" => s.phase # "new"
      /\ \A i \in 1..Len(wc) : wc[i].age < Delay
      /\ \A i \in 1..Len(ws) : ws[i].age < Delay
  BY <1>0, GoingTypes DEF Prompt, Is
<1>4. /\ d.phase = c.phase /\ d.reading = c.reading /\ d.establish = c.establish
      /\ d.recvauth = c.recvauth /\ d.closing = c.closing
      /\ c.phase # "opened" => d.waited = c.waited
      /\ c.phase = "opened" /\ ~c.establish => d.waited = Aged(c.waited, AuthWait)
      /\ c.phase = "opened" /\ c.establish =>
           /\ d.idle = Aged(c.idle, MaxInactive) /\ ~d.ticked
           /\ d.beat = Aged(c.beat, HeartbeatInterval)
  BY <1>0, AdvancesEnd
<1>5. /\ r.phase = s.phase /\ r.establish = s.establish
      /\ r.recvauth = s.recvauth /\ r.closing = s.closing
      /\ s.phase # "opened" => r.waited = s.waited
      /\ s.phase = "opened" /\ ~s.establish => r.waited = Aged(s.waited, AuthWait)
      /\ s.phase = "opened" /\ s.establish => r.idle = Aged(s.idle, MaxInactive)
  BY <1>0, AdvancesEnd
<1> HIDE DEF c, s, wc, ws, d, r, vc, vs, Older
<1>6. \A n, m \in Nat : Aged(n, m) <= n + 1 /\ (n < m => Aged(n, m) = n + 1)
  BY DEF Aged
<1>7. /\ Len(vc) = Len(wc)
      /\ \A i \in 1..Len(wc) : vc[i].age = wc[i].age + 1 /\ vc[i].kind = wc[i].kind
      /\ \A K : Kinds(wc, K) => Kinds(vc, K)
      /\ \A idle, j, n \in Nat : Beating(wc, idle, n) /\ j <= idle + 1 => Beating(vc, j, n)
  <2>1. vc = [i \in 1..Len(wc) |-> [wc[i] EXCEPT !.age = Aged(@, Delay)]]
    BY <1>1, Zenon DEF Older
  <2>2. Grown(wc, vc)
    BY <1>1, <1>3, <2>1, BeatingOlder, Zenon
  <2> QED BY <2>2 DEF Grown
<1>8. /\ Len(vs) = Len(ws)
      /\ \A i \in 1..Len(ws) : vs[i].age = ws[i].age + 1 /\ vs[i].kind = ws[i].kind
      /\ \A K : Kinds(ws, K) => Kinds(vs, K)
      /\ \A idle, j, n \in Nat : Beating(ws, idle, n) /\ j <= idle + 1 => Beating(vs, j, n)
  <2>1. vs = [i \in 1..Len(ws) |-> [ws[i] EXCEPT !.age = Aged(@, Delay)]]
    BY <1>1, Zenon DEF Older
  <2>2. Grown(ws, vs)
    BY <1>1, <1>3, <2>1, BeatingOlder, Zenon
  <2> QED BY <2>2 DEF Grown
<1>9. Len(wc) \in Nat /\ Len(ws) \in Nat
      /\ (wc = <<>> => vc = <<>>) /\ (ws = <<>> => vs = <<>>) /\ (ws # <<>> => vs # <<>>)
  BY <1>1, <1>7, <1>8, EmptySeq
<1>10. CASE Unasked(c, s, wc, ws)
  <2>1. Unasked(d, r, vc, vs)
    BY <1>3, <1>4, <1>5, <1>9, <1>10 DEF Unasked
  <2> QED BY <1>1, <1>4, <1>5, <2>1 DEF Goes, Sound, d, r, vc, vs
<1>11. CASE Asked(c, s, wc, ws)
  <2>1. 1 \in 1..Len(wc) /\ s.phase = "opened"
    BY <1>3, <1>11 DEF Asked, Waiting
  <2>2. wc[1].age \in Nat /\ wc[1].age < Delay /\ vc[1].age = wc[1].age + 1
        /\ vc[1].kind = wc[1].kind
    BY <1>1, <1>3, <1>7, <2>1, FrameTypes
  <2>3. c.waited < AuthWait /\ s.waited < AuthWait
    BY <1>2, <1>11, <2>2 DEF Asked
  <2>4. d.waited = c.waited + 1 /\ r.waited = s.waited + 1
    BY <1>2, <1>4, <1>5, <1>6, <1>11, <2>1, <2>3 DEF Asked, Waiting
  <2>5. Asked(d, r, vc, vs)
    BY <1>4, <1>5, <1>7, <1>9, <1>11, <2>1, <2>2, <2>4 DEF Asked, Waiting
  <2> QED BY <1>1, <1>4, <1>5, <2>5 DEF Goes, Sound, d, r, vc, vs
<1>12. CASE Answered(c, s, wc, ws)
  <2>1. 1 \in 1..Len(ws)
    BY <1>1, <1>12 DEF Answered
  <2>2. ws[1].age \in Nat /\ vs[1].age = ws[1].age + 1 /\ vs[1].kind = ws[1].kind
    BY <1>1, <1>8, <2>1, FrameTypes
  <2>3. d.waited <= c.waited + 1 /\ r.idle <= s.idle + 1
    <3>1. d.waited = Aged(c.waited, AuthWait) /\ r.idle = Aged(s.idle, MaxInactive)
      BY <1>4, <1>5, <1>12 DEF Answered, Waiting
    <3> QED BY <1>2, <1>6, <3>1
  <2>4. d.waited <= Delay + vs[1].age /\ r.idle <= vs[1].age
    <3> DEFINE a == ws[1].age
    <3>1. a \in Nat /\ c.waited <= Delay + a /\ s.idle <= a /\ vs[1].age = a + 1
      BY <1>12, <2>2 DEF Answered
    <3> HIDE DEF a
    <3> QED BY <1>2, <2>3, <3>1
  <2>5. \A i \in 2..Len(vs) : vs[i].kind = "data"
    BY <1>8, <1>9, <1>12 DEF Answered
  <2>6. Answered(d, r, vc, vs)
    BY <1>4, <1>5, <1>9, <1>12, <2>2, <2>4, <2>5 DEF Answered, Waiting
  <2> QED BY <1>1, <1>4, <1>5, <2>6 DEF Goes, Sound, d, r, vc, vs
<1>13. CASE Running(c, s, wc, ws)
  <2>1. d.idle <= c.idle + 1 /\ r.idle <= s.idle + 1
    <3>1. d.idle = Aged(c.idle, MaxInactive) /\ r.idle = Aged(s.idle, MaxInactive)
      BY <1>4, <1>5, <1>13 DEF Running
    <3> QED BY <1>2, <1>6, <3>1
  <2>2. c.beat < HeartbeatInterval /\ d.beat = c.beat + 1 /\ ~d.ticked
    BY <1>2, <1>3, <1>4, <1>6, <1>13 DEF Running
  <2>3. r.idle <= Delay + d.beat \/ Beating(vc, r.idle, Delay + HeartbeatInterval)
    <3>1. CASE s.idle <= Delay + c.beat
      BY <1>2, <2>1, <2>2, <3>1
    <3>2. CASE Beating(wc, s.idle, Delay + HeartbeatInterval)
      BY <1>2, <1>7, <2>1, <3>2
    <3> QED BY <1>13, <3>1, <3>2 DEF Running
  <2>4. \/ d.idle <= d.beat
        \/ Beating(vc, d.idle, HeartbeatInterval)
        \/ Beating(vs, d.idle, HeartbeatInterval + Delay)
    <3>1. CASE c.idle <= c.beat
      BY <1>2, <2>1, <2>2, <3>1
    <3>2. CASE Beating(wc, c.idle, HeartbeatInterval)
      BY <1>2, <1>7, <2>1, <3>2
    <3>3. CASE Beating(ws, c.idle, HeartbeatInterval + Delay)
      BY <1>2, <1>8, <2>1, <3>3
    <3> QED BY <1>13, <3>1, <3>2, <3>3 DEF Running
  <2>5. Running(d, r, vc, vs)
    BY <1>4, <1>5, <1>7, <1>8, <1>13, <2>2, <2>3, <2>4 DEF Running
  <2> QED BY <1>1, <1>4, <1>5, <2>5 DEF Goes, Sound, d, r, vc, vs
<1> QED BY <1>1, <1>10, <1>11, <1>12, <1>13 DEF Sound

-----------------------------------------------------------------------------
LEMMA SoundStep ==
  ASSUME TimesFit
  PROVE  IInv /\ SoundSession /\ [Next]_vars => SoundSession'
<1> SUFFICES ASSUME IInv, SoundSession, [Next]_vars, ~faulted' PROVE ~cut' /\ Goes
  BY DEF SoundSession, Goes
<1>1. ASSUME ~faulted PROVE Going
  BY <1>1 DEF SoundSession, Going
<1>2. TypeOK'
  BY Inductive DEF IInv
<1>4. CASE UNCHANGED vars
  BY <1>1, <1>4 DEF vars, Going, Goes
<1>5. CASE ClientOpen \/ ClientConnected \/ ServerAccept
  <2>1. Going /\ ~cut'
    BY <1>1, <1>5 DEF ClientOpen, ClientConnected, ServerAccept, Going
  <2> QED BY <1>5, <2>1, OpeningGoes
<1>6. ASSUME NEW e \in Ends, Input(e) PROVE ~cut' /\ Goes
  <2>1. ~ReceiveRefused(e) /\ ~RefuseRequest
    BY DEF ReceiveRefused, RefuseRequest
  <2>2. Going /\ ~cut'
    <3>1. cut' = cut /\ faulted' = faulted
      BY <1>6, <2>1, Zenon DEF Input, ReceiveUnexpected, ReceiveHeartbeat, ReceiveData,
         ReceiveRequest, ReceiveResponse
    <3> QED BY <1>1, <3>1 DEF Going
  <2>3. e = "client" \/ e = "server"
    BY DEF Ends
  <2> QED BY <1>6, <2>1, <2>2, <2>3, Expected, ServerHearsGoes, ClientHearsGoes,
             RequestGoes, ResponseGoes DEF Input
<1>7. ASSUME NEW e \in Ends, SendData(e) \/ Tick(e) PROVE ~cut' /\ Goes
  <2>1. Going /\ ~cut'
    BY <1>1, <1>7 DEF SendData, Tick, TickExpired, TickBeat, TickNothing, Going
  <2>2. ~TickExpired(e)
    BY <2>1, Calm DEF TickExpired
  <2> QED BY <1>7, <2>1, <2>2, DataGoes, BeatGoes, NothingGoes DEF Tick
<1>8. CASE Advance
  <2>1. Prompt /\ Going /\ ~cut'
    <3>1. cut' = cut /\ faulted' = (faulted \/ ~Prompt)
      BY <1>8, Zenon DEF Advance
    <3> QED BY <1>1, <3>1 DEF Going
  <2> QED BY <1>2, <1>8, <2>1, TimeGoes
<1>9. ASSUME NEW e \in Ends, TickAbort(e) \/ ClockBack(e) \/ Broken(e) \/ Close(e)
      PROVE  FALSE
  BY <1>9 DEF TickAbort, ClockBack, Broken, Close
<1>10. ~Cut /\ ~Stray
  BY DEF Cut, Stray
<1> QED BY <1>4, <1>5, <1>6, <1>7, <1>8, <1>9, <1>10 DEF Next

\* A session in which nothing late, lost or stray happens stays up: if a request
\* and its answer take less than the time for authentication and a heartbeat
\* and its answer less than that for inactivity, no timer closes a socket and
\* no frame comes when its reader does not expect it (ProcessTickAlways,
\* ProcessInput), whatever these times are.
THEOREM Lasting ==
  ASSUME TimesFit
  PROVE  Safe => []StaysUp
<1>1. Init => SoundSession
  <2> SUFFICES ASSUME Init PROVE SoundSession
    OBVIOUS
  <2>1. /\ "client" \in Ends /\ "server" \in Ends /\ ~cut
        /\ end["client"] = New /\ end["server"] = New
        /\ wire["client"] = <<>> /\ wire["server"] = <<>>
    BY DEF Init, Ends
  <2>2. Unasked(New, New, <<>>, <<>>) /\ ~New.closing
    BY DEF Unasked, New
  <2> QED BY <2>1, <2>2 DEF SoundSession, Sound
<1>2. IInv /\ SoundSession /\ [Next]_vars => IInv' /\ SoundSession'
  BY Inductive, SoundStep
<1>3. SoundSession => StaysUp
  BY DEF SoundSession, Sound, Unasked, Asked, Answered, Running, Waiting, StaysUp, Is, Ends
<1> QED BY <1>1, <1>2, <1>3, Initially, PTL DEF Safe
=============================================================================
