---------------------------- MODULE SocketProofs ----------------------------
(***************************************************************************)
(* What src/stage/net promises.  For any set of connections, any number of *)
(* calls of Listen and of failed accepts: a listening listener has exactly *)
(* one accept, and neither a socket without a handler nor the end of the   *)
(* process comes without its cause.  For any stream of frames, cut         *)
(* anywhere: frames arrive as they were sent, in order.  For any message:  *)
(* it is read as it was filled in, or refused if it was cut short.         *)
(***************************************************************************)
EXTENDS SocketListener, Wire, SequenceTheorems, FiniteSetTheorems,
        WellFoundedInduction, TLAPS

\* A listener that does not listen has no accept, unless it was disposed with
\* one under way.
AcceptsAgree ==
  \A l \in Listeners : /\ listening[l] => ~disposed[l] /\ Accepts(l) = 1
                       /\ ~listening[l] /\ ~disposed[l] => Accepts(l) = 0
                       /\ Accepts(l) \in {0, 1}

\* What the callback holds while it handles a connection.
CallbackAgrees ==
  /\ callback.at \in {"check", "make"} =>
       /\ callback.peer \in Peers
       /\ place[callback.peer] = "held"
       /\ callback.listener = Port[callback.peer]
  /\ callback.hosting = "null" => disposed[callback.listener]
  /\ callback.handler = "null" => disposed[callback.listener]

IInv == TypeOK /\ AcceptsAgree /\ CallbackAgrees /\ MadeWhole

LEMMA Counted ==
  ASSUME NEW f \in [Listeners -> Nat], NEW l \in Listeners, NEW n \in Nat
  PROVE  [f EXCEPT ![l] = n] \in [Listeners -> Nat]
OBVIOUS

LEMMA OneMoreAccept ==
  ASSUME AcceptType, NEW l \in Listeners, StartAccpet(l)
  PROVE  waiting' \in [Listeners -> Nat]
<1>1. waiting[l] + AcceptsAfter(l) \in Nat
  BY DEF AcceptType, AcceptsAfter
<1>2. waiting' = [waiting EXCEPT ![l] = waiting[l] + AcceptsAfter(l)]
  BY DEF StartAccpet
<1> QED BY <1>1, <1>2, Counted DEF AcceptType

LEMMA OneAcceptLess ==
  ASSUME AcceptType, NEW l \in Listeners, waiting[l] > 0
  PROVE  [waiting EXCEPT ![l] = @ - 1] \in [Listeners -> Nat]
<1>1. waiting[l] - 1 \in Nat
  BY DEF AcceptType
<1> QED BY <1>1, Counted DEF AcceptType

\* No call of Listen or Dispose, no answer of the system and no step of the
\* callback leads out of the types: one lemma for each part of the state.
LEMMA AppStep == AppType /\ [Next]_vars => AppType'
<1> SUFFICES ASSUME AppType, [Next]_vars PROVE AppType'
  OBVIOUS
<1>1. CASE CommunicationListen
  <2>1. /\ listens \in 0 .. MaxListens /\ listens < MaxListens
        /\ listens' = listens + 1
    BY <1>1 DEF CommunicationListen, AppType
  <2>2. listens' \in 0 .. MaxListens
    BY <2>1, BoundsAssumption
  <2> QED BY <2>2, <1>1 DEF CommunicationListen, AppType
<1>2. CASE ~CommunicationListen
  BY <1>2 DEF AppType, Next, Application, Callback, vars, appVars,
     CommunicationDispose, Listen, AfterListen, ListenBindFails, ListenRefused,
     Dispose, Connect, Reset, Accepted, AcceptFails, CallbackFailed,
     CallbackBegins, IsDisposed, CallbackRefuses, GetHostingObject,
     GetSocketHandler, ProcessAccept, ConstructorThrows, CallbackEnds
<1> QED BY <1>1, <1>2

LEMMA ListenerStep == ListenerType /\ [Next]_vars => ListenerType'
BY DEF ListenerType, Next, Application, Callback, vars, listenerVars,
   CommunicationListen, CommunicationDispose, Listen, ListenBindFails,
   ListenRefused, Dispose, Connect, Reset, Accepted, AcceptFails,
   CallbackFailed, CallbackBegins, IsDisposed, CallbackRefuses,
   GetHostingObject, GetSocketHandler, HandlerOnDemand, ProcessAccept,
   ConstructorThrows, CallbackEnds

LEMMA AcceptStep ==
  AcceptType /\ CallbackType /\ [Next]_vars => AcceptType'
<1> SUFFICES ASSUME AcceptType, CallbackType, [Next]_vars PROVE AcceptType'
  OBVIOUS
<1>1. ASSUME NEW l \in Listeners, Listen(l) PROVE AcceptType'
  BY <1>1, OneMoreAccept DEF Listen, AcceptType
<1>2. ASSUME NEW l \in Listeners, Dispose(l) PROVE AcceptType'
  <2>1. failed[l] + waiting[l] \in Nat
    BY DEF AcceptType
  <2> QED BY <2>1, <1>2, Counted DEF Dispose, AcceptType
<1>3. ASSUME NEW p \in Peers, Accepted(p) PROVE AcceptType'
  BY <1>3, OneAcceptLess, PortAssumption DEF Accepted, AcceptType
<1>4. ASSUME NEW l \in Listeners, AcceptFails(l) PROVE AcceptType'
  <2>1. failed[l] + 1 \in Nat /\ errors' \in 0 .. MaxErrors
    BY <1>4, BoundsAssumption DEF AcceptFails, AcceptType
  <2> QED BY <2>1, <1>4, OneAcceptLess, Counted DEF AcceptFails, AcceptType
<1>5. ASSUME NEW l \in Listeners, CallbackFailed(l) PROVE AcceptType'
  <2>1. failed[l] - 1 \in Nat
    BY <1>5 DEF CallbackFailed, AcceptType
  <2> QED BY <2>1, <1>5, Counted DEF CallbackFailed, AcceptType
<1>6. CASE CallbackEnds
  BY <1>6, OneMoreAccept DEF CallbackEnds, AcceptType, CallbackType
<1>7. CASE UNCHANGED <<waiting, failed, errors>>
  BY <1>7 DEF AcceptType
<1> QED
  BY <1>1, <1>2, <1>3, <1>4, <1>5, <1>6, <1>7
  DEF Next, Application, Callback, vars, CommunicationListen,
      CommunicationDispose, ListenBindFails, ListenRefused, Connect, Reset,
      CallbackBegins, IsDisposed, CallbackRefuses, GetHostingObject,
      GetSocketHandler, ProcessAccept, ConstructorThrows

LEMMA PeerStep == PeerType /\ CallbackAgrees /\ [Next]_vars => PeerType'
<1> SUFFICES ASSUME PeerType, CallbackAgrees, [Next]_vars PROVE PeerType'
  OBVIOUS
<1>1. ASSUME NEW l \in Listeners, Dispose(l) PROVE PeerType'
  BY <1>1 DEF Dispose, PeerType, Places
<1>2. CASE CallbackRefuses
  BY <1>2 DEF CallbackRefuses, CallbackAgrees, PeerType, Places
<1>3. CASE ProcessAccept
  BY <1>3 DEF ProcessAccept, Ready, CallbackAgrees, PeerType, Places
<1>4. ASSUME NEW p \in Peers, Connect(p) \/ Reset(p) \/ Accepted(p)
                              \/ CallbackBegins(p)
      PROVE  PeerType'
  BY <1>4 DEF Connect, Reset, Accepted, CallbackBegins, PeerType, Places
<1>5. CASE UNCHANGED peerVars
  BY <1>5 DEF peerVars, PeerType
<1> QED
  BY <1>1, <1>2, <1>3, <1>4, <1>5
  DEF Next, Application, Callback, vars, CommunicationListen,
      CommunicationDispose, Listen, ListenBindFails, ListenRefused,
      AcceptFails, CallbackFailed, IsDisposed, GetHostingObject,
      GetSocketHandler, ConstructorThrows, CallbackEnds

LEMMA CallbackStep == CallbackType /\ [Next]_vars => CallbackType'
<1> SUFFICES ASSUME CallbackType, [Next]_vars PROVE CallbackType'
  OBVIOUS
<1> USE DEF CallbackType, NoCallback, Stages, Answers
<1>1. ASSUME NEW l \in Listeners, CallbackFailed(l) PROVE CallbackType'
  BY <1>1 DEF CallbackFailed, Listeners
<1>2. ASSUME NEW p \in Peers, CallbackBegins(p) PROVE CallbackType'
  BY <1>2, PortAssumption DEF CallbackBegins, Listeners
<1>3. CASE IsDisposed \/ CallbackRefuses
  BY <1>3 DEF IsDisposed, CallbackRefuses
<1>4. CASE GetHostingObject \/ GetSocketHandler
  BY <1>4 DEF GetHostingObject, GetSocketHandler
<1>5. CASE ProcessAccept
  BY <1>5 DEF ProcessAccept
<1>6. CASE CallbackEnds
  BY <1>6 DEF CallbackEnds, Listeners
<1>7. CASE UNCHANGED callback
  BY <1>7
<1> QED
  BY <1>1, <1>2, <1>3, <1>4, <1>5, <1>6, <1>7
  DEF Next, Application, Callback, vars, CommunicationListen,
      CommunicationDispose, Listen, ListenBindFails, ListenRefused, Dispose,
      Connect, Reset, Accepted, AcceptFails, ConstructorThrows

LEMMA TypeStep == TypeOK /\ CallbackAgrees /\ [Next]_vars => TypeOK'
BY AppStep, ListenerStep, AcceptStep, PeerStep, CallbackStep DEF TypeOK

-----------------------------------------------------------------------------

\* The number of accepts of a listener is made of four numbers.
LEMMA AcceptNumbers ==
  ASSUME TypeOK, NEW l \in Listeners
  PROVE  /\ waiting[l] \in Nat /\ failed[l] \in Nat /\ Running(l) \in {0, 1}
         /\ IsFiniteSet(At("accepted", l)) /\ Cardinality(At("accepted", l)) \in Nat
<1>1. IsFiniteSet(At("accepted", l))
  BY PeersFinite, FS_Subset DEF At
<1> QED
  BY <1>1, FS_CardinalityType DEF TypeOK, AcceptType, Running

LEMMA AppKeepsAccepts ==
  ASSUME TypeOK, AcceptsAgree,
         \/ CommunicationListen \/ CommunicationDispose
         \/ \E k \in Listeners : ListenBindFails(k) \/ ListenRefused(k)
         \/ \E p \in Peers : Connect(p) \/ Reset(p)
         \/ IsDisposed \/ CallbackRefuses \/ GetHostingObject
         \/ GetSocketHandler \/ ProcessAccept \/ ConstructorThrows
         \/ UNCHANGED vars,
         CallbackAgrees
  PROVE  AcceptsAgree'
<1>1. UNCHANGED <<listening, disposed, waiting, failed>>
  BY DEF CommunicationListen, CommunicationDispose, ListenBindFails,
     ListenRefused, Connect, Reset, IsDisposed, CallbackRefuses,
     GetHostingObject, GetSocketHandler, ProcessAccept, ConstructorThrows, vars,
     listenerVars
<1>2. \A l \in Listeners : At("accepted", l)' = At("accepted", l)
  BY DEF At, TypeOK, PeerType, CallbackAgrees, CommunicationListen,
     CommunicationDispose, ListenBindFails, ListenRefused, Connect, Reset,
     IsDisposed, CallbackRefuses, GetHostingObject, GetSocketHandler,
     ProcessAccept, Ready, ConstructorThrows, vars, peerVars
<1>3. \A l \in Listeners : Running(l)' = Running(l)
  BY DEF Running, TypeOK, CallbackType, CommunicationListen,
     CommunicationDispose, ListenBindFails, ListenRefused, Connect, Reset,
     IsDisposed, CallbackRefuses, GetHostingObject, GetSocketHandler,
     ProcessAccept, Ready, ConstructorThrows, vars
<1> QED
  BY <1>1, <1>2, <1>3 DEF AcceptsAgree, Accepts

\* The listener that begins to listen had no accept and has one.
LEMMA ListenKeepsAccepts ==
  ASSUME TypeOK, AcceptsAgree, NEW l \in Listeners, Listen(l)
  PROVE  AcceptsAgree'
<1>1. /\ UNCHANGED <<failed, place, callback, disposed>>
      /\ ~listening[l] /\ ~disposed[l]
      /\ listening' = [listening EXCEPT ![l] = TRUE]
      /\ waiting' = [waiting EXCEPT ![l] = @ + 1]
  BY DEF Listen, CanListen, StartAccpet, AcceptsAfter, peerVars
<1>2. \A k \in Listeners : /\ At("accepted", k)' = At("accepted", k)
                           /\ Running(k)' = Running(k)
  BY <1>1 DEF At, Running
<1>3. Accepts(l)' = 1
  <2>1. Accepts(l) = 0
    BY <1>1 DEF AcceptsAgree
  <2>2. waiting'[l] = waiting[l] + 1
    BY <1>1 DEF TypeOK, AcceptType
  <2> QED BY <2>1, <2>2, <1>1, <1>2, AcceptNumbers DEF Accepts
<1>4. \A k \in Listeners \ {l} : Accepts(k)' = Accepts(k)
  BY <1>1, <1>2 DEF Accepts, TypeOK, AcceptType
<1>5. listening'[l] /\ ~disposed'[l]
  BY <1>1 DEF TypeOK, ListenerType
<1>6. \A k \in Listeners \ {l} : /\ listening'[k] = listening[k]
                                 /\ disposed'[k] = disposed[k]
  BY <1>1 DEF TypeOK, ListenerType
<1> QED BY <1>3, <1>4, <1>5, <1>6 DEF AcceptsAgree

\* The outstanding accept of a disposed listener becomes a failed one.
LEMMA DisposeKeepsAccepts ==
  ASSUME TypeOK, AcceptsAgree, NEW l \in Listeners, Dispose(l)
  PROVE  AcceptsAgree'
<1>1. \A k \in Listeners : /\ At("accepted", k)' = At("accepted", k)
                           /\ Running(k)' = Running(k)
  BY DEF Dispose, At, Running, TypeOK, PeerType
<1>2. /\ failed'[l] = failed[l] + waiting[l] /\ waiting'[l] = 0
      /\ \A k \in Listeners \ {l} : /\ failed'[k] = failed[k]
                                    /\ waiting'[k] = waiting[k]
  BY DEF Dispose, TypeOK, AcceptType
<1>3. \A k \in Listeners : Accepts(k)' = Accepts(k)
  BY <1>1, <1>2, AcceptNumbers DEF Accepts
<1>4. /\ ~listening'[l] /\ disposed'[l]
      /\ \A k \in Listeners \ {l} : /\ listening'[k] = listening[k]
                                    /\ disposed'[k] = disposed[k]
  BY DEF Dispose, TypeOK, ListenerType
<1> QED BY <1>3, <1>4 DEF AcceptsAgree

\* An accept that is completed, or whose callback begins, is the same accept.
LEMMA OnTheWayKeepsAccepts ==
  ASSUME TypeOK, AcceptsAgree,
         \/ \E p \in Peers : Accepted(p) \/ CallbackBegins(p)
         \/ \E l \in Listeners : AcceptFails(l) \/ CallbackFailed(l)
  PROVE  AcceptsAgree'
<1>1. UNCHANGED <<listening, disposed>>
  BY DEF Accepted, CallbackBegins, AcceptFails, CallbackFailed, listenerVars
<1> SUFFICES \A k \in Listeners : Accepts(k)' = Accepts(k)
  BY <1>1 DEF AcceptsAgree
<1>2. ASSUME NEW p \in Peers, Accepted(p), NEW k \in Listeners
      PROVE  Accepts(k)' = Accepts(k)
  <2>1. Running(k)' = Running(k) /\ failed' = failed
    BY <1>2 DEF Accepted, Running
  <2>2. CASE k = Port[p]
    <3>1. /\ At("accepted", k)' = At("accepted", k) \cup {p}
          /\ p \notin At("accepted", k)
      BY <1>2, <2>2 DEF Accepted, At, TypeOK, PeerType
    <3>2. Cardinality(At("accepted", k)') = Cardinality(At("accepted", k)) + 1
      BY <3>1, AcceptNumbers, FS_AddElement
    <3>3. waiting'[k] = waiting[k] - 1
      BY <1>2, <2>2 DEF Accepted, TypeOK, AcceptType
    <3> QED BY <2>1, <3>2, <3>3, AcceptNumbers DEF Accepts
  <2>3. CASE k # Port[p]
    <3>1. At("accepted", k)' = At("accepted", k)
      BY <1>2, <2>3 DEF Accepted, At, TypeOK, PeerType
    <3>2. waiting'[k] = waiting[k]
      BY <1>2, <2>3 DEF Accepted, TypeOK, AcceptType
    <3> QED BY <2>1, <3>1, <3>2 DEF Accepts
  <2> QED BY <2>2, <2>3
<1>3. ASSUME NEW p \in Peers, CallbackBegins(p), NEW k \in Listeners
      PROVE  Accepts(k)' = Accepts(k)
  <2>1. waiting' = waiting /\ failed' = failed
    BY <1>3 DEF CallbackBegins
  <2>2. CASE k = Port[p]
    <3>1. /\ At("accepted", k)' = At("accepted", k) \ {p}
          /\ p \in At("accepted", k)
      BY <1>3, <2>2 DEF CallbackBegins, At, TypeOK, PeerType
    <3>2. Cardinality(At("accepted", k)') = Cardinality(At("accepted", k)) - 1
      BY <3>1, AcceptNumbers, FS_RemoveElement
    <3>3. Running(k) = 0 /\ Running(k)' = 1
      BY <1>3, <2>2 DEF CallbackBegins, Running, NoCallback
    <3> QED BY <2>1, <3>2, <3>3, AcceptNumbers DEF Accepts
  <2>3. CASE k # Port[p]
    <3>1. At("accepted", k)' = At("accepted", k)
      BY <1>3, <2>3 DEF CallbackBegins, At, TypeOK, PeerType
    <3>2. Running(k)' = Running(k)
      BY <1>3, <2>3 DEF CallbackBegins, Running, NoCallback
    <3> QED BY <2>1, <3>1, <3>2 DEF Accepts
  <2> QED BY <2>2, <2>3
<1>4. ASSUME NEW l \in Listeners, AcceptFails(l), NEW k \in Listeners
      PROVE  Accepts(k)' = Accepts(k)
  <2>1. At("accepted", k)' = At("accepted", k) /\ Running(k)' = Running(k)
    BY <1>4 DEF AcceptFails, peerVars, At, Running
  <2>2. IF k = l THEN waiting'[k] = waiting[k] - 1 /\ failed'[k] = failed[k] + 1
                 ELSE waiting'[k] = waiting[k] /\ failed'[k] = failed[k]
    BY <1>4 DEF AcceptFails, TypeOK, AcceptType
  <2> QED BY <2>1, <2>2, AcceptNumbers DEF Accepts
<1>5. ASSUME NEW l \in Listeners, CallbackFailed(l), NEW k \in Listeners
      PROVE  Accepts(k)' = Accepts(k)
  <2>1. At("accepted", k)' = At("accepted", k) /\ waiting'[k] = waiting[k]
    BY <1>5 DEF CallbackFailed, peerVars, At
  <2>2. IF k = l THEN failed'[k] = failed[k] - 1 ELSE failed'[k] = failed[k]
    BY <1>5 DEF CallbackFailed, TypeOK, AcceptType
  <2>3. IF k = l THEN Running(k) = 0 /\ Running(k)' = 1
                 ELSE Running(k)' = Running(k)
    BY <1>5 DEF CallbackFailed, Running, NoCallback
  <2> QED BY <2>1, <2>2, <2>3, AcceptNumbers DEF Accepts
<1> QED BY <1>2, <1>3, <1>4, <1>5

\* The callback that ends gives its place to the next accept; that of a
\* disposed listener leaves none.
LEMMA EndKeepsAccepts ==
  ASSUME TypeOK, AcceptsAgree, CallbackEnds,
         NEW l \in Listeners, l = callback.listener
  PROVE  AcceptsAgree'
<1>1. /\ Running(l) = 1
      /\ \A k \in Listeners \ {l} : Running(k) = 0
  BY DEF CallbackEnds, Running, TypeOK, CallbackType
<1>2. \A k \in Listeners : Running(k)' = 0
  BY DEF CallbackEnds, Running, NoCallback
<1>3. /\ UNCHANGED <<listening, disposed, failed>>
      /\ \A k \in Listeners : At("accepted", k)' = At("accepted", k)
  BY DEF CallbackEnds, listenerVars, peerVars, At
<1>4. /\ waiting'[l] = waiting[l] + AcceptsAfter(l)
      /\ \A k \in Listeners \ {l} : waiting'[k] = waiting[k]
  BY <1>1 DEF CallbackEnds, StartAccpet, TypeOK, AcceptType
<1>5. \A k \in Listeners \ {l} : Accepts(k)' = Accepts(k)
  BY <1>1, <1>2, <1>3, <1>4 DEF Accepts
<1>6. AcceptsAfter(l) \in {0, 1} /\ (AcceptsAfter(l) = 0 <=> disposed[l])
  BY DEF AcceptsAfter
<1>7. Accepts(l)' = Accepts(l) - 1 + AcceptsAfter(l) /\ Accepts(l) > 0
  <2>1. /\ failed'[l] = failed[l]
        /\ Cardinality(At("accepted", l)') = Cardinality(At("accepted", l))
    BY <1>3
  <2> QED BY <1>1, <1>2, <1>4, <1>6, <2>1, AcceptNumbers DEF Accepts
<1>8. Accepts(l) = 1
  BY <1>1, <1>7 DEF AcceptsAgree
<1>9. Accepts(l)' = 0 <=> disposed[l]
  BY <1>6, <1>7, <1>8
<1>10. Accepts(l)' \in {0, 1}
  BY <1>6, <1>7, <1>8
<1>11. listening[l] \/ disposed[l]
  BY <1>8 DEF AcceptsAgree
<1>12. /\ listening'[l] => ~disposed'[l] /\ Accepts(l)' = 1
       /\ ~listening'[l] /\ ~disposed'[l] => Accepts(l)' = 0
  BY <1>3, <1>9, <1>10, <1>11 DEF AcceptsAgree
<1> QED BY <1>3, <1>5, <1>10, <1>12 DEF AcceptsAgree

LEMMA AcceptsStep ==
  TypeOK /\ AcceptsAgree /\ CallbackAgrees /\ [Next]_vars => AcceptsAgree'
<1> SUFFICES ASSUME TypeOK, AcceptsAgree, CallbackAgrees, [Next]_vars
             PROVE  AcceptsAgree'
  OBVIOUS
<1>1. callback.listener \in Listeners
  BY DEF TypeOK, CallbackType
<1> QED
  BY <1>1, AppKeepsAccepts, ListenKeepsAccepts, DisposeKeepsAccepts,
     OnTheWayKeepsAccepts, EndKeepsAccepts DEF Next, Application, Callback

-----------------------------------------------------------------------------

\* Disposed stays disposed, reset stays reset.
LEMMA ForGood ==
  ASSUME TypeOK, [Next]_vars
  PROVE  /\ \A l \in Listeners : disposed[l] => disposed'[l]
         /\ gone \subseteq gone'
<1>1. ASSUME NEW l \in Listeners, Dispose(l)
      PROVE  /\ \A k \in Listeners : disposed[k] => disposed'[k]
             /\ gone \subseteq gone'
  BY <1>1 DEF Dispose, TypeOK, ListenerType
<1>2. ASSUME NEW p \in Peers, Reset(p)
      PROVE  gone \subseteq gone' /\ UNCHANGED disposed
  BY <1>2 DEF Reset, listenerVars
<1> QED
  BY <1>1, <1>2
  DEF Next, Application, Callback, vars, listenerVars, peerVars,
      CommunicationListen, CommunicationDispose, Listen, ListenBindFails,
      ListenRefused, Connect, Accepted, AcceptFails, CallbackFailed,
      CallbackBegins, IsDisposed, CallbackRefuses, GetHostingObject,
      GetSocketHandler, ProcessAccept, ConstructorThrows, CallbackEnds

LEMMA CallbackAgreesStep ==
  TypeOK /\ CallbackAgrees /\ [Next]_vars => CallbackAgrees'
<1> SUFFICES ASSUME TypeOK, CallbackAgrees, [Next]_vars PROVE CallbackAgrees'
  OBVIOUS
<1> USE DEF CallbackAgrees
<1>1. callback.listener \in Listeners
  BY DEF TypeOK, CallbackType
<1>2. CASE UNCHANGED callback
  <2>1. ASSUME callback.at \in {"check", "make"}
        PROVE  place'[callback.peer] = "held"
    BY <1>2, <2>1, PortAssumption DEF Next, Application, Callback, vars, peerVars, TypeOK, PeerType,
       CallbackType, CommunicationListen, CommunicationDispose, Listen,
       ListenBindFails, ListenRefused, Dispose, At, Connect, Reset, Accepted,
       AcceptFails, CallbackFailed, CallbackBegins, NoCallback, IsDisposed,
       CallbackRefuses, GetHostingObject, GetSocketHandler, ProcessAccept,
       Ready, ConstructorThrows, CallbackEnds
  <2> QED BY <1>1, <1>2, <2>1, ForGood
<1>3. ASSUME NEW l \in Listeners, CallbackFailed(l) PROVE CallbackAgrees'
  BY <1>3 DEF CallbackFailed, NoCallback
<1>4. ASSUME NEW p \in Peers, CallbackBegins(p) PROVE CallbackAgrees'
  BY <1>4 DEF CallbackBegins, NoCallback, TypeOK, PeerType
<1>5. CASE IsDisposed \/ CallbackRefuses
  BY <1>1, <1>5 DEF IsDisposed, CallbackRefuses, TypeOK, CallbackType, peerVars,
     listenerVars
<1>6. CASE GetHostingObject
  BY <1>1, <1>6 DEF GetHostingObject, TypeOK, CallbackType, peerVars,
     listenerVars
<1>7. CASE GetSocketHandler
  BY <1>1, <1>7 DEF GetSocketHandler, HandlerOnDemand, TypeOK, CallbackType,
     peerVars
<1>8. CASE ProcessAccept
  BY <1>1, <1>8 DEF ProcessAccept, TypeOK, CallbackType, listenerVars
<1>9. CASE CallbackEnds
  BY <1>9 DEF CallbackEnds, NoCallback
<1> QED
  BY <1>2, <1>3, <1>4, <1>5, <1>6, <1>7, <1>8, <1>9
  DEF Next, Application, Callback, vars, CommunicationListen,
      CommunicationDispose, Listen, ListenBindFails, ListenRefused, Dispose,
      Connect, Reset, Accepted, AcceptFails, ConstructorThrows

LEMMA MadeWholeStep ==
  TypeOK /\ CallbackAgrees /\ MadeWhole /\ [Next]_vars => MadeWhole'
<1> SUFFICES ASSUME TypeOK, CallbackAgrees, MadeWhole, [Next]_vars
             PROVE  MadeWhole'
  OBVIOUS
<1>1. callback.listener \in Listeners
  BY DEF TypeOK, CallbackType
<1>2. CASE ProcessAccept
  <2>1. ASSUME NEW p \in Peers, place'[p] = "open"
        PROVE  p \in handled' \/ disposed'[Port[p]]
    <3>1. CASE p = callback.peer
      BY <1>2, <3>1, PortAssumption DEF ProcessAccept, Ready, CallbackAgrees,
         listenerVars, TypeOK, CallbackType, Answers
    <3>2. CASE p # callback.peer
      BY <1>2, <2>1, <3>2 DEF ProcessAccept, Ready, MadeWhole, CallbackAgrees,
         listenerVars, TypeOK, PeerType
    <3> QED BY <3>1, <3>2
  <2> QED BY <1>2, <2>1 DEF ProcessAccept, MadeWhole
<1>3. CASE ConstructorThrows
  BY <1>1, <1>3 DEF ConstructorThrows, CallbackAgrees, MadeWhole, listenerVars,
     peerVars
<1>4. CASE ~ProcessAccept /\ ~ConstructorThrows
  <2>1. /\ \A p \in Peers : place'[p] = "open" => place[p] = "open"
        /\ UNCHANGED handled
    BY <1>4 DEF Next, Application, Callback, vars, peerVars, TypeOK, PeerType,
       CallbackAgrees, CommunicationListen, CommunicationDispose, Listen,
       ListenBindFails, ListenRefused, Dispose, At, Connect, Reset, Accepted,
       AcceptFails, CallbackFailed, CallbackBegins, IsDisposed, CallbackRefuses,
       GetHostingObject, GetSocketHandler, CallbackEnds
  <2>2. ~alive' => ~alive /\ UNCHANGED callback
    <3>1. CASE UNCHANGED vars
      BY <3>1 DEF vars
    <3>2. CASE Next
      <4>1. alive /\ alive' = alive
        BY <1>4, <3>2 DEF Next, Application, Callback, CommunicationListen,
           CommunicationDispose, Listen, ListenBindFails, ListenRefused,
           Dispose, Connect, Reset, Accepted, AcceptFails, CallbackFailed,
           CallbackBegins, IsDisposed, CallbackRefuses, GetHostingObject,
           GetSocketHandler, CallbackEnds
      <4> QED BY <4>1, SMTT(20)
    <3> QED BY <3>1, <3>2
  <2> QED BY <1>1, <2>1, <2>2, ForGood, PortAssumption DEF MadeWhole
<1> QED BY <1>2, <1>3, <1>4

-----------------------------------------------------------------------------

LEMMA InitIInv == Init => IInv
<1> SUFFICES ASSUME Init PROVE IInv
  OBVIOUS
<1>1. TypeOK
  <2>1. AppType
    <3>1. 0 \in 0 .. MaxListens
      BY BoundsAssumption
    <3> QED BY <3>1 DEF Init, AppType
  <2>2. ListenerType /\ PeerType
    BY DEF Init, ListenerType, PeerType, Places
  <2>3. AcceptType
    BY BoundsAssumption DEF Init, AcceptType
  <2>4. CallbackType
    BY DEF Init, CallbackType, NoCallback, Stages, Answers, Listeners
  <2> QED BY <2>1, <2>2, <2>3, <2>4 DEF TypeOK
<1>2. \A l \in Listeners : At("accepted", l) = {} /\ Running(l) = 0
  BY DEF Init, At, Running, NoCallback
<1>3. AcceptsAgree
  BY <1>2, FS_EmptySet DEF Init, AcceptsAgree, Accepts
<1>4. CallbackAgrees /\ MadeWhole
  BY DEF Init, CallbackAgrees, MadeWhole, NoCallback
<1> QED BY <1>1, <1>3, <1>4 DEF IInv

\* The strengthened invariant holds in every reachable state.
LEMMA Invariance == Spec => []IInv
<1>1. IInv /\ [Next]_vars => IInv'
  BY TypeStep, AcceptsStep, CallbackAgreesStep, MadeWholeStep DEF IInv
<1> QED BY InitIInv, <1>1, PTL DEF Spec

\* Whatever the accepts meet (an error, a disposed listener, a connection
\* already reset), a listening listener goes on accepting, one at a time:
\* StartAccpet is called by Listen and by the callback only.
THEOREM ListenerGoesOn == Spec => []OneAccept
<1>1. IInv => OneAccept
  BY DEF IInv, AcceptsAgree, OneAccept
<1> QED BY Invariance, <1>1, PTL

\* Sockets without a handler, and the exception that ends the process, occur
\* only with the causes MadeWhole names.
THEOREM SocketsMadeWhole == Spec => []MadeWhole
<1>1. IInv => MadeWhole
  BY DEF IInv
<1> QED BY Invariance, <1>1, PTL

\* The variables of the listeners keep their types.
THEOREM ListenerTypes == Spec => []TypeOK
<1>1. IInv => TypeOK
  BY DEF IInv
<1> QED BY Invariance, <1>1, PTL

(***************************************************************************)
(* Frames in a stream.                                                     *)
(***************************************************************************)

\* The frames sent before anything went wrong, and in a stream with a mask the
\* one that was changed, are followed on their way.
Sure == IF fault = NULL THEN sent ELSE fault - 1

Followed ==
  IF fault = NULL THEN sent ELSE IF mode = "outer" THEN fault ELSE fault - 1

PacketsOf(f) == UNION {Packets(f, seq) : seq \in SequenceNos}

\* A packet of which a byte became another one, but none of its length.
Changed(f) ==
  {q \in Seq(Byte) :
     \E p \in PacketsOf(f) : \E i \in DOMAIN p \ {2, 3}, b \in Byte :
       b # p[i] /\ q = [p EXCEPT ![i] = b]}

PacketsAt(i) == IF i = fault THEN Changed(frames[i]) ELSE PacketsOf(frames[i])

\* The bytes of the frames that were not delivered yet, as far as they left the
\* sender: those the receiver holds of the first, and those under way.
Held == receiver.head \o receiver.body
Pending == Held \o bytes

Awaited == [i \in 1 .. Followed |-> PacketsAt(i)]

\* q begins with the packets of the k frames behind d, the j-th of which ends at
\* cut[j].
Cut(q, packets, d, k, cut) ==
  /\ cut \in [0 .. k -> Nat] /\ cut[0] = 0
  /\ \A j \in 1 .. k :
       /\ cut[j - 1] <= cut[j] /\ cut[j] <= Len(q)
       /\ SubSeq(q, cut[j - 1] + 1, cut[j]) \in packets[d + j]

\* The receiver has not got all n bytes of a packet.
Amid(n) == receiver.fhdr => Len(receiver.body) < n - HeaderSize

Flowing ==
  LET d == Len(delivered)
      k == Followed - d
  IN  link = "open" /\ d <= Followed =>
        \E cut : /\ Cut(Pending, Awaited, d, k, cut)
                 /\ k > 0 => Amid(cut[1])
                 /\ k = 0 /\ fault = NULL => ~receiver.fhdr
                 /\ fault = NULL => cut[k] = Len(Pending)

\* What the receiver holds: a part of a header, or all of it and a part of the
\* payload.
Reading ==
  IF receiver.fhdr THEN Len(receiver.head) = HeaderSize
  ELSE /\ Len(receiver.head) < HeaderSize /\ receiver.body = <<>>
       /\ mode = "sdk" => receiver.head = <<>>

StreamTypes ==
  /\ mode \in Modes /\ frames \in Streams /\ compressing \in BOOLEAN
  /\ sent \in 0 .. Len(frames) /\ bytes \in Seq(Byte)
  /\ receiver \in [fhdr : BOOLEAN, head : Seq(Byte), body : Seq(Byte),
                   buffer : Seq(Byte)]
  /\ mode = "sdk" /\ link = "open" => Len(receiver.buffer) = HeaderSize
  /\ link = "open" => Reading
  /\ delivered \in Seq([cmd : Byte, payload : Seq(Byte)])
  /\ link \in {"open", "closed", "aborted"}
  /\ fault \in 1 .. sent \cup {NULL}

\* What was delivered of the frames before the fault is what was sent.
Faithful ==
  /\ \A i \in DOMAIN delivered : i <= Sure => delivered[i] = frames[i]
  /\ fault = NULL => link # "aborted" /\ Len(delivered) <= sent
  /\ fault = NULL /\ link = "closed" => Len(delivered) = sent
  /\ mode = "outer" => Len(delivered) <= Sure

StreamIInv == StreamTypes /\ Faithful /\ Flowing

(* Arithmetic of bytes and words.                                          *)

LEMMA Parts ==
  ASSUME NEW n \in Nat
  PROVE  /\ n % ByteBase \in Byte /\ n \div ByteBase \in Nat
         /\ (n % ByteBase) + ByteBase * (n \div ByteBase) = n
         /\ n < Word => n \div ByteBase \in Byte
BY ByteBaseAssumption DEF Byte, Word

LEMMA PartsOfWords ==
  ASSUME NEW n \in Nat
  PROVE  /\ Word \in Nat \ {0}
         /\ n % Word \in 0 .. Word - 1 /\ n \div Word \in Nat
         /\ (n % Word) + Word * (n \div Word) = n
         /\ n < Word => n % Word = n /\ n \div Word = 0
<1>1. Word \in Nat \ {0}
  BY ByteBaseAssumption DEF Word
<1> QED BY <1>1

LEMMA Between == \A i, j, k \in Int : i <= j /\ j <= k => i <= k
OBVIOUS

LEMMA NotBelow == \A i, j \in Nat : i <= j /\ ~(i < j) => i = j
OBVIOUS

LEMMA HalfOfByte == Half \in Nat \ {0} /\ Half + Half <= ByteBase /\ 1 \in Byte
BY ByteBaseAssumption DEF Half, Byte

LEMMA Division ==
  ASSUME NEW b \in Nat \ {0}, NEW n \in Int
  PROVE  \E m \in Int, r \in 0 .. b - 1 : n = m * b + r /\ n % b = r
<1> WITNESS n \div b \in Int, n % b \in 0 .. b - 1
<1> QED OBVIOUS

LEMMA OneDivision ==
  ASSUME NEW b \in Nat \ {0}, NEW k \in Int, NEW m \in Int,
         NEW r \in 0 .. b - 1, NEW s \in 0 .. b - 1, k * b + r = m * b + s
  PROVE  k = m /\ r = s
<1>1. k >= m + 1 => k * b >= m * b + b
  OBVIOUS
<1>2. m >= k + 1 => m * b >= k * b + b
  OBVIOUS
<1>3. k * b \in Int /\ m * b \in Int
  OBVIOUS
<1> QED BY <1>1, <1>2, <1>3

\* A remainder is what it is, whatever multiple was added.
LEMMA SameRemainder ==
  ASSUME NEW b \in Nat \ {0}, NEW n \in 0 .. b - 1, NEW k \in Int, NEW y \in Int,
         y = k * b + n
  PROVE  y % b = n
<1>1. PICK m \in Int, r \in 0 .. b - 1 : y = m * b + r /\ y % b = r
  BY Division
<1>2. m * b + r = k * b + n
  BY <1>1
<1>3. r = n
  BY <1>2, OneDivision
<1> QED BY <1>1, <1>3

\* What is subtracted from a byte is added again.
LEMMA ShiftedBack ==
  ASSUME NEW n \in Byte, NEW s \in Int
  PROVE  /\ (n - s) % ByteBase \in Byte
         /\ (((n - s) % ByteBase) + s) % ByteBase = n
<1>0. ByteBase \in Nat \ {0} /\ n \in 0 .. ByteBase - 1
  BY ByteBaseAssumption DEF Byte
<1>1. n - s \in Int
  BY <1>0
<1>2. PICK m \in Int, r \in 0 .. ByteBase - 1 :
        n - s = m * ByteBase + r /\ (n - s) % ByteBase = r
  BY <1>0, <1>1, Division
<1>4. (0 - m) * ByteBase = 0 - m * ByteBase /\ m * ByteBase \in Int
  BY <1>0
<1>5. r + s = (0 - m) * ByteBase + n
  BY <1>0, <1>2, <1>4
<1>6. (r + s) % ByteBase = n
  <2>1. 0 - m \in Int /\ r + s \in Int
    BY <1>2
  <2> QED BY <1>0, <1>5, <2>1, SameRemainder
<1> QED BY <1>2, <1>6 DEF Byte

\* The command byte tells the command and whether the payload is compressed.
LEMMA CommandParts ==
  ASSUME NEW c \in 0 .. Half - 1
  PROVE  /\ c \in Byte /\ c + Half \in Byte
         /\ c % Half = c /\ c \div Half = 0
         /\ (c + Half) % Half = c /\ (c + Half) \div Half = 1
BY HalfOfByte, ByteBaseAssumption DEF Byte

(* Sequences of bytes.                                                     *)

LEMMA Joined ==
  ASSUME NEW q \in Seq(Byte), NEW r \in Seq(Byte)
  PROVE  /\ q \o r \in Seq(Byte) /\ Len(q \o r) = Len(q) + Len(r)
         /\ SubSeq(q \o r, Len(q) + 1, Len(q) + Len(r)) = r
         /\ SubSeq(q \o r, 1, Len(q)) = q
         /\ \A i \in 1 .. Len(q) : (q \o r)[i] = q[i]
         /\ \A i \in 1 .. Len(r) : (q \o r)[Len(q) + i] = r[i]
OBVIOUS

LEMMA EmptyOne == <<>> \in Seq(Byte)
OBVIOUS

LEMMA JoinedTwice ==
  \A q, r, s \in Seq(Byte) : (q \o r) \o s = q \o (r \o s)
BY ConcatAssociative

LEMMA Part ==
  ASSUME NEW q \in Seq(Byte), NEW a \in Nat, NEW b \in Nat, a <= b, b <= Len(q)
  PROVE  /\ SubSeq(q, a + 1, b) \in Seq(Byte) /\ Len(SubSeq(q, a + 1, b)) = b - a
         /\ \A i \in 1 .. b - a : SubSeq(q, a + 1, b)[i] = q[a + i]
OBVIOUS

LEMMA SameSequence ==
  ASSUME NEW q \in Seq(Byte), NEW r \in Seq(Byte), Len(q) = Len(r),
         \A i \in 1 .. Len(q) : q[i] = r[i]
  PROVE  q = r
OBVIOUS

LEMMA PartOfJoined ==
  ASSUME NEW q \in Seq(Byte), NEW r \in Seq(Byte), NEW a \in Nat, NEW b \in Nat,
         a <= b, b <= Len(q)
  PROVE  SubSeq(q \o r, a + 1, b) = SubSeq(q, a + 1, b)
<1>1. q \o r \in Seq(Byte) /\ b <= Len(q \o r)
  BY Joined
<1>2. \A i \in 1 .. b - a : (q \o r)[a + i] = q[a + i]
  BY Joined
<1> QED BY <1>1, <1>2, Part, SameSequence

LEMMA PartOfRest ==
  ASSUME NEW q \in Seq(Byte), NEW c \in Nat, NEW a \in Nat, NEW b \in Nat,
         a <= b, c + b <= Len(q)
  PROVE  SubSeq(SubSeq(q, c + 1, Len(q)), a + 1, b) = SubSeq(q, c + a + 1, c + b)
<1>1. SubSeq(SubSeq(q, c + 1, Len(q)), a + 1, b)
        = SubSeq(q, (c + 1) + (a + 1) - 1, (c + 1) + b - 1)
  BY SubSeqOfSubSeq
<1>2. (c + 1) + (a + 1) - 1 = c + a + 1 /\ (c + 1) + b - 1 = c + b
  OBVIOUS
<1> QED BY <1>1, <1>2

\* What is taken off the front of a sequence is taken from what follows.
LEMMA Onto ==
  ASSUME NEW h \in Seq(Byte), NEW q \in Seq(Byte), NEW n \in 0 .. Len(q)
  PROVE  /\ SubSeq(q, 1, n) \in Seq(Byte) /\ Len(SubSeq(q, 1, n)) = n
         /\ SubSeq(q, n + 1, Len(q)) \in Seq(Byte)
         /\ (h \o SubSeq(q, 1, n)) \o SubSeq(q, n + 1, Len(q)) = h \o q
<1>1. SubSeq(q, 1, n) \in Seq(Byte) /\ Len(SubSeq(q, 1, n)) = n
  OBVIOUS
<1>2. SubSeq(q, n + 1, Len(q)) \in Seq(Byte)
  OBVIOUS
<1>3. SubSeq(q, 1, n) \o SubSeq(q, n + 1, Len(q)) = SubSeq(q, 1, Len(q))
  <2>1. /\ 1 \in 1 .. Len(q) + 1 /\ n \in 1 - 1 .. Len(q)
        /\ Len(q) \in n .. Len(q)
    OBVIOUS
  <2> QED BY <2>1, ConcatAdjacentSubSeq
<1>4. SubSeq(q, 1, Len(q)) = q
  BY SubSeqFull
<1>5. (h \o SubSeq(q, 1, n)) \o SubSeq(q, n + 1, Len(q))
        = h \o (SubSeq(q, 1, n) \o SubSeq(q, n + 1, Len(q)))
  <2>1. \A u, v \in Seq(Byte) : (h \o u) \o v = h \o (u \o v)
    BY ConcatAssociative, SMTT(20)
  <2> QED BY <1>1, <1>2, <2>1, Zenon
<1>6. (h \o SubSeq(q, 1, n)) \o SubSeq(q, n + 1, Len(q)) = h \o q
  BY <1>3, <1>4, <1>5, Zenon
<1> QED BY <1>1, <1>2, <1>6, Zenon

LEMMA FrontIs ==
  ASSUME NEW q \in Seq(Byte), NEW r \in Seq(Byte)
  PROVE  SubSeq(q \o r, Len(q) + 1, Len(q \o r)) = r
BY Joined

LEMMA FrontAndRest ==
  ASSUME NEW h \in Seq(Byte), NEW b \in Seq(Byte), NEW v \in Seq(Byte)
  PROVE  /\ SubSeq(h \o (b \o v), 1, Len(h) + Len(b)) = h \o b
         /\ SubSeq(h \o (b \o v), Len(h) + Len(b) + 1, Len(h \o (b \o v))) = v
<1>1. (h \o b) \o v = h \o (b \o v)
  BY JoinedTwice, Zenon
<1>2. PICK u \in Seq(Byte) : u = h \o b /\ Len(u) = Len(h) + Len(b)
  BY Joined
<1>3. h \o (b \o v) = u \o v
  BY <1>1, <1>2, Zenon
<1>4. SubSeq(u \o v, 1, Len(u)) = u
  BY Joined
<1>5. SubSeq(u \o v, Len(u) + 1, Len(u \o v)) = v
  BY FrontIs
<1> QED BY <1>2, <1>3, <1>4, <1>5, Zenon

(* Recursion over numbers.                                                 *)

LEMMA LeastOf ==
  ASSUME NEW S, S \subseteq Nat, S # {}
  PROVE  \E j \in S : \A i \in S : ~(i < j)
<1> DEFINE R == {ij \in Nat \X Nat : ij[1] < ij[2]}
<1>1. IsWellFoundedOn(R, Nat)
  BY NatLessThanWellFounded DEF OpToRel
<1>2. \A i, j \in Nat : i < j => <<i, j>> \in R
  OBVIOUS
<1> HIDE DEF R
<1>3. \E j \in S : \A i \in S : ~(<<i, j>> \in R)
  BY <1>1, WFMin
<1> QED BY <1>2, <1>3

LEMMA Climbing ==
  ASSUME NEW n \in Nat, NEW P, 0 \in P, \A i \in 1 .. n : i - 1 \in P => i \in P
  PROVE  0 .. n \subseteq P
<1> DEFINE Odd == {i \in 0 .. n : i \notin P}
<1> SUFFICES ASSUME Odd # {} PROVE FALSE
  OBVIOUS
<1>1. Odd \subseteq Nat
  OBVIOUS
<1>2. \E j \in Odd : \A i \in Odd : ~(i < j)
  <2> HIDE DEF Odd
  <2> QED BY <1>1, LeastOf
<1>3. PICK j \in Odd : \A i \in Odd : ~(i < j)
  BY <1>2
<1>4. j \in 1 .. n /\ j - 1 \in 0 .. n /\ j - 1 \notin Odd
  BY <1>3
<1> QED BY <1>4

\* What is defined by a first value and a step exists.
Steps(n, X) == [(1 .. n) \X X -> X]
Course(s, n, X, x, F) ==
  /\ s \in [0 .. n -> X] /\ s[0] = x
  /\ \A i \in 1 .. n : s[i] = F[<<i, s[i - 1]>>]

LEMMA Recursion ==
  ASSUME NEW X, NEW x \in X, NEW n \in Nat, NEW F \in Steps(n, X)
  PROVE  \E s : Course(s, n, X, x, F)
<1> USE DEF Steps, Course
<1> DEFINE Good(k, s) == /\ s \in [0 .. k -> X] /\ s[0] = x
                         /\ \A i \in 1 .. k : s[i] = F[<<i, s[i - 1]>>]
           P == {k \in 0 .. n : \E s : Good(k, s)}
<1>1. 0 \in P
  <2> DEFINE s == [i \in 0 .. 0 |-> x]
  <2>1. Good(0, s)
    OBVIOUS
  <2>2. 0 \in 0 .. n
    OBVIOUS
  <2> HIDE DEF s, Good
  <2> QED BY <2>1, <2>2
<1>2. ASSUME NEW k \in 1 .. n, k - 1 \in P PROVE k \in P
  <2>1. PICK s : Good(k - 1, s)
    BY <1>2
  <2> DEFINE t == [i \in 0 .. k |-> IF i = k THEN F[<<k, s[k - 1]>>] ELSE s[i]]
  <2>2. s[k - 1] \in X /\ F[<<k, s[k - 1]>>] \in X
    BY <2>1
  <2>3. t \in [0 .. k -> X] /\ t[0] = x /\ t[k] = F[<<k, s[k - 1]>>]
    BY <2>1, <2>2
  <2>4. \A i \in 0 .. k - 1 : t[i] = s[i]
    OBVIOUS
  <2> HIDE DEF t
  <2>5. ASSUME NEW i \in 1 .. k PROVE t[i] = F[<<i, t[i - 1]>>]
    <3>1. CASE i = k
      BY <3>1, <2>3, <2>4
    <3>2. CASE i # k
      BY <3>2, <2>1, <2>4
    <3> QED BY <3>1, <3>2
  <2> QED BY <2>3, <2>5
<1>3. n \in P
  <2> HIDE DEF P
  <2>1. 0 .. n \subseteq P
    BY <1>1, <1>2, Climbing
  <2> QED BY <2>1
<1>4. PICK s : Good(n, s)
  BY <1>3
<1> QED BY <1>4

(* The cipher.                                                             *)

Boxes == [0 .. ModVt - 1 -> 0 .. ModVt - 1]

LEMMA PlaceOf ==
  ASSUME NEW n \in Int
  PROVE  n % ModVt \in 0 .. ModVt - 1
<1>1. ModVt \in Nat \ {0}
  BY CipherAssumption, ByteBaseAssumption
<1> QED BY <1>1

LEMMA SwapType ==
  ASSUME NEW box \in Boxes, NEW a \in 0 .. ModVt - 1, NEW b \in 0 .. ModVt - 1
  PROVE  Swap(box, a, b) \in Boxes
BY DEF Swap, Boxes

LEMMA KeyOf ==
  ASSUME NEW i \in Nat
  PROVE  Key[1 + (i % Len(Key))] \in Int
<1>1. Len(Key) \in Nat \ {0} /\ Key \in Seq(Byte)
  BY CipherAssumption
<1>2. i % Len(Key) \in 0 .. Len(Key) - 1
  BY <1>1
<1>3. 1 + (i % Len(Key)) \in 1 .. Len(Key)
  BY <1>1, <1>2
<1>4. Key[1 + (i % Len(Key))] \in Byte
  BY <1>1, <1>3
<1> QED BY <1>4, ByteBaseAssumption DEF Byte

LEMMA MixedType ==
  ASSUME NEW s \in [box : Boxes, j : 0 .. ModVt - 1], NEW i \in 0 .. ModVt - 1
  PROVE  Mixed(s, i) \in [box : Boxes, j : 0 .. ModVt - 1]
<1> DEFINE key == Key[1 + (i % Len(Key))]
           j == (s.j + s.box[i] + key) % ModVt
<1>0. ModVt \in Nat
  BY CipherAssumption, ByteBaseAssumption
<1>1. key \in Int
  BY <1>0, KeyOf
<1>2. s.j \in Int /\ s.box[i] \in Int /\ s.box \in Boxes
  BY <1>0 DEF Boxes
<1> HIDE DEF key
<1>3. s.j + s.box[i] + key \in Int
  BY <1>1, <1>2
<1>4. j \in 0 .. ModVt - 1
  BY <1>3, PlaceOf
<1> HIDE DEF j
<1>5. Swap(s.box, i, j) \in Boxes
  BY <1>2, <1>4, SwapType
<1>6. Mixed(s, i) = [box |-> Swap(s.box, i, j), j |-> j]
  BY DEF Mixed, j, key
<1> QED BY <1>4, <1>5, <1>6

LEMMA TurnedType ==
  ASSUME NEW s \in [box : Boxes, high : 0 .. ModVt - 1], NEW i \in Nat
  PROVE  Turned(s, i) \in [box : Boxes, high : 0 .. ModVt - 1]
<1> DEFINE high == (s.high + s.box[i % ModVt]) % ModVt
<1>0. ModVt \in Nat \ {0}
  BY CipherAssumption, ByteBaseAssumption
<1>1. i % ModVt \in 0 .. ModVt - 1 /\ 0 \in 0 .. ModVt - 1
  BY <1>0, PlaceOf
<1>2. s.high \in Int /\ s.box[i % ModVt] \in Int /\ s.box \in Boxes
  BY <1>0, <1>1 DEF Boxes
<1>3. s.high + s.box[i % ModVt] \in Int
  BY <1>2
<1>4. high \in 0 .. ModVt - 1
  BY <1>3, PlaceOf
<1>6. Turned(s, i) = [box |-> Swap(s.box, 0, high), high |-> high]
  BY DEF Turned
<1> HIDE DEF high
<1>5. Swap(s.box, 0, high) \in Boxes
  BY <1>1, <1>2, <1>4, SwapType
<1> QED BY <1>4, <1>5, <1>6

LEMMA SBoxType == SBox \in Boxes
<1> DEFINE X == [box : Boxes, j : 0 .. ModVt - 1]
           x == [box |-> [b \in 0 .. ModVt - 1 |-> b], j |-> 0]
           F == [p \in (1 .. ModVt) \X X |-> Mixed(p[2], p[1] - 1)]
           G(s) == s = [i \in 0 .. ModVt |-> IF i = 0 THEN x ELSE Mixed(s[i - 1], i - 1)]
           t == CHOOSE s : G(s)
<1>0. ModVt \in Nat \ {0}
  BY CipherAssumption, ByteBaseAssumption
<1>1. x \in X
  BY <1>0 DEF Boxes
<1>2. ASSUME NEW p \in (1 .. ModVt) \X X
      PROVE  F[p] \in X
  <2>1. p[2] \in X /\ p[1] - 1 \in 0 .. ModVt - 1
    BY <1>0
  <2>2. Mixed(p[2], p[1] - 1) \in X
    BY <2>1, MixedType
  <2> QED BY <2>2
<1>3. F \in Steps(ModVt, X)
  BY <1>2 DEF Steps
<1>4. \A i \in 1 .. ModVt, y \in X : F[<<i, y>>] = Mixed(y, i - 1)
  OBVIOUS
<1> HIDE DEF x, F, X
<1>5. PICK s : Course(s, ModVt, X, x, F)
  BY <1>0, <1>1, <1>3, Recursion
<1>6. \A i \in 0 .. ModVt : i # 0 => s[i - 1] \in X /\ i \in 1 .. ModVt
  BY <1>0, <1>5 DEF Course
<1>7. G(s)
  BY <1>4, <1>5, <1>6 DEF Course
<1>8. G(t)
  BY <1>7
<1> HIDE DEF t
<1>9. t[0] = x /\ \A i \in 1 .. ModVt : t[i] = Mixed(t[i - 1], i - 1)
  BY <1>0, <1>8
<1>10. \A i \in 1 .. ModVt : t[i - 1] \in X => t[i] \in X
  <2> SUFFICES ASSUME NEW i \in 1 .. ModVt, t[i - 1] \in X PROVE t[i] \in X
    OBVIOUS
  <2>1. i - 1 \in 0 .. ModVt - 1
    BY <1>0
  <2> QED BY <1>9, <2>1, MixedType DEF X
<1>11. t[ModVt] \in X
  <2> DEFINE P == {i \in 0 .. ModVt : t[i] \in X}
  <2>1. 0 \in P
    BY <1>0, <1>1, <1>9
  <2>2. \A i \in 1 .. ModVt : i - 1 \in P => i \in P
    BY <1>0, <1>10
  <2> HIDE DEF P
  <2>3. 0 .. ModVt \subseteq P
    BY <1>0, <2>1, <2>2, Climbing
  <2>4. ModVt \in P
    BY <1>0, <2>3
  <2> QED BY <2>4 DEF P
<1>12. SBox = t[ModVt].box
  BY DEF SBox, t, x
<1> QED BY <1>11, <1>12 DEF X

\* What a payload is combined with are bytes.
LEMMA KeyStreamType ==
  ASSUME NEW n \in Nat
  PROVE  \A i \in 1 .. n : KeyStream(n)[i] \in Byte
<1> DEFINE X == [box : Boxes, high : 0 .. ModVt - 1]
           x == [box |-> SBox, high |-> 0]
           F == [p \in (1 .. n) \X X |-> Turned(p[2], p[1] - 1)]
           G(s) == s = [i \in 0 .. n |-> IF i = 0 THEN x ELSE Turned(s[i - 1], i - 1)]
           t == CHOOSE s : G(s)
           Mid(y) == (y.box[0] + y.box[y.high]) % ModVt
<1>0. ModVt \in Nat \ {0}
  BY CipherAssumption, ByteBaseAssumption
<1>1. x \in X
  BY <1>0, SBoxType
<1>2. ASSUME NEW p \in (1 .. n) \X X
      PROVE  F[p] \in X
  <2>1. p[2] \in X /\ p[1] - 1 \in Nat
    OBVIOUS
  <2>2. Turned(p[2], p[1] - 1) \in X
    BY <2>1, TurnedType
  <2> QED BY <2>2
<1>3. F \in Steps(n, X)
  BY <1>2 DEF Steps
<1>4. \A i \in 1 .. n, y \in X : F[<<i, y>>] = Turned(y, i - 1)
  OBVIOUS
<1> HIDE DEF x, F, X
<1>5. PICK s : Course(s, n, X, x, F)
  BY <1>0, <1>1, <1>3, Recursion
<1>6. \A i \in 0 .. n : i # 0 => s[i - 1] \in X /\ i \in 1 .. n
  BY <1>5 DEF Course
<1>7. G(s)
  BY <1>4, <1>5, <1>6 DEF Course
<1>8. G(t)
  BY <1>7
<1> HIDE DEF t
<1>9. t[0] = x /\ \A i \in 1 .. n : t[i] = Turned(t[i - 1], i - 1)
  BY <1>8
<1>10. \A i \in 1 .. n : t[i - 1] \in X => t[i] \in X
  <2> SUFFICES ASSUME NEW i \in 1 .. n, t[i - 1] \in X PROVE t[i] \in X
    OBVIOUS
  <2>1. i - 1 \in Nat
    OBVIOUS
  <2> QED BY <1>9, <2>1, TurnedType DEF X
<1>11. \A i \in 0 .. n : t[i] \in X
  <2> DEFINE P == {i \in 0 .. n : t[i] \in X}
  <2>1. 0 \in P
    BY <1>1, <1>9
  <2>2. \A i \in 1 .. n : i - 1 \in P => i \in P
    BY <1>10
  <2> HIDE DEF P
  <2>3. 0 .. n \subseteq P
    BY <2>1, <2>2, Climbing
  <2> QED BY <2>3 DEF P
<1>12. KeyStream(n) = [i \in 1 .. n |-> t[i].box[Mid(t[i])]]
  BY DEF KeyStream, t, x
<1> SUFFICES ASSUME NEW i \in 1 .. n PROVE KeyStream(n)[i] \in Byte
  OBVIOUS
<1>13. t[i] \in X
  BY <1>11
<1>14. 0 \in 0 .. ModVt - 1
  BY <1>0
<1>15. t[i].box \in Boxes /\ t[i].high \in 0 .. ModVt - 1
  BY <1>13 DEF X
<1>16. t[i].box[0] + t[i].box[t[i].high] \in Int
  <2>1. \A box \in Boxes, j \in 0 .. ModVt - 1 : box[j] \in Int
    BY <1>0 DEF Boxes
  <2>2. t[i].box[0] \in Int /\ t[i].box[t[i].high] \in Int
    BY <1>14, <1>15, <2>1, Zenon
  <2> QED BY <2>2
<1>17. Mid(t[i]) \in 0 .. ModVt - 1
  BY <1>16, PlaceOf
<1> HIDE DEF Mid
<1>18. t[i].box[Mid(t[i])] \in 0 .. ModVt - 1
  BY <1>15, <1>17 DEF Boxes
<1>19. 0 .. ModVt - 1 \subseteq Byte
  BY CipherAssumption, ByteBaseAssumption DEF Byte
<1> QED BY <1>12, <1>18, <1>19

\* Decrypting undoes encrypting.
LEMMA Deciphered ==
  ASSUME NEW p \in Seq(Byte)
  PROVE  /\ Encrypted(p) \in Seq(Byte) /\ Len(Encrypted(p)) = Len(p)
         /\ Decrypted(p) \in Seq(Byte) /\ Len(Decrypted(p)) = Len(p)
         /\ Decrypted(Encrypted(p)) = p
<1> DEFINE n == Len(p)
           k == KeyStream(n)
           e == Encrypted(p)
<1>1. n \in Nat /\ DOMAIN p = 1 .. n /\ \A i \in 1 .. n : p[i] \in Byte
  OBVIOUS
<1>2. \A i \in 1 .. n : k[i] \in Byte
  BY <1>1, KeyStreamType
<1>3. Subtract \in Int /\ 0 - Subtract \in Int
  BY CipherAssumption
<1>4. \A a, b \in Byte : Xored(a, b) \in Byte /\ Xored(Xored(a, b), b) = a
  BY XoredAssumption
<1>5. \A a \in Byte : (a - Subtract) % ByteBase \in Byte
                      /\ (((a - Subtract) % ByteBase) + Subtract) % ByteBase = a
  BY <1>3, ShiftedBack
<1>6. \A a \in Byte : (a + Subtract) % ByteBase \in Byte
  <2> SUFFICES ASSUME NEW a \in Byte PROVE (a + Subtract) % ByteBase \in Byte
    OBVIOUS
  <2>1. (a - (0 - Subtract)) % ByteBase \in Byte
    BY <1>3, ShiftedBack
  <2>2. a - (0 - Subtract) = a + Subtract
    BY <1>3, ByteBaseAssumption DEF Byte
  <2> QED BY <2>1, <2>2
<1> HIDE DEF n, k
<1>7. e = [i \in 1 .. n |-> (Xored(p[i], k[i]) - Subtract) % ByteBase]
  BY <1>1 DEF Encrypted, k, n
<1>8. Decrypted(p) = [i \in 1 .. n |-> Xored((p[i] + Subtract) % ByteBase, k[i])]
  BY <1>1 DEF Decrypted, k, n
<1>9. \A i \in 1 .. n : (Xored(p[i], k[i]) - Subtract) % ByteBase \in Byte
  BY <1>1, <1>2, <1>4, <1>5
<1>10. \A i \in 1 .. n : Xored((p[i] + Subtract) % ByteBase, k[i]) \in Byte
  BY <1>1, <1>2, <1>4, <1>6
<1> HIDE DEF e
<1>11. e \in Seq(Byte) /\ Len(e) = n
  BY <1>1, <1>7, <1>9
<1>12. Decrypted(p) \in Seq(Byte) /\ Len(Decrypted(p)) = n
  BY <1>1, <1>8, <1>10
<1>13. Decrypted(e) = [i \in 1 .. n |-> Xored((e[i] + Subtract) % ByteBase, k[i])]
  <2>1. DOMAIN e = 1 .. n
    BY <1>7
  <2> QED BY <1>11, <2>1 DEF Decrypted, k, n
<1>14. \A i \in 1 .. n : Xored((e[i] + Subtract) % ByteBase, k[i]) = p[i]
  <2> SUFFICES ASSUME NEW i \in 1 .. n
               PROVE  Xored((e[i] + Subtract) % ByteBase, k[i]) = p[i]
    OBVIOUS
  <2>1. Xored(p[i], k[i]) \in Byte
    BY <1>1, <1>2, <1>4
  <2>2. e[i] = (Xored(p[i], k[i]) - Subtract) % ByteBase
    BY <1>7
  <2>3. (e[i] + Subtract) % ByteBase = Xored(p[i], k[i])
    BY <1>5, <2>1, <2>2
  <2> QED BY <1>1, <1>2, <1>4, <2>3
<1>15. Decrypted(e) = p
  BY <1>1, <1>13, <1>14
<1> QED BY <1>11, <1>12, <1>15 DEF n, e

(* What is compressed and encrypted.                                       *)

LEMMA NumberOf ==
  ASSUME NEW b \in Byte, NEW c \in Byte
  PROVE  /\ <<b, c>> \in Seq(Byte) /\ Len(<<b, c>>) = 2
         /\ Number(<<b, c>>) = b + ByteBase * c /\ Number(<<b, c>>) \in 0 .. Word - 1
<1>1. Number(<<b, c>>) = b + ByteBase * c
  BY DEF Number
<1>2. b + ByteBase * c \in 0 .. Word - 1
  <2>0. ByteBase \in Nat \ {0} /\ b \in Nat /\ c \in Nat /\ b <= ByteBase - 1 /\ c + 1 <= ByteBase
    BY ByteBaseAssumption DEF Byte
  <2>1. ByteBase * c \in Nat /\ ByteBase * (c + 1) <= ByteBase * ByteBase
    BY <2>0
  <2>2. ByteBase * (c + 1) = ByteBase * c + ByteBase
    BY <2>0
  <2>3. ByteBase * ByteBase \in Nat
    BY <2>0
  <2> QED BY <2>0, <2>1, <2>2, <2>3 DEF Word
<1>3. <<b, c>> \in Seq(Byte) /\ Len(<<b, c>>) = 2
  OBVIOUS
<1> QED BY <1>1, <1>2, <1>3

LEMMA TwoBytesOf ==
  ASSUME NEW n \in 0 .. Word - 1
  PROVE  /\ TwoBytes(n) \in Seq(Byte) /\ Len(TwoBytes(n)) = 2
         /\ TwoBytes(n)[1] \in Byte /\ TwoBytes(n)[2] \in Byte
         /\ TwoBytes(n)[2] = n \div ByteBase
         /\ TwoBytes(n)[1] + ByteBase * TwoBytes(n)[2] = n
<1>1. n \in Nat /\ n < Word
  BY PartsOfWords
<1>2. n % ByteBase \in Byte /\ n \div ByteBase \in Byte
      /\ (n % ByteBase) + ByteBase * (n \div ByteBase) = n
  BY <1>1, Parts
<1>3. TwoBytes(n) = <<n % ByteBase, n \div ByteBase>>
  BY DEF TwoBytes
<1>4. TwoBytes(n)[1] = n % ByteBase /\ TwoBytes(n)[2] = n \div ByteBase
      /\ Len(TwoBytes(n)) = 2
  BY <1>3
<1>5. TwoBytes(n) \in Seq(Byte)
  BY <1>2, <1>3
<1> QED BY <1>2, <1>4, <1>5

LEMMA PartPair ==
  ASSUME NEW q \in Seq(Byte), NEW i \in Nat \ {0}, i + 1 <= Len(q)
  PROVE  /\ Number(SubSeq(q, i, i + 1)) = q[i] + ByteBase * q[i + 1]
         /\ Number(SubSeq(q, i, i + 1)) \in 0 .. Word - 1
<1>1. SubSeq(q, i, i + 1)[1] = q[i] /\ SubSeq(q, i, i + 1)[2] = q[i + 1]
  OBVIOUS
<1>2. q[i] \in Byte /\ q[i + 1] \in Byte
  OBVIOUS
<1>3. Number(SubSeq(q, i, i + 1)) = q[i] + ByteBase * q[i + 1]
  BY <1>1 DEF Number
<1>4. q[i] + ByteBase * q[i + 1] \in 0 .. Word - 1
  <2>1. Number(<<q[i], q[i + 1]>>) = q[i] + ByteBase * q[i + 1]
        /\ Number(<<q[i], q[i + 1]>>) \in 0 .. Word - 1
    BY <1>2, NumberOf
  <2> QED BY <2>1
<1> QED BY <1>3, <1>4

LEMMA InflatedType ==
  ASSUME NEW p \in Seq(Byte)
  PROVE  Inflated(p) \in Seq(Byte)
<1>1. CASE Len(p) # 3
  BY <1>1 DEF Inflated
<1>2. CASE Len(p) = 3
  <2>1. Number(SubSeq(p, 2, 3)) \in Nat
    <3>1. 2 \in Nat \ {0} /\ 2 + 1 = 3 /\ 2 + 1 <= Len(p)
      BY <1>2
    <3>2. Number(SubSeq(p, 2, 2 + 1)) \in 0 .. Word - 1
      BY <3>1, PartPair
    <3>3. Number(SubSeq(p, 2, 3)) \in 0 .. Word - 1
      BY <3>1, <3>2
    <3> QED BY <3>3, PartsOfWords
  <2>2. p[1] \in Byte
    BY <1>2
  <2> DEFINE n == Number(SubSeq(p, 2, 3))
  <2>3. Inflated(p) = [i \in 1 .. n |-> p[1]]
    BY <1>2 DEF Inflated
  <2> HIDE DEF n
  <2> QED BY <2>1, <2>2, <2>3 DEF n
<1> QED BY <1>1, <1>2

\* A payload that became shorter was one of equal bytes.
LEMMA Unpacked ==
  ASSUME NEW p \in Seq(Byte), p # <<>>, Len(Deflated(p)) < Len(p)
  PROVE  Deflated(p) \in Seq(Byte) /\ Inflated(Deflated(p)) = p
<1> DEFINE n == Len(p)
           d == Deflated(p)
<1>0. n \in Nat \ {0} /\ p[1] \in Byte
  OBVIOUS
<1>1. Len(p) < Word /\ \A i \in DOMAIN p : p[i] = p[1]
  BY DEF Deflated
<1>2. d = <<p[1]>> \o TwoBytes(n)
  BY <1>1 DEF Deflated
<1>3. n \in 0 .. Word - 1
  BY <1>0, <1>1, PartsOfWords
<1> HIDE DEF n, d
<1>4. /\ TwoBytes(n) \in Seq(Byte) /\ Len(TwoBytes(n)) = 2
      /\ TwoBytes(n)[1] + ByteBase * TwoBytes(n)[2] = n
  BY <1>3, TwoBytesOf
<1>5. <<p[1]>> \in Seq(Byte) /\ Len(<<p[1]>>) = 1 /\ <<p[1]>>[1] = p[1]
  BY <1>0
<1>6. /\ d \in Seq(Byte) /\ Len(d) = 3 /\ d[1] = p[1]
      /\ d[2] = TwoBytes(n)[1] /\ d[3] = TwoBytes(n)[2]
  <2>1. /\ d \in Seq(Byte) /\ Len(d) = Len(<<p[1]>>) + Len(TwoBytes(n))
        /\ \A i \in 1 .. Len(<<p[1]>>) : d[i] = <<p[1]>>[i]
        /\ \A i \in 1 .. Len(TwoBytes(n)) : d[Len(<<p[1]>>) + i] = TwoBytes(n)[i]
    BY <1>2, <1>4, <1>5, Joined
  <2>2. \A i \in 1 .. 1 : d[i] = <<p[1]>>[i]
    BY <1>5, <2>1
  <2>3. \A i \in 1 .. 2 : d[1 + i] = TwoBytes(n)[i]
    BY <1>4, <1>5, <2>1
  <2>4. Len(d) = 3
    BY <1>4, <1>5, <2>1
  <2>5. d[1] = <<p[1]>>[1]
    BY <2>2
  <2>6. d[1 + 1] = TwoBytes(n)[1] /\ d[1 + 2] = TwoBytes(n)[2]
    BY <2>3
  <2>7. 1 + 1 = 2 /\ 1 + 2 = 3
    OBVIOUS
  <2>8. d[2] = TwoBytes(n)[1] /\ d[3] = TwoBytes(n)[2]
    BY <2>6, <2>7
  <2> QED BY <1>5, <2>1, <2>4, <2>5, <2>8, Zenon
<1>7. Number(SubSeq(d, 2, 3)) = n
  <2>0. 2 \in Nat \ {0} /\ 2 + 1 = 3 /\ 2 + 1 <= Len(d)
    BY <1>6
  <2>1. Number(SubSeq(d, 2, 2 + 1)) = d[2] + ByteBase * d[2 + 1]
    BY <1>6, <2>0, PartPair
  <2> QED BY <1>4, <1>6, <2>1
<1>8. Inflated(d) = [i \in 1 .. n |-> p[1]]
  BY <1>6, <1>7 DEF Inflated
<1>9. [i \in 1 .. n |-> p[1]] = p
  BY <1>0, <1>1 DEF n
<1> QED BY <1>6, <1>8, <1>9 DEF d

LEMMA DecryptType ==
  ASSUME NEW cmd, NEW p \in Seq(Byte), NEW b \in BOOLEAN
  PROVE  DecryptMessage(cmd, p, b) \in Seq(Byte) \cup {NULL}
<1>1. Decrypted(p) \in Seq(Byte)
  BY Deciphered
<1>2. Inflated(Decrypted(p)) \in Seq(Byte)
  BY <1>1, InflatedType
<1> QED BY <1>1, <1>2 DEF DecryptMessage

\* What the sender did to a payload is undone by the receiver.
LEMMA Opened ==
  ASSUME NEW cmd, NEW p \in Seq(Byte), NEW e, e = EncryptMessage(cmd, p)
  PROVE  /\ e.payload \in Seq(Byte) /\ Len(e.payload) <= Len(p)
         /\ e.compressed \in BOOLEAN
         /\ DecryptMessage(cmd, e.payload, e.compressed) = p /\ p # NULL
<1>0. p # NULL
  BY NullAssumption
<1>1. CASE p = <<>> \/ cmd \in Transparent
  <2>1. e.payload = p /\ e.compressed = FALSE
    BY <1>1 DEF EncryptMessage
  <2>2. DecryptMessage(cmd, p, FALSE) = p
    BY <1>1 DEF DecryptMessage
  <2>3. Len(p) <= Len(p)
    OBVIOUS
  <2>4. DecryptMessage(cmd, e.payload, e.compressed) = p
    BY <2>1, <2>2, Zenon
  <2> QED BY <1>0, <2>1, <2>3, <2>4
<1>2. CASE p # <<>> /\ cmd \notin Transparent /\ compressing /\ Len(Deflated(p)) < Len(p)
  <2>1. e.payload = Encrypted(Deflated(p)) /\ e.compressed = TRUE
    BY <1>2 DEF EncryptMessage
  <2>2. Deflated(p) \in Seq(Byte) /\ Inflated(Deflated(p)) = p
    BY <1>2, Unpacked
  <2>3. Deflated(p) # <<>>
    <3> SUFFICES ASSUME Deflated(p) = <<>> PROVE FALSE
      OBVIOUS
    <3>1. Inflated(<<>>) = <<>>
      BY DEF Inflated
    <3> QED BY <1>2, <2>2, <3>1
  <2>4. /\ Encrypted(Deflated(p)) \in Seq(Byte)
        /\ Len(Encrypted(Deflated(p))) = Len(Deflated(p))
        /\ Decrypted(Encrypted(Deflated(p))) = Deflated(p)
    BY <2>2, Deciphered
  <2>5. Encrypted(Deflated(p)) # <<>>
    BY <2>2, <2>3, <2>4
  <2>6. DecryptMessage(cmd, Encrypted(Deflated(p)), TRUE) = p
    BY <1>2, <2>2, <2>4, <2>5 DEF DecryptMessage
  <2>7. Len(Encrypted(Deflated(p))) <= Len(p)
    <3>1. Len(Deflated(p)) \in Nat /\ Len(p) \in Nat
      BY <2>2
    <3> QED BY <1>2, <2>4, <3>1
  <2> QED BY <1>0, <2>1, <2>4, <2>6, <2>7
<1>3. CASE /\ p # <<>> /\ cmd \notin Transparent
           /\ ~(compressing /\ Len(Deflated(p)) < Len(p))
  <2>1. e.payload = Encrypted(p) /\ e.compressed = FALSE
    BY <1>3 DEF EncryptMessage
  <2>2. /\ Encrypted(p) \in Seq(Byte) /\ Len(Encrypted(p)) = Len(p)
        /\ Decrypted(Encrypted(p)) = p
    BY Deciphered
  <2>3. Encrypted(p) # <<>>
    BY <1>3, <2>2
  <2>4. DecryptMessage(cmd, Encrypted(p), FALSE) = p
    BY <1>3, <2>2, <2>3 DEF DecryptMessage
  <2>5. Len(Encrypted(p)) <= Len(p)
    BY <2>2
  <2> QED BY <1>0, <2>1, <2>2, <2>4, <2>5
<1> QED BY <1>1, <1>2, <1>3

(* Headers and packets.                                                    *)

LEMMA Pair ==
  ASSUME NEW b \in Byte, NEW c \in Byte
  PROVE  \E r \in Seq(Byte) : r = <<b, c>> /\ Len(r) = 2 /\ r[1] = b /\ r[2] = c
<1>1. /\ <<b, c>> \in Seq(Byte) /\ Len(<<b, c>>) = 2
      /\ <<b, c>>[1] = b /\ <<b, c>>[2] = c
  OBVIOUS
<1> QED BY <1>1, Zenon

LEMMA HeaderParts ==
  ASSUME NEW size \in Nat, NEW mask \in 0 .. Word - 1, NEW cmd \in Byte,
         NEW seq \in Byte, NEW h, h = Header(size, mask, cmd, seq)
  PROVE  /\ h \in Seq(Byte) /\ Len(h) = HeaderSize
         /\ h[1] = Fk /\ h[6] = cmd /\ h[5] = mask \div ByteBase
         /\ Number(SubSeq(h, 2, 3)) = size % Word
         /\ Number(SubSeq(h, 4, 5)) = mask
<1>1. size % Word \in 0 .. Word - 1
  BY PartsOfWords
<1>2. PICK a \in Byte, b \in Byte :
        TwoBytes(size % Word) = <<a, b>> /\ a + ByteBase * b = size % Word
  <2>1. TwoBytes(size % Word)[1] \in Byte /\ TwoBytes(size % Word)[2] \in Byte
        /\ TwoBytes(size % Word)[1] + ByteBase * TwoBytes(size % Word)[2] = size % Word
    BY <1>1, TwoBytesOf
  <2>2. TwoBytes(size % Word) = <<TwoBytes(size % Word)[1], TwoBytes(size % Word)[2]>>
    BY DEF TwoBytes
  <2> QED BY <2>1, <2>2, Zenon
<1>3. PICK c \in Byte, d \in Byte :
        TwoBytes(mask) = <<c, d>> /\ c + ByteBase * d = mask /\ d = mask \div ByteBase
  <2>1. TwoBytes(mask)[1] \in Byte /\ TwoBytes(mask)[2] \in Byte
        /\ TwoBytes(mask)[1] + ByteBase * TwoBytes(mask)[2] = mask
        /\ TwoBytes(mask)[2] = mask \div ByteBase
    BY TwoBytesOf
  <2>2. TwoBytes(mask) = <<TwoBytes(mask)[1], TwoBytes(mask)[2]>>
    BY DEF TwoBytes
  <2> QED BY <2>1, <2>2, Zenon
<1>4. h = <<Fk>> \o <<a, b>> \o <<c, d>> \o <<cmd, seq>>
  BY <1>2, <1>3, Zenon DEF Header
<1>5. PICK k \in Seq(Byte) : k = <<Fk>> /\ Len(k) = 1 /\ k[1] = Fk
  <2>1. <<Fk>> \in Seq(Byte) /\ Len(<<Fk>>) = 1 /\ <<Fk>>[1] = Fk
    BY HalfOfByte DEF Fk
  <2> QED BY <2>1, Zenon
<1>6. PICK l \in Seq(Byte) : l = <<a, b>> /\ Len(l) = 2 /\ l[1] = a /\ l[2] = b
  BY Pair
<1>7. PICK m \in Seq(Byte) : m = <<c, d>> /\ Len(m) = 2 /\ m[1] = c /\ m[2] = d
  BY Pair
<1>8. PICK e \in Seq(Byte) : e = <<cmd, seq>> /\ Len(e) = 2 /\ e[1] = cmd /\ e[2] = seq
  BY Pair
<1>9. h = k \o l \o m \o e
  BY <1>4, <1>5, <1>6, <1>7, <1>8, Zenon
<1>10. /\ Len(k) = 1 /\ k[1] = Fk /\ Len(l) = 2 /\ l[1] = a /\ l[2] = b
       /\ Len(m) = 2 /\ m[1] = c /\ m[2] = d /\ Len(e) = 2 /\ e[1] = cmd
  BY <1>5, <1>6, <1>7, <1>8, Zenon
<1>11. PICK u \in Seq(Byte) : /\ u = k \o l /\ Len(u) = 3
                              /\ u[1] = Fk /\ u[2] = a /\ u[3] = b
  <2>1. /\ k \o l \in Seq(Byte) /\ Len(k \o l) = 3
        /\ (k \o l)[1] = k[1] /\ (k \o l)[2] = l[1] /\ (k \o l)[3] = l[2]
    <3>1. /\ k \o l \in Seq(Byte) /\ Len(k \o l) = Len(k) + Len(l)
          /\ \A i \in 1 .. Len(k) : (k \o l)[i] = k[i]
          /\ \A i \in 1 .. Len(l) : (k \o l)[Len(k) + i] = l[i]
      BY Joined
    <3>2. Len(k) = 1 /\ Len(l) = 2
      BY <1>10
    <3>3. \A i \in 1 .. 1 : (k \o l)[i] = k[i]
      BY <3>1, <3>2
    <3>4. \A i \in 1 .. 2 : (k \o l)[1 + i] = l[i]
      BY <3>1, <3>2
    <3>5. (k \o l)[1 + 1] = l[1] /\ (k \o l)[1 + 2] = l[2]
      <4>1. 1 \in 1 .. 2 /\ 2 \in 1 .. 2
        OBVIOUS
      <4> QED BY <3>4, <4>1, Zenon
    <3>6. 1 + 1 = 2 /\ 1 + 2 = 3
      OBVIOUS
    <3>7. (k \o l)[2] = l[1] /\ (k \o l)[3] = l[2]
      BY <3>5, <3>6
    <3> QED BY <3>1, <3>2, <3>3, <3>7
  <2> QED BY <1>10, <2>1, Zenon
<1>12. PICK v \in Seq(Byte) : /\ v = u \o m /\ Len(v) = 5 /\ v[1] = Fk
                              /\ v[2] = a /\ v[3] = b /\ v[4] = c /\ v[5] = d
  <2>1. /\ u \o m \in Seq(Byte) /\ Len(u \o m) = 5
        /\ (u \o m)[1] = u[1] /\ (u \o m)[2] = u[2] /\ (u \o m)[3] = u[3]
        /\ (u \o m)[4] = m[1] /\ (u \o m)[5] = m[2]
    <3>1. /\ u \o m \in Seq(Byte) /\ Len(u \o m) = Len(u) + Len(m)
          /\ \A i \in 1 .. Len(u) : (u \o m)[i] = u[i]
          /\ \A i \in 1 .. Len(m) : (u \o m)[Len(u) + i] = m[i]
      BY Joined
    <3>2. Len(u) = 3 /\ Len(m) = 2
      BY <1>10, <1>11
    <3>3. \A i \in 1 .. 3 : (u \o m)[i] = u[i]
      BY <3>1, <3>2
    <3>4. \A i \in 1 .. 2 : (u \o m)[3 + i] = m[i]
      BY <3>1, <3>2
    <3>5. (u \o m)[3 + 1] = m[1] /\ (u \o m)[3 + 2] = m[2]
      <4>1. 1 \in 1 .. 2 /\ 2 \in 1 .. 2
        OBVIOUS
      <4> QED BY <3>4, <4>1, Zenon
    <3>6. 3 + 1 = 4 /\ 3 + 2 = 5
      OBVIOUS
    <3>7. (u \o m)[4] = m[1] /\ (u \o m)[5] = m[2]
      BY <3>5, <3>6
    <3> QED BY <3>1, <3>2, <3>3, <3>7
  <2> QED BY <1>10, <1>11, <2>1, Zenon
<1>13. h = v \o e
  BY <1>9, <1>11, <1>12, Zenon
<1>14. /\ h \in Seq(Byte) /\ Len(h) = 7 /\ h[1] = Fk /\ h[2] = a /\ h[3] = b
       /\ h[4] = c /\ h[5] = d /\ h[6] = cmd
  <2>1. /\ v \o e \in Seq(Byte) /\ Len(v \o e) = 7
        /\ (v \o e)[1] = v[1] /\ (v \o e)[2] = v[2] /\ (v \o e)[3] = v[3]
        /\ (v \o e)[4] = v[4] /\ (v \o e)[5] = v[5] /\ (v \o e)[6] = e[1]
    <3>1. /\ v \o e \in Seq(Byte) /\ Len(v \o e) = Len(v) + Len(e)
          /\ \A i \in 1 .. Len(v) : (v \o e)[i] = v[i]
          /\ \A i \in 1 .. Len(e) : (v \o e)[Len(v) + i] = e[i]
      BY Joined
    <3>2. Len(v) = 5 /\ Len(e) = 2
      BY <1>10, <1>12
    <3>3. \A i \in 1 .. 5 : (v \o e)[i] = v[i]
      BY <3>1, <3>2
    <3>4. \A i \in 1 .. 2 : (v \o e)[5 + i] = e[i]
      BY <3>1, <3>2
    <3>5. (v \o e)[5 + 1] = e[1] /\ (v \o e)[5 + 2] = e[2]
      <4>1. 1 \in 1 .. 2 /\ 2 \in 1 .. 2
        OBVIOUS
      <4> QED BY <3>4, <4>1, Zenon
    <3>6. 5 + 1 = 6 /\ 5 + 2 = 7
      OBVIOUS
    <3>7. (v \o e)[6] = e[1] /\ (v \o e)[7] = e[2]
      BY <3>5, <3>6
    <3> QED BY <3>1, <3>2, <3>3, <3>7
  <2> QED BY <1>10, <1>12, <1>13, <2>1, Zenon
<1>15. Number(SubSeq(h, 2, 3)) = h[2] + ByteBase * h[3]
  <2>1. 2 \in Nat \ {0} /\ 2 + 1 = 3 /\ 2 + 1 <= Len(h)
    BY <1>14
  <2>2. Number(SubSeq(h, 2, 2 + 1)) = h[2] + ByteBase * h[2 + 1]
    BY <1>14, <2>1, PartPair
  <2> QED BY <2>1, <2>2
<1>16. Number(SubSeq(h, 4, 5)) = h[4] + ByteBase * h[5]
  <2>1. 4 \in Nat \ {0} /\ 4 + 1 = 5 /\ 4 + 1 <= Len(h)
    BY <1>14
  <2>2. Number(SubSeq(h, 4, 4 + 1)) = h[4] + ByteBase * h[4 + 1]
    BY <1>14, <2>1, PartPair
  <2> QED BY <2>1, <2>2
<1> QED BY <1>2, <1>3, <1>15, <1>16, <1>14, Zenon DEF HeaderSize

LEMMA SizeParts ==
  ASSUME NEW n \in Nat, n < Word * ByteBase * Half
  PROVE  /\ n \div Word \in 0 .. Word - 1 /\ (n \div Word) \div ByteBase < Half
         /\ (n \div Word) \div ByteBase \in Nat
<1>1. /\ Word \in Nat \ {0} /\ n % Word \in 0 .. Word - 1 /\ n \div Word \in Nat
      /\ (n % Word) + Word * (n \div Word) = n
  BY PartsOfWords
<1>2. ByteBase \in Nat \ {0} /\ Half \in Nat \ {0} /\ Half <= ByteBase
  BY HalfOfByte, ByteBaseAssumption
<1>3. \A k \in Nat : k >= ByteBase * Half => Word * k >= Word * ByteBase * Half
  <2>1. \A k, m \in Nat : k >= m => Word * k >= Word * m
    BY <1>1
  <2>2. ByteBase * Half \in Nat /\ Word * (ByteBase * Half) = Word * ByteBase * Half
    BY <1>1, <1>2
  <2> QED BY <2>1, <2>2
<1>4. n \div Word < ByteBase * Half
  <2> DEFINE k == n \div Word
             r == n % Word
  <2>1. k \in Nat /\ r \in Nat /\ r + Word * k = n
    BY <1>1
  <2> HIDE DEF k, r
  <2>2. Word * k \in Nat /\ Word * ByteBase * Half \in Nat /\ ByteBase * Half \in Nat
    BY <1>1, <1>2, <2>1
  <2>3. k < ByteBase * Half
    BY <1>3, <2>1, <2>2
  <2> QED BY <2>3 DEF k
<1>5. ByteBase * Half <= Word
  BY <1>2 DEF Word
<1>6. n \div Word \in 0 .. Word - 1
  <2>1. ByteBase * Half \in Nat
    BY <1>2
  <2> QED BY <1>1, <1>4, <1>5, <2>1
<1>7. PICK k \in Nat : k = n \div Word
  BY <1>1
<1>8. k \div ByteBase \in Nat /\ (k % ByteBase) + ByteBase * (k \div ByteBase) = k
      /\ k % ByteBase \in Byte
  BY Parts
<1>9. k \div ByteBase < Half
  <2>1. PICK m \in Nat, r \in Nat : m = k \div ByteBase /\ r + ByteBase * m = k
    BY <1>8, ByteBaseAssumption DEF Byte
  <2>2. m >= Half => ByteBase * m >= ByteBase * Half
    BY <1>2, <2>1
  <2>3. ByteBase * m \in Nat /\ ByteBase * Half \in Nat
    BY <1>2, <2>1
  <2>4. m < Half
    BY <1>2, <1>4, <1>7, <2>1, <2>2, <2>3
  <2> QED BY <2>1, <2>4
<1> QED BY <1>6, <1>7, <1>8, <1>9

\* p is a packet of frame f: its header tells where it ends, and what the
\* receiver does to its payload gives the frame.
Framed(p, f) ==
  LET h == SubSeq(p, 1, HeaderSize)
      b == SubSeq(p, HeaderSize + 1, Len(p))
  IN  /\ p \in Seq(Byte) /\ Len(p) >= HeaderSize
      /\ p[1] = Fk /\ PayloadSize(h) = Len(p) - HeaderSize
      /\ mode = "outer" => Mask(h) \in Masks /\ CheckingMaskOff(h, b)
      /\ mode # "sdk" => /\ Command(h) = f.cmd
                         /\ DecryptMessage(f.cmd, b, IsCompressed(h)) = f.payload
                         /\ f.payload # NULL
      /\ mode = "sdk" => /\ ~IsNegative(h) /\ h[6] = f.cmd /\ b = f.payload

LEMMA FramedIs ==
  ASSUME NEW h \in Seq(Byte), NEW b \in Seq(Byte), Len(h) = HeaderSize, NEW f,
         h[1] = Fk, PayloadSize(h) = Len(b),
         mode = "outer" => Mask(h) \in Masks /\ CheckingMaskOff(h, b),
         mode # "sdk" => /\ Command(h) = f.cmd
                         /\ DecryptMessage(f.cmd, b, IsCompressed(h)) = f.payload
                         /\ f.payload # NULL,
         mode = "sdk" => ~IsNegative(h) /\ h[6] = f.cmd /\ b = f.payload
  PROVE  Framed(h \o b, f)
<1> DEFINE p == h \o b
<1>1. /\ p \in Seq(Byte) /\ Len(p) = HeaderSize + Len(b)
      /\ SubSeq(p, 1, HeaderSize) = h /\ p[1] = h[1]
      /\ SubSeq(p, HeaderSize + 1, HeaderSize + Len(b)) = b
  <2>1. /\ p \in Seq(Byte) /\ Len(p) = Len(h) + Len(b)
        /\ SubSeq(p, Len(h) + 1, Len(h) + Len(b)) = b
        /\ SubSeq(p, 1, Len(h)) = h
        /\ \A i \in 1 .. Len(h) : p[i] = h[i]
    BY Joined
  <2>2. 1 \in 1 .. Len(h)
    BY DEF HeaderSize
  <2> QED BY <2>1, <2>2, Zenon
<1> HIDE DEF p
<1>2. SubSeq(p, HeaderSize + 1, Len(p)) = b
  BY <1>1
<1>3. Len(p) >= HeaderSize /\ Len(p) - HeaderSize = Len(b)
  <2>1. Len(b) \in Nat /\ HeaderSize \in Nat
    BY DEF HeaderSize
  <2> QED BY <1>1, <2>1
<1> QED BY <1>1, <1>2, <1>3, Zenon DEF Framed, p

LEMMA FrameOf ==
  ASSUME StreamTypes, NEW i \in 1 .. Len(frames)
  PROVE  /\ frames[i].cmd \in 0 .. Half - 1 /\ frames[i].payload \in Seq(Byte)
         /\ Len(frames[i].payload) < Word * ByteBase * Half
         /\ mode = "outer" => Len(frames[i].payload) < Word
<1>1. /\ frames \in Streams /\ mode \in Modes
      /\ frames \in Seq([cmd : 0 .. Half - 1, payload : Seq(Byte)])
  BY StreamsAssumption DEF StreamTypes
<1>2. frames[i] \in [cmd : 0 .. Half - 1, payload : Seq(Byte)]
  <2>1. \A S, s : s \in Seq(S) => \A j \in 1 .. Len(s) : s[j] \in S
    OBVIOUS
  <2> QED BY <1>1, <2>1, Zenon
<1>3. i \in DOMAIN frames
  BY <1>1
<1>4. Len(frames[i].payload) < IF "outer" \in Modes THEN Word ELSE Word * ByteBase * Half
  BY <1>1, <1>3, StreamsAssumption
<1>5. Word <= Word * ByteBase * Half
  <2>1. Word \in Nat /\ ByteBase \in Nat \ {0} /\ Half \in Nat \ {0}
    BY PartsOfWords, HalfOfByte, ByteBaseAssumption
  <2>2. Word * ByteBase \in Nat /\ Word <= Word * ByteBase
    BY <2>1
  <2>3. \A n \in Nat : n <= n * Half
    BY <2>1
  <2>4. Word * ByteBase <= Word * ByteBase * Half
    BY <2>2, <2>3
  <2>5. Word * ByteBase * Half \in Nat
    BY <2>1, <2>2
  <2> QED BY <2>1, <2>2, <2>4, <2>5
<1>6. Len(frames[i].payload) \in Nat /\ Word \in Nat /\ Word * ByteBase * Half \in Nat
  <2>1. Word \in Nat /\ ByteBase \in Nat \ {0} /\ Half \in Nat \ {0}
    BY PartsOfWords, HalfOfByte, ByteBaseAssumption
  <2>2. Word * ByteBase \in Nat
    BY <2>1
  <2>3. Word * ByteBase * Half \in Nat
    BY <2>1, <2>2
  <2>4. frames[i].payload \in Seq(Byte)
    BY <1>2
  <2> QED BY <2>1, <2>3, <2>4
<1> QED BY <1>1, <1>2, <1>4, <1>5, <1>6

LEMMA PacketIs ==
  ASSUME StreamTypes, NEW i \in 1 .. Len(frames), NEW p \in PacketsOf(frames[i])
  PROVE  Framed(p, frames[i])
<1> DEFINE f == frames[i]
<1>0. /\ f.cmd \in 0 .. Half - 1 /\ f.payload \in Seq(Byte)
      /\ Len(f.payload) < Word * ByteBase * Half
      /\ mode = "outer" => Len(f.payload) < Word
  BY FrameOf
<1>1. PICK seq \in SequenceNos : p \in Packets(f, seq)
  BY DEF PacketsOf
<1>2. seq \in Byte
  BY SocketAssumption
<1>3. mode \in {"inner", "outer", "sdk"}
  BY SocketAssumption DEF StreamTypes
<1> HIDE DEF f
<1>4. Len(f.payload) \in Nat
  BY <1>0
<1>5. CASE mode = "sdk"
  <2> DEFINE n == Len(f.payload)
  <2>1. p = Header(n, n \div Word, f.cmd, seq) \o f.payload
    BY <1>1, <1>5 DEF Packets, SdkPacket
  <2>2. PICK h : h = Header(n, n \div Word, f.cmd, seq)
    OBVIOUS
  <2>3. /\ n \in Nat /\ n \div Word \in 0 .. Word - 1
        /\ (n \div Word) \div ByteBase < Half /\ (n \div Word) \div ByteBase \in Nat
    BY <1>0, <1>4, SizeParts
  <2>4. f.cmd \in Byte
    BY <1>0, CommandParts
  <2>5. /\ h \in Seq(Byte) /\ Len(h) = HeaderSize
        /\ h[1] = Fk /\ h[6] = f.cmd /\ h[5] = (n \div Word) \div ByteBase
        /\ Number(SubSeq(h, 2, 3)) = n % Word
        /\ Number(SubSeq(h, 4, 5)) = n \div Word
    <3>1. PICK size \in Nat, mask \in 0 .. Word - 1, cmd \in Byte :
            size = n /\ mask = n \div Word /\ cmd = f.cmd
      BY <2>3, <2>4
    <3>2. h = Header(size, mask, cmd, seq)
      BY <2>2, <3>1
    <3> HIDE DEF n
    <3>3. /\ h \in Seq(Byte) /\ Len(h) = HeaderSize
          /\ h[1] = Fk /\ h[6] = cmd
          /\ Number(SubSeq(h, 2, 3)) = size % Word
          /\ Number(SubSeq(h, 4, 5)) = mask
      BY <1>2, <3>2, HeaderParts
    <3>4. h[5] = mask \div ByteBase
      BY <1>2, <3>2, HeaderParts
    <3> QED BY <3>1, <3>3, <3>4
  <2>6. PayloadSize(h) = n
    BY <1>5, <2>3, <2>5, PartsOfWords DEF PayloadSize
  <2>7. ~IsNegative(h)
    <3>1. Half \in Nat
      BY HalfOfByte
    <3> QED BY <2>3, <2>5, <3>1 DEF IsNegative
  <2>8. Framed(h \o f.payload, f)
    BY <1>0, <1>5, <2>5, <2>6, <2>7, FramedIs
  <2> QED BY <2>1, <2>2, <2>8 DEF f
<1>6. CASE mode \in {"inner", "outer"}
  <2> DEFINE e == EncryptMessage(f.cmd, f.payload)
             n == Len(e.payload)
             cmd == f.cmd + (IF e.compressed THEN Half ELSE 0)
  <2>1. /\ e.payload \in Seq(Byte) /\ Len(e.payload) <= Len(f.payload)
        /\ e.compressed \in BOOLEAN
        /\ DecryptMessage(f.cmd, e.payload, e.compressed) = f.payload
        /\ f.payload # NULL
    BY <1>0, Opened
  <2>2. n \in Nat /\ n < Word * ByteBase * Half /\ (mode = "outer" => n < Word)
    <3>1. n \in Nat /\ n <= Len(f.payload)
      BY <2>1
    <3>2. Word * ByteBase * Half \in Nat /\ Word \in Nat
      <4>1. Word \in Nat /\ ByteBase \in Nat \ {0} /\ Half \in Nat \ {0}
        BY PartsOfWords, HalfOfByte, ByteBaseAssumption
      <4>2. Word * ByteBase \in Nat
        BY <4>1
      <4> QED BY <4>1, <4>2
    <3> QED BY <1>0, <1>4, <3>1, <3>2
  <2>3. cmd \in Byte /\ cmd % Half = f.cmd /\ (cmd \div Half = 1) = e.compressed
    <3>1. /\ f.cmd \in Byte /\ f.cmd + Half \in Byte
          /\ f.cmd % Half = f.cmd /\ f.cmd \div Half = 0
          /\ (f.cmd + Half) % Half = f.cmd /\ (f.cmd + Half) \div Half = 1
      BY <1>0, CommandParts
    <3>2. CASE e.compressed = TRUE
      BY <3>1, <3>2
    <3>3. CASE e.compressed = FALSE
      <4>1. cmd = f.cmd
        BY <1>0, <3>3, HalfOfByte
      <4>2. f.cmd \div Half = 0 => ~(f.cmd \div Half = 1)
        OBVIOUS
      <4> QED BY <3>1, <3>3, <4>1, <4>2
    <3> QED BY <2>1, <3>2, <3>3
  <2>4. PICK m \in 0 .. Word - 1 :
          /\ p = Header(n, m, cmd, seq) \o e.payload
          /\ mode = "inner" => m = n \div Word
          /\ mode = "outer" =>
               m \in Masks /\ CheckingMaskOff(Header(n, m, cmd, seq), e.payload)
    <3>1. p \in StagePackets(f, seq)
      BY <1>1, <1>6, SMTT(20) DEF Packets
    <3>2. CASE mode = "inner"
      <4>1. p = Header(n, n \div Word, cmd, seq) \o e.payload
        BY <3>1, <3>2 DEF StagePackets
      <4>2. n \div Word \in 0 .. Word - 1
        BY <2>2, SizeParts, SMTT(20)
      <4> QED BY <3>2, <4>1, <4>2, Zenon
    <3>3. CASE mode = "outer"
      <4>1. PICK m \in Masks :
              /\ p = Header(n, m, cmd, seq) \o e.payload
              /\ CheckingMaskOff(Header(n, m, cmd, seq), e.payload)
        BY <3>1, <3>3 DEF StagePackets
      <4>2. m \in 0 .. Word - 1
        <5>1. Word \in Nat
          BY PartsOfWords
        <5> QED BY <5>1 DEF Masks
      <4> QED BY <3>3, <4>1, <4>2
    <3> QED BY <1>6, <3>2, <3>3, Zenon
  <2>5. PICK h : h = Header(n, m, cmd, seq)
    OBVIOUS
  <2> HIDE DEF e, n, cmd
  <2>6. /\ h \in Seq(Byte) /\ Len(h) = HeaderSize /\ h[1] = Fk /\ h[6] = cmd
        /\ Number(SubSeq(h, 2, 3)) = n % Word /\ Number(SubSeq(h, 4, 5)) = m
    BY <1>2, <2>2, <2>3, <2>5, HeaderParts
  <2>7. PayloadSize(h) = n
    <3>1. CASE mode = "inner"
      <4>1. PayloadSize(h) = (n % Word) + Word * m /\ m = n \div Word
        BY <2>4, <2>6, <3>1 DEF PayloadSize
      <4> QED BY <2>2, <4>1, PartsOfWords
    <3>2. CASE mode = "outer"
      <4>1. PayloadSize(h) = n % Word
        BY <2>6, <3>2 DEF PayloadSize
      <4> QED BY <2>2, <3>2, <4>1, PartsOfWords
    <3> QED BY <1>6, <3>1, <3>2
  <2>8. mode = "outer" => Mask(h) \in Masks /\ CheckingMaskOff(h, e.payload)
    BY <2>4, <2>5, <2>6 DEF Mask
  <2>9. Command(h) = f.cmd /\ IsCompressed(h) = e.compressed
    BY <2>3, <2>6 DEF Command, IsCompressed
  <2>10. DecryptMessage(f.cmd, e.payload, IsCompressed(h)) = f.payload /\ f.payload # NULL
    BY <2>1, <2>9
  <2>11. Framed(h \o e.payload, f)
    <3>1. PICK b \in Seq(Byte) : b = e.payload /\ Len(b) = n
      BY <2>1 DEF n
    <3>2. Framed(h \o b, f)
      BY <1>6, <2>6, <2>7, <2>8, <2>9, <2>10, <3>1, FramedIs
    <3> QED BY <3>1, <3>2
  <2> QED BY <2>4, <2>5, <2>11 DEF f
<1> QED BY <1>3, <1>5, <1>6

(* The sum a mask makes right.                                             *)

LEMMA OctetBound ==
  ASSUME NEW b \in Seq(Byte), NEW i \in 1 .. Len(b)
  PROVE  /\ Octet(b, i) \in Nat /\ Octet(b, i) <= Word - ByteBase
         /\ Octet(b, i) = ByteBase * b[i] \/ Octet(b, i) = b[i]
<1>1. b[i] \in Nat /\ b[i] <= ByteBase - 1 /\ ByteBase \in Nat /\ ByteBase >= 2
  BY ByteBaseAssumption DEF Byte
<1>2. PICK x \in Nat : x = b[i] /\ x <= ByteBase - 1
  BY <1>1
<1>3. ByteBase * x \in Nat /\ ByteBase * x <= ByteBase * (ByteBase - 1)
  BY <1>1, <1>2
<1>4. ByteBase * (ByteBase - 1) = Word - ByteBase /\ Word \in Nat
  BY <1>1 DEF Word
<1>5. ByteBase - 1 <= ByteBase * (ByteBase - 1)
  BY <1>1
<1>6. x <= Word - ByteBase /\ ByteBase * x <= Word - ByteBase
  BY <1>1, <1>2, <1>3, <1>4, <1>5
<1>7. Octet(b, i) = ByteBase * x \/ Octet(b, i) = x
  BY <1>2 DEF Octet
<1> QED BY <1>2, <1>3, <1>6, <1>7

LEMMA SummedBy ==
  ASSUME NEW b \in Seq(Byte), NEW acc \in Nat
  PROVE  \E s \in [0 .. Len(b) -> Nat] :
           /\ s[0] = acc /\ Summed(b, acc) = s[Len(b)]
           /\ \A i \in 1 .. Len(b) : s[i] = s[i - 1] + Octet(b, i)
<1> DEFINE n == Len(b)
           F == [p \in (1 .. n) \X Nat |-> p[2] + Octet(b, p[1])]
           G(s) == s = [i \in 0 .. n |-> IF i = 0 THEN acc ELSE s[i - 1] + Octet(b, i)]
           t == CHOOSE s : G(s)
<1>0. n \in Nat /\ \A i \in 1 .. n : Octet(b, i) \in Nat
  BY OctetBound
<1>12. Summed(b, acc) = t[n]
  BY DEF Summed
<1> HIDE DEF n
<1>2. \A p \in (1 .. n) \X Nat : p[2] + Octet(b, p[1]) \in Nat
  BY <1>0
<1>3. F \in Steps(n, Nat)
  BY <1>2 DEF Steps
<1>4. \A i \in 1 .. n, y \in Nat : F[<<i, y>>] = y + Octet(b, i)
  OBVIOUS
<1> HIDE DEF F
<1>5. PICK s : Course(s, n, Nat, acc, F)
  BY <1>0, <1>3, Recursion
<1>6. \A i \in 0 .. n : i # 0 => s[i - 1] \in Nat /\ i \in 1 .. n
  BY <1>0, <1>5 DEF Course
<1>7. G(s)
  BY <1>4, <1>5, <1>6 DEF Course
<1>8. G(t)
  BY <1>7
<1> HIDE DEF t
<1>9. t[0] = acc /\ DOMAIN t = 0 .. n /\ \A i \in 1 .. n : t[i] = t[i - 1] + Octet(b, i)
  BY <1>0, <1>8
<1>10. \A i \in 0 .. n : t[i] \in Nat
  <2> DEFINE P == {i \in 0 .. n : t[i] \in Nat}
  <2>1. 0 \in P
    BY <1>0, <1>9
  <2>2. \A i \in 1 .. n : i - 1 \in P => i \in P
    BY <1>0, <1>9
  <2> HIDE DEF P
  <2>3. 0 .. n \subseteq P
    BY <1>0, <2>1, <2>2, Climbing
  <2> QED BY <2>3 DEF P
<1>11. t \in [0 .. n -> Nat]
  <2>1. t = [i \in 0 .. n |-> t[i]]
    BY <1>8
  <2> QED BY <1>10, <2>1
<1> QED BY <1>9, <1>11, <1>12 DEF n

LEMMA SumBound ==
  ASSUME NEW b \in Seq(Byte), NEW acc \in Nat
  PROVE  /\ Summed(b, acc) \in Nat
         /\ Summed(b, acc) <= acc + Len(b) * (Word - ByteBase)
<1>1. PICK s \in [0 .. Len(b) -> Nat] :
        /\ s[0] = acc /\ Summed(b, acc) = s[Len(b)]
        /\ \A i \in 1 .. Len(b) : s[i] = s[i - 1] + Octet(b, i)
  BY SummedBy
<1>2. \A i \in 1 .. Len(b) : Octet(b, i) \in Nat /\ Octet(b, i) <= Word - ByteBase
  BY OctetBound
<1>3. Len(b) \in Nat /\ Word \in Nat /\ ByteBase \in Nat
  BY PartsOfWords, ByteBaseAssumption
<1> DEFINE n == Len(b)
           w == Word - ByteBase
           P == {i \in 0 .. n : s[i] <= acc + i * w}
<1>4. n \in Nat /\ w \in Int
  BY <1>3
<1>5. \A i \in 1 .. n : Octet(b, i) \in Nat /\ Octet(b, i) <= w
  BY <1>2
<1>6. n \in 0 .. n /\ s \in [0 .. n -> Nat] /\ \A i \in 1 .. n : s[i] = s[i - 1] + Octet(b, i)
  BY <1>1, <1>3
<1> HIDE DEF n, w
<1>7. 0 \in P
  BY <1>1, <1>4
<1>8. \A i \in 1 .. n : i - 1 \in P => i \in P
  <2> SUFFICES ASSUME NEW i \in 1 .. n, i - 1 \in P PROVE s[i] <= acc + i * w
    OBVIOUS
  <2>1. s[i - 1] <= acc + (i - 1) * w /\ s[i - 1] \in Nat /\ s[i] \in Nat
    BY <1>4, <1>6
  <2>2. (i - 1) * w + w = i * w /\ (i - 1) * w \in Int /\ i * w \in Int
    BY <1>4
  <2>3. s[i] = s[i - 1] + Octet(b, i) /\ Octet(b, i) \in Nat /\ Octet(b, i) <= w
    BY <1>5, <1>6
  <2> QED BY <1>4, <2>1, <2>2, <2>3
<1> HIDE DEF P
<1>9. 0 .. n \subseteq P
  BY <1>4, <1>7, <1>8, Climbing
<1>10. s[n] <= acc + n * w /\ s[n] \in Nat
  BY <1>6, <1>9 DEF P
<1> QED BY <1>1, <1>10 DEF n, w

LEMMA SumFrom ==
  ASSUME NEW b \in Seq(Byte), NEW acc \in Nat
  PROVE  Summed(b, acc) = acc + Summed(b, 0)
<1>1. PICK s \in [0 .. Len(b) -> Nat] :
        /\ s[0] = acc /\ Summed(b, acc) = s[Len(b)]
        /\ \A i \in 1 .. Len(b) : s[i] = s[i - 1] + Octet(b, i)
  BY SummedBy, Zenon
<1>2. PICK t \in [0 .. Len(b) -> Nat] :
        /\ t[0] = 0 /\ Summed(b, 0) = t[Len(b)]
        /\ \A i \in 1 .. Len(b) : t[i] = t[i - 1] + Octet(b, i)
  <2>1. 0 \in Nat
    OBVIOUS
  <2> QED BY <2>1, SummedBy, Zenon
<1>3. Len(b) \in Nat /\ Len(b) \in 0 .. Len(b)
      /\ \A i \in 1 .. Len(b) : Octet(b, i) \in Nat
  BY OctetBound
<1> DEFINE P == {i \in 0 .. Len(b) : s[i] = acc + t[i]}
<1>4. 0 \in P
  BY <1>1, <1>2, <1>3
<1>5. \A i \in 1 .. Len(b) : i - 1 \in P => i \in P
  <2> SUFFICES ASSUME NEW i \in 1 .. Len(b), i - 1 \in P PROVE s[i] = acc + t[i]
    OBVIOUS
  <2>1. s[i - 1] = acc + t[i - 1] /\ t[i - 1] \in Nat
    BY <1>3
  <2>2. s[i] = s[i - 1] + Octet(b, i) /\ t[i] = t[i - 1] + Octet(b, i)
        /\ Octet(b, i) \in Nat
    BY <1>1, <1>2, <1>3
  <2> QED BY <2>1, <2>2
<1> HIDE DEF P
<1>6. 0 .. Len(b) \subseteq P
  BY <1>3, <1>4, <1>5, Climbing
<1>7. s[Len(b)] = acc + t[Len(b)]
  BY <1>3, <1>6 DEF P
<1> QED BY <1>1, <1>2, <1>7

LEMMA SumChanged ==
  ASSUME NEW b \in Seq(Byte), NEW c \in Seq(Byte), Len(c) = Len(b),
         NEW j \in 1 .. Len(b), \A i \in 1 .. Len(b) : i # j => c[i] = b[i]
  PROVE  Summed(c, 0) - Summed(b, 0) = Octet(c, j) - Octet(b, j)
<1>1. PICK s \in [0 .. Len(b) -> Nat] :
        /\ s[0] = 0 /\ Summed(b, 0) = s[Len(b)]
        /\ \A i \in 1 .. Len(b) : s[i] = s[i - 1] + Octet(b, i)
  <2>1. 0 \in Nat
    OBVIOUS
  <2> QED BY <2>1, SummedBy
<1>2. PICK t \in [0 .. Len(b) -> Nat] :
        /\ t[0] = 0 /\ Summed(c, 0) = t[Len(b)]
        /\ \A i \in 1 .. Len(b) : t[i] = t[i - 1] + Octet(c, i)
  <2>1. 0 \in Nat
    OBVIOUS
  <2>2. \E t \in [0 .. Len(c) -> Nat] :
          /\ t[0] = 0 /\ Summed(c, 0) = t[Len(c)]
          /\ \A i \in 1 .. Len(c) : t[i] = t[i - 1] + Octet(c, i)
    BY <2>1, SummedBy
  <2> QED BY <2>2, Zenon
<1>3. Len(b) \in Nat /\ Len(b) \in 0 .. Len(b)
      /\ \A i \in 1 .. Len(b) : Octet(b, i) \in Nat /\ Octet(c, i) \in Nat
  BY OctetBound
<1>4. \A i \in 1 .. Len(b) : i # j => Octet(c, i) = Octet(b, i)
  BY DEF Octet
<1> DEFINE D == Octet(c, j) - Octet(b, j)
           P == {i \in 0 .. Len(b) : t[i] = s[i] + (IF i < j THEN 0 ELSE D)}
<1>5. D \in Int
  BY <1>3
<1>6. Octet(c, j) = Octet(b, j) + D
  BY <1>3
<1> HIDE DEF D
<1>7. 0 \in P
  BY <1>1, <1>2, <1>3
<1>8. \A i \in 1 .. Len(b) : i - 1 \in P => i \in P
  <2> SUFFICES ASSUME NEW i \in 1 .. Len(b), i - 1 \in P PROVE i \in P
    OBVIOUS
  <2>1. /\ s[i] = s[i - 1] + Octet(b, i) /\ t[i] = t[i - 1] + Octet(c, i)
        /\ s[i - 1] \in Nat /\ Octet(b, i) \in Nat /\ Octet(c, i) \in Nat
    BY <1>1, <1>2, <1>3
  <2>2. t[i - 1] = s[i - 1] + (IF i - 1 < j THEN 0 ELSE D)
    OBVIOUS
  <2>3. CASE i < j
    BY <1>4, <2>1, <2>2, <2>3
  <2>4. CASE i = j
    BY <1>5, <1>6, <2>1, <2>2, <2>4
  <2>5. CASE i > j
    BY <1>4, <1>5, <2>1, <2>2, <2>5
  <2> QED BY <2>3, <2>4, <2>5
<1> HIDE DEF P
<1>9. 0 .. Len(b) \subseteq P
  BY <1>3, <1>7, <1>8, Climbing
<1>10. t[Len(b)] = s[Len(b)] + D
  BY <1>3, <1>9 DEF P
<1>11. s[Len(b)] \in Nat
  BY <1>3
<1> QED BY <1>1, <1>2, <1>5, <1>10, <1>11 DEF D

\* What is folded twice is less than a word, and changes by multiples of Word - 1.
LEMMA FoldedTwice ==
  ASSUME NEW y \in Nat, y < Word * Word
  PROVE  /\ Folded(Folded(y)) \in 0 .. Word - 1
         /\ \E k \in Int : Folded(Folded(y)) = y + k * (Word - 1)
<1>0. Word \in Nat /\ Word >= 4
  <2>1. ByteBase * ByteBase >= 2 * ByteBase /\ ByteBase * ByteBase \in Nat
    BY ByteBaseAssumption
  <2> QED BY <2>1, ByteBaseAssumption DEF Word
<1>1. PICK d \in Nat, r \in 0 .. Word - 1 :
        r + Word * d = y /\ Folded(y) = d + r
  BY PartsOfWords, Zenon DEF Folded
<1>2. d < Word
  <2>1. d >= Word => Word * d >= Word * Word
    BY <1>0
  <2>2. Word * d \in Nat /\ Word * Word \in Nat
    BY <1>0
  <2> QED BY <1>0, <1>1, <2>1, <2>2
<1>3. PICK z \in Nat : z = Folded(y) /\ z = d + r /\ z <= Word + Word - 2
  BY <1>0, <1>1, <1>2
<1>4. PICK e \in Nat, t \in 0 .. Word - 1 :
        t + Word * e = z /\ Folded(z) = e + t
  BY PartsOfWords, Zenon DEF Folded
<1>5. e <= 1
  <2>1. e >= 2 => Word * e >= Word * 2
    BY <1>0
  <2>2. Word * e \in Nat /\ Word * 2 = Word + Word
    BY <1>0
  <2> QED BY <1>0, <1>3, <1>4, <2>1, <2>2
<1>6. Folded(z) \in 0 .. Word - 1
  <2>1. CASE e = 0
    BY <1>0, <1>4, <2>1
  <2>2. CASE e = 1
    <3>1. Word * e = Word
      BY <1>0, <2>2
    <3> QED BY <1>0, <1>3, <1>4, <2>2, <3>1
  <2> QED BY <1>5, <2>1, <2>2
<1>7. Folded(z) = y + (0 - d - e) * (Word - 1)
  <2>1. (0 - d - e) * (Word - 1) = d + e - Word * d - Word * e
    BY <1>0
  <2>2. Word * d \in Nat /\ Word * e \in Nat
    BY <1>0
  <2> QED BY <1>0, <1>1, <1>3, <1>4, <2>1, <2>2
<1>8. 0 - d - e \in Int
  OBVIOUS
<1> QED BY <1>3, <1>6, <1>7, <1>8

LEMMA OctetDiffers ==
  ASSUME NEW b \in Seq(Byte), NEW c \in Seq(Byte), Len(c) = Len(b),
         NEW j \in 1 .. Len(b), c[j] # b[j]
  PROVE  /\ Octet(c, j) - Octet(b, j) # 0
         /\ Octet(c, j) - Octet(b, j) \in (2 - Word) .. (Word - 2)
<1>1. /\ Octet(b, j) \in Nat /\ Octet(b, j) <= Word - ByteBase
      /\ Octet(c, j) \in Nat /\ Octet(c, j) <= Word - ByteBase
  BY OctetBound
<1>2. Word \in Nat /\ ByteBase \in Nat /\ ByteBase >= 2
  BY PartsOfWords, ByteBaseAssumption
<1>3. b[j] \in Nat /\ c[j] \in Nat
  BY ByteBaseAssumption DEF Byte
<1>4. Octet(c, j) # Octet(b, j)
  <2>1. ByteBase * b[j] # ByteBase * c[j]
    <3>1. \A x, y \in Nat : x < y => ByteBase * x < ByteBase * y
      BY <1>2
    <3>2. ByteBase * b[j] \in Nat /\ ByteBase * c[j] \in Nat
      BY <1>2, <1>3
    <3> QED BY <1>3, <3>1, <3>2
  <2> QED BY <2>1 DEF Octet
<1> QED BY <1>1, <1>2, <1>4

\* What the check accepts has a sum that 0xffff divides.
LEMMA CheckedSum ==
  ASSUME NEW h \in Seq(Byte), NEW b \in Seq(Byte), Len(h) = HeaderSize,
         Len(b) < Word, CheckingMaskOff(h, b)
  PROVE  \E k \in Int : Summed(h, 0) + Summed(b, 0) = k * (Word - 1)
<1>0. /\ Word \in Nat /\ Word >= 4 /\ ByteBase \in Nat /\ ByteBase >= 2
      /\ Word * (Word - 1) \in Nat /\ Word * Word \in Nat
  <2>1. ByteBase * ByteBase >= 2 * ByteBase /\ ByteBase * ByteBase \in Nat
    BY ByteBaseAssumption
  <2>2. Word \in Nat /\ Word >= 4
    BY <2>1, ByteBaseAssumption DEF Word
  <2> QED BY <2>2, ByteBaseAssumption
<1>1. Summed(h, 0) \in Nat /\ Summed(h, 0) < Word * Word
  <2>1. Summed(h, 0) \in Nat /\ Summed(h, 0) <= 0 + Len(h) * (Word - ByteBase)
    <3>1. 0 \in Nat
      OBVIOUS
    <3> QED BY <3>1, SumBound
  <2>2. Len(h) = 7
    BY DEF HeaderSize
  <2>3. 7 * (Word - ByteBase) < Word * Word
    <3>1. CASE ByteBase = 2
      BY <3>1 DEF Word
    <3>2. CASE ByteBase >= 3
      <4>1. ByteBase * ByteBase >= 3 * ByteBase /\ 3 * ByteBase >= 9
        BY <3>2, <1>0
      <4>2. Word >= 9
        BY <4>1, <1>0 DEF Word
      <4>3. Word * Word >= 9 * Word
        BY <4>2, <1>0
      <4> QED BY <4>2, <4>3, <1>0
    <3> QED BY <3>1, <3>2, <1>0
  <2> QED BY <1>0, <2>1, <2>2, <2>3
<1> DEFINE a == MaskOff32(h, 0)
           m == MaskOff32(b, a)
<1>2. a \in 0 .. Word - 1 /\ \E k \in Int : a = Summed(h, 0) + k * (Word - 1)
  BY <1>1, FoldedTwice DEF MaskOff32
<1>3. m % Word = Word - 1
  BY DEF CheckingMaskOff
<1>4. m = Folded(Folded(Summed(b, a)))
  BY DEF MaskOff32
<1> HIDE DEF a, m
<1>5. a \in Nat
  BY <1>0, <1>2
<1>6. Summed(b, a) = a + Summed(b, 0) /\ Summed(b, a) \in Nat /\ Summed(b, 0) \in Nat
  <2>1. 0 \in Nat
    OBVIOUS
  <2> QED BY <1>5, <2>1, SumFrom, SumBound
<1>7. Summed(b, a) < Word * Word
  <2>1. Summed(b, a) <= a + Len(b) * (Word - ByteBase)
    BY <1>5, SumBound
  <2>2. PICK n \in Nat : n = Len(b) /\ n <= Word - 1
    BY <1>0
  <2>3. PICK w \in Nat : w = Word - ByteBase /\ w <= Word - 2
    <3>1. ByteBase <= Word
      BY <1>0 DEF Word
    <3> QED BY <1>0, <3>1
  <2>4. n * w <= (Word - 1) * w /\ n * w \in Nat /\ (Word - 1) * w \in Nat
    BY <1>0, <2>2, <2>3
  <2>5. (Word - 1) * w <= (Word - 1) * (Word - 2) /\ (Word - 1) * (Word - 2) \in Nat
    BY <1>0, <2>3
  <2>6. (Word - 1) * (Word - 2) + (Word - 1) < Word * Word
    BY <1>0
  <2> QED BY <1>0, <1>2, <1>6, <2>1, <2>2, <2>3, <2>4, <2>5, <2>6
<1>8. m \in 0 .. Word - 1 /\ \E k \in Int : m = Summed(b, a) + k * (Word - 1)
  BY <1>4, <1>6, <1>7, FoldedTwice
<1>9. m = Word - 1
  <2>1. m \in Nat /\ m < Word
    BY <1>0, <1>8
  <2> QED BY <1>3, <2>1, PartsOfWords
<1>10. PICK k \in Int, l \in Int :
         a = Summed(h, 0) + k * (Word - 1) /\ m = Summed(b, a) + l * (Word - 1)
  BY <1>2, <1>8
<1>11. Summed(h, 0) + Summed(b, 0) = (1 - k - l) * (Word - 1)
  <2>1. (1 - k - l) * (Word - 1) = (Word - 1) - k * (Word - 1) - l * (Word - 1)
    BY <1>0
  <2>2. PICK x \in Int, y \in Int : x = k * (Word - 1) /\ y = l * (Word - 1)
    BY <1>0
  <2>3. Summed(h, 0) + Summed(b, 0) = (Word - 1) - x - y
    <3>1. PICK u \in Nat, v \in Nat : u = Summed(h, 0) /\ v = Summed(b, 0)
      BY <1>1, <1>6
    <3>2. a = u + x /\ m = (a + v) + y /\ m = Word - 1
      BY <1>6, <1>9, <1>10, <2>2, <3>1
    <3>3. a \in Int /\ Word \in Int
      BY <1>0, <1>2
    <3>4. u + v = (Word - 1) - x - y
      BY <3>2, <3>3
    <3> QED BY <3>1, <3>4
  <2> QED BY <2>1, <2>2, <2>3
<1>12. 1 - k - l \in Int
  OBVIOUS
<1> QED BY <1>11, <1>12

LEMMA NotBoth ==
  ASSUME NEW w \in Nat, w >= 3, NEW s \in Int, NEW d \in (1 - w) .. (w - 1), d # 0,
         NEW k \in Int, NEW l \in Int, s = k * w, s + d = l * w
  PROVE  FALSE
<1>1. d = (l - k) * w
  OBVIOUS
<1>2. PICK m \in Int : m = l - k /\ d = m * w
  BY <1>1
<1>3. m >= 1 => m * w >= w
  OBVIOUS
<1>4. m <= 0 - 1 => m * w <= 0 - w
  OBVIOUS
<1>5. m = 0 => m * w = 0
  OBVIOUS
<1> QED BY <1>2, <1>3, <1>4, <1>5

\* A packet of which a byte was changed is recognised for what it is.
Forged(q) ==
  LET h == SubSeq(q, 1, HeaderSize)
      b == SubSeq(q, HeaderSize + 1, Len(q))
  IN  /\ q \in Seq(Byte) /\ Len(q) >= HeaderSize
      /\ PayloadSize(h) = Len(q) - HeaderSize /\ ~CheckingMaskOff(h, b)

LEMMA ChangedIs ==
  ASSUME StreamTypes, mode = "outer", NEW n \in 1 .. Len(frames),
         NEW q \in Changed(frames[n])
  PROVE  Forged(q)
<1>1. PICK p \in PacketsOf(frames[n]) : \E i \in DOMAIN p \ {2, 3}, x \in Byte :
        x # p[i] /\ q = [p EXCEPT ![i] = x]
  BY DEF Changed
<1>2. PICK i \in DOMAIN p \ {2, 3}, x \in Byte : x # p[i] /\ q = [p EXCEPT ![i] = x]
  BY <1>1
<1>3. Framed(p, frames[n])
  BY PacketIs
<1> DEFINE h == SubSeq(p, 1, HeaderSize)
           b == SubSeq(p, HeaderSize + 1, Len(p))
           g == SubSeq(q, 1, HeaderSize)
           c == SubSeq(q, HeaderSize + 1, Len(q))
<1>4. /\ p \in Seq(Byte) /\ Len(p) >= HeaderSize /\ HeaderSize = 7
      /\ PayloadSize(h) = Len(p) - HeaderSize /\ CheckingMaskOff(h, b)
  BY <1>3 DEF Framed, HeaderSize
<1>5. /\ q \in Seq(Byte) /\ Len(q) = Len(p) /\ i \in 1 .. Len(p) /\ i # 2 /\ i # 3
      /\ q[i] = x /\ q[i] # p[i] /\ \A j \in 1 .. Len(p) : j # i => q[j] = p[j]
  <2>1. i \in 1 .. Len(p) /\ i # 2 /\ i # 3
    BY <1>2, <1>4
  <2>2. q \in Seq(Byte) /\ Len(q) = Len(p)
    BY <1>2, <1>4, <2>1
  <2> QED BY <1>2, <1>4, <2>1, <2>2
<1>6. /\ h \in Seq(Byte) /\ Len(h) = 7 /\ \A j \in 1 .. 7 : h[j] = p[j]
      /\ g \in Seq(Byte) /\ Len(g) = 7 /\ \A j \in 1 .. 7 : g[j] = q[j]
  BY <1>4, <1>5
<1>7. /\ b \in Seq(Byte) /\ Len(b) = Len(p) - 7 /\ \A j \in 1 .. Len(p) - 7 : b[j] = p[7 + j]
      /\ c \in Seq(Byte) /\ Len(c) = Len(p) - 7 /\ \A j \in 1 .. Len(p) - 7 : c[j] = q[7 + j]
  <2>1. 7 \in Nat /\ Len(p) \in Nat /\ 7 <= Len(p) /\ Len(p) <= Len(p)
    BY <1>4
  <2>2. /\ SubSeq(p, 7 + 1, Len(p)) \in Seq(Byte)
        /\ Len(SubSeq(p, 7 + 1, Len(p))) = Len(p) - 7
        /\ \A j \in 1 .. Len(p) - 7 : SubSeq(p, 7 + 1, Len(p))[j] = p[7 + j]
    BY <1>4, <2>1, Part
  <2>3. /\ SubSeq(q, 7 + 1, Len(p)) \in Seq(Byte)
        /\ Len(SubSeq(q, 7 + 1, Len(p))) = Len(p) - 7
        /\ \A j \in 1 .. Len(p) - 7 : SubSeq(q, 7 + 1, Len(p))[j] = q[7 + j]
    BY <1>5, <2>1, Part
  <2>4. b = SubSeq(p, 7 + 1, Len(p)) /\ c = SubSeq(q, 7 + 1, Len(p))
    BY <1>4, <1>5
  <2> HIDE DEF b, c
  <2> QED BY <2>2, <2>3, <2>4
<1>8. PICK length \in Nat : length = Len(p) - 7
  BY <1>4
<1> HIDE DEF h, b, g, c
<1>9. PayloadSize(g) = PayloadSize(h) /\ PayloadSize(h) \in 0 .. Word - 1
  <2>1. 2 \in Nat \ {0} /\ 2 + 1 = 3 /\ 2 + 1 <= Len(h) /\ 2 + 1 <= Len(g)
    BY <1>6
  <2>2. /\ Number(SubSeq(h, 2, 2 + 1)) = h[2] + ByteBase * h[2 + 1]
        /\ Number(SubSeq(h, 2, 2 + 1)) \in 0 .. Word - 1
    BY <1>6, <2>1, PartPair
  <2>3. Number(SubSeq(g, 2, 2 + 1)) = g[2] + ByteBase * g[2 + 1]
    BY <1>6, <2>1, PartPair
  <2>4. g[2] = h[2] /\ g[3] = h[3]
    BY <1>4, <1>5, <1>6
  <2>5. Number(SubSeq(g, 2, 3)) = Number(SubSeq(h, 2, 3))
        /\ Number(SubSeq(h, 2, 3)) \in 0 .. Word - 1
    BY <2>1, <2>2, <2>3, <2>4
  <2> QED BY <2>5 DEF PayloadSize
<1>10. Len(b) < Word /\ Len(c) < Word /\ Len(h) = HeaderSize /\ Len(g) = HeaderSize
  <2>1. Word \in Nat
    BY PartsOfWords
  <2>2. PayloadSize(h) = Len(p) - 7
    BY <1>4
  <2> QED BY <1>4, <1>6, <1>7, <1>9, <2>1, <2>2
<1>11. ASSUME CheckingMaskOff(g, c) PROVE FALSE
  <2>0. 0 \in Nat /\ Word \in Nat /\ Word >= 4
    <3>1. ByteBase * ByteBase >= 2 * ByteBase /\ ByteBase * ByteBase \in Nat
      BY ByteBaseAssumption
    <3> QED BY <3>1, ByteBaseAssumption DEF Word
  <2>1. PICK k \in Int : Summed(h, 0) + Summed(b, 0) = k * (Word - 1)
    BY <1>4, <1>6, <1>7, <1>10, CheckedSum
  <2>2. PICK l \in Int : Summed(g, 0) + Summed(c, 0) = l * (Word - 1)
    BY <1>6, <1>7, <1>10, <1>11, CheckedSum
  <2>3. /\ Summed(h, 0) \in Nat /\ Summed(b, 0) \in Nat
        /\ Summed(g, 0) \in Nat /\ Summed(c, 0) \in Nat
    BY <1>6, <1>7, <2>0, SumBound
  <2>4. \E d \in (2 - Word) .. (Word - 2) :
          /\ d # 0
          /\ (Summed(g, 0) + Summed(c, 0)) - (Summed(h, 0) + Summed(b, 0)) = d
    <3>1. CASE i <= 7
      <4>1. c = b
        <5>1. \A j \in 1 .. Len(p) - 7 : c[j] = b[j]
          <6> SUFFICES ASSUME NEW j \in 1 .. Len(p) - 7 PROVE c[j] = b[j]
            OBVIOUS
          <6>1. 7 + j \in 1 .. Len(p) /\ 7 + j # i
            BY <1>4, <1>5, <3>1
          <6>2. q[7 + j] = p[7 + j]
            BY <1>5, <6>1
          <6> QED BY <1>7, <6>2
        <5> QED BY <1>7, <5>1, SameSequence
      <4>2. /\ Len(g) = Len(h) /\ i \in 1 .. Len(h) /\ g[i] # h[i]
            /\ \A j \in 1 .. Len(h) : j # i => g[j] = h[j]
        <5>1. i \in 1 .. 7 /\ \A j \in 1 .. 7 : j \in 1 .. Len(p)
          BY <1>4, <1>5, <3>1, SMTT(20)
        <5>2. g[i] # h[i] /\ \A j \in 1 .. 7 : j # i => g[j] = h[j]
          BY <1>5, <1>6, <5>1
        <5> QED BY <1>6, <5>1, <5>2
      <4>3. Summed(g, 0) - Summed(h, 0) = Octet(g, i) - Octet(h, i)
        BY <1>6, <4>2, SumChanged
      <4>4. /\ Octet(g, i) - Octet(h, i) # 0
            /\ Octet(g, i) - Octet(h, i) \in (2 - Word) .. (Word - 2)
        BY <1>6, <4>2, OctetDiffers
      <4>5. (Summed(g, 0) + Summed(c, 0)) - (Summed(h, 0) + Summed(b, 0))
              = Octet(g, i) - Octet(h, i)
        BY <2>3, <4>1, <4>3
      <4> QED BY <4>4, <4>5
    <3>2. CASE i > 7
      <4>1. g = h
        <5>1. \A j \in 1 .. 7 : g[j] = h[j]
          <6>1. \A j \in 1 .. 7 : j \in 1 .. Len(p) /\ j # i
            BY <1>4, <1>5, <3>2
          <6> QED BY <1>5, <1>6, <6>1
        <5> QED BY <1>6, <5>1, SameSequence
      <4>2. PICK m \in 1 .. length : i = 7 + m
        <5>1. i - 7 \in 1 .. length /\ i = 7 + (i - 7)
          BY <1>4, <1>5, <1>8, <3>2
        <5> QED BY <5>1
      <4>3. /\ Len(c) = Len(b) /\ Len(b) = length /\ c[m] # b[m]
            /\ \A j \in 1 .. Len(b) : j # m => c[j] = b[j]
        <5>1. Len(c) = length /\ Len(b) = length
          BY <1>7, <1>8
        <5>2. c[m] # b[m]
          BY <1>5, <1>7, <1>8, <4>2
        <5>3. ASSUME NEW j \in 1 .. length, j # m PROVE c[j] = b[j]
          <6>1. 7 + j \in 1 .. Len(p) /\ 7 + j # i
            BY <1>8, <4>2, <5>3
          <6>2. q[7 + j] = p[7 + j]
            BY <1>5, <6>1
          <6> QED BY <1>7, <1>8, <6>2
        <5> QED BY <5>1, <5>2, <5>3
      <4>4. Summed(c, 0) - Summed(b, 0) = Octet(c, m) - Octet(b, m)
        BY <1>7, <4>3, SumChanged
      <4>5. /\ Octet(c, m) - Octet(b, m) # 0
            /\ Octet(c, m) - Octet(b, m) \in (2 - Word) .. (Word - 2)
        BY <1>7, <4>3, OctetDiffers
      <4>6. (Summed(g, 0) + Summed(c, 0)) - (Summed(h, 0) + Summed(b, 0))
              = Octet(c, m) - Octet(b, m)
        BY <2>3, <4>1, <4>4
      <4> QED BY <4>5, <4>6
    <3> QED BY <1>5, <3>1, <3>2
  <2>5. PICK d \in (2 - Word) .. (Word - 2) :
          /\ d # 0
          /\ (Summed(g, 0) + Summed(c, 0)) - (Summed(h, 0) + Summed(b, 0)) = d
    BY <2>4
  <2>6. PICK w \in Nat : w = Word - 1 /\ w >= 3
    BY <2>0
  <2>7. PICK s \in Int : s = Summed(h, 0) + Summed(b, 0)
    BY <2>3
  <2>8. s = k * w /\ s + d = l * w /\ d \in (1 - w) .. (w - 1) /\ d # 0
    <3>1. s + d = Summed(g, 0) + Summed(c, 0)
      BY <2>3, <2>5, <2>7, SMTT(20)
    <3>2. d \in (1 - w) .. (w - 1)
      BY <2>0, <2>6
    <3> QED BY <2>1, <2>2, <2>5, <2>6, <2>7, <3>1, <3>2
  <2> QED BY <2>6, <2>8, NotBoth
<1>12. Len(q) >= HeaderSize /\ PayloadSize(g) = Len(q) - HeaderSize
  BY <1>4, <1>5, <1>9
<1> QED BY <1>5, <1>11, <1>12 DEF Forged, g, c

(* Cuts.                                                                   *)

LEMMA PacketsKept ==
  ASSUME UNCHANGED <<mode, compressing>>, NEW f
  PROVE  PacketsOf(f)' = PacketsOf(f) /\ Changed(f)' = Changed(f)
<1>1. \A cmd, p : EncryptMessage(cmd, p)' = EncryptMessage(cmd, p)
  BY DEF EncryptMessage
<1>2. \A seq : StagePackets(f, seq)' = StagePackets(f, seq)
  BY <1>1 DEF StagePackets
<1>3. \A seq : Packets(f, seq)' = Packets(f, seq)
  BY <1>2 DEF Packets
<1>4. PacketsOf(f)' = PacketsOf(f)
  BY <1>3 DEF PacketsOf
<1> QED BY <1>4 DEF Changed

LEMMA CutType ==
  ASSUME NEW q \in Seq(Byte), NEW S, NEW d \in Nat, NEW k \in Nat, NEW cut, Cut(q, S, d, k, cut)
  PROVE  /\ \A j \in 0 .. k : cut[j] \in Nat /\ cut[j] <= Len(q)
         /\ \A j \in 1 .. k : cut[1] <= cut[j]
<1>1. /\ cut \in [0 .. k -> Nat] /\ cut[0] = 0
      /\ \A j \in 1 .. k : cut[j - 1] <= cut[j] /\ cut[j] <= Len(q)
  BY DEF Cut
<1>2. \A j \in 0 .. k : cut[j] \in Nat /\ cut[j] <= Len(q)
  BY <1>1
<1> DEFINE P == {j \in 0 .. k : j = 0 \/ cut[1] <= cut[j]}
<1>3. 0 \in P
  OBVIOUS
<1>4. \A j \in 1 .. k : j - 1 \in P => j \in P
  <2> SUFFICES ASSUME NEW j \in 1 .. k, j - 1 \in P PROVE cut[1] <= cut[j]
    OBVIOUS
  <2>1. CASE j = 1
    BY <1>1, <2>1
  <2>2. CASE j # 1
    BY <1>1, <2>2
  <2> QED BY <2>1, <2>2
<1> HIDE DEF P
<1>5. 0 .. k \subseteq P
  BY <1>3, <1>4, Climbing
<1>6. \A j \in 1 .. k : cut[1] <= cut[j]
  BY <1>5 DEF P
<1> QED BY <1>2, <1>6

LEMMA CutSame ==
  ASSUME NEW q, NEW S, NEW T, NEW d, NEW k, NEW cut, Cut(q, S, d, k, cut),
         \A j \in 1 .. k : T[d + j] = S[d + j]
  PROVE  Cut(q, T, d, k, cut)
BY DEF Cut

LEMMA CutBehind ==
  ASSUME NEW q \in Seq(Byte), NEW r \in Seq(Byte), NEW S, NEW d \in Nat, NEW k \in Nat,
         NEW cut, Cut(q, S, d, k, cut)
  PROVE  Cut(q \o r, S, d, k, cut)
<1>1. /\ cut \in [0 .. k -> Nat] /\ cut[0] = 0
      /\ \A j \in 1 .. k :
           /\ cut[j - 1] <= cut[j] /\ cut[j] <= Len(q)
           /\ SubSeq(q, cut[j - 1] + 1, cut[j]) \in S[d + j]
  BY DEF Cut
<1>2. Len(q \o r) = Len(q) + Len(r) /\ Len(q) \in Nat /\ Len(r) \in Nat
  OBVIOUS
<1>3. ASSUME NEW j \in 1 .. k
      PROVE  /\ cut[j - 1] <= cut[j] /\ cut[j] <= Len(q \o r)
             /\ SubSeq(q \o r, cut[j - 1] + 1, cut[j]) \in S[d + j]
  <2>1. cut[j - 1] \in Nat /\ cut[j] \in Nat
    BY <1>1
  <2>2. SubSeq(q \o r, cut[j - 1] + 1, cut[j]) = SubSeq(q, cut[j - 1] + 1, cut[j])
    BY <1>1, <2>1, PartOfJoined
  <2>3. SubSeq(q, cut[j - 1] + 1, cut[j]) \in S[d + j]
    BY <1>1
  <2>4. cut[j - 1] <= cut[j] /\ cut[j] <= Len(q \o r)
    BY <1>1, <1>2, <2>1
  <2> QED BY <2>2, <2>3, <2>4
<1> QED BY <1>1, <1>3 DEF Cut

LEMMA CutOnto ==
  ASSUME NEW q \in Seq(Byte), NEW p \in Seq(Byte), NEW S, NEW d \in Nat, NEW k \in Nat,
         NEW cut, Cut(q, S, d, k, cut), cut[k] = Len(q), p \in S[d + k + 1]
  PROVE  \E next : /\ Cut(q \o p, S, d, k + 1, next) /\ next[k + 1] = Len(q \o p)
                   /\ k > 0 => next[1] = cut[1]
<1> DEFINE n == Len(q \o p)
           next == [j \in 0 .. k + 1 |-> IF j = k + 1 THEN n ELSE cut[j]]
<1>1. /\ cut \in [0 .. k -> Nat] /\ cut[0] = 0
      /\ \A j \in 1 .. k :
           /\ cut[j - 1] <= cut[j] /\ cut[j] <= Len(q \o p)
           /\ SubSeq(q \o p, cut[j - 1] + 1, cut[j]) \in S[d + j]
  BY CutBehind DEF Cut
<1>2. n = Len(q) + Len(p) /\ Len(q) \in Nat /\ Len(p) \in Nat /\ n \in Nat
  OBVIOUS
<1>3. SubSeq(q \o p, Len(q) + 1, n) = p
  BY FrontIs
<1> HIDE DEF n
<1>4. /\ next \in [0 .. k + 1 -> Nat] /\ next[k + 1] = n
      /\ \A j \in 0 .. k : next[j] = cut[j]
  BY <1>1, <1>2
<1> HIDE DEF next
<1>5. ASSUME NEW j \in 1 .. k + 1
      PROVE  /\ next[j - 1] <= next[j] /\ next[j] <= Len(q \o p)
             /\ SubSeq(q \o p, next[j - 1] + 1, next[j]) \in S[d + j]
  <2>1. CASE j \in 1 .. k
    <3>1. next[j] = cut[j] /\ next[j - 1] = cut[j - 1]
      BY <1>4, <2>1
    <3> QED BY <1>1, <2>1, <3>1
  <2>2. CASE j = k + 1
    <3>1. next[j] = n /\ next[j - 1] = Len(q)
      BY <1>4, <2>2
    <3>2. d + j = d + k + 1
      BY <2>2
    <3>3. SubSeq(q \o p, next[j - 1] + 1, next[j]) \in S[d + j]
      BY <1>3, <3>1, <3>2
    <3> QED BY <1>2, <3>1, <3>3 DEF n
  <2> QED BY <2>1, <2>2
<1>6. next[0] = 0
  BY <1>1, <1>4
<1>7. k > 0 => next[1] = cut[1]
  BY <1>4
<1>8. next \in [0 .. k + 1 -> Nat] /\ next[k + 1] = Len(q \o p)
  BY <1>4 DEF n
<1>9. Cut(q \o p, S, d, k + 1, next)
  BY <1>5, <1>6, <1>8 DEF Cut
<1> QED BY <1>7, <1>8, <1>9

LEMMA CutRest ==
  ASSUME NEW q \in Seq(Byte), NEW S, NEW d \in Nat, NEW k \in Nat \ {0}, NEW cut,
         Cut(q, S, d, k, cut)
  PROVE  \E next : /\ Cut(SubSeq(q, cut[1] + 1, Len(q)), S, d + 1, k - 1, next)
                   /\ next[k - 1] = cut[k] - cut[1]
<1> DEFINE c == cut[1]
           r == SubSeq(q, c + 1, Len(q))
           next == [j \in 0 .. k - 1 |-> cut[j + 1] - c]
<1>1. /\ cut \in [0 .. k -> Nat] /\ cut[0] = 0
      /\ \A j \in 1 .. k :
           /\ cut[j - 1] <= cut[j] /\ cut[j] <= Len(q)
           /\ SubSeq(q, cut[j - 1] + 1, cut[j]) \in S[d + j]
  BY DEF Cut
<1>2. \A j \in 1 .. k : cut[j] \in Nat /\ c <= cut[j] /\ cut[j] <= Len(q)
  BY CutType
<1>3. c \in Nat /\ c <= Len(q) /\ Len(q) \in Nat
  BY <1>2
<1>4. r \in Seq(Byte) /\ Len(r) = Len(q) - c
  BY <1>3, Part
<1>5. next \in [0 .. k - 1 -> Nat] /\ \A j \in 0 .. k - 1 : next[j] = cut[j + 1] - c
  <2>1. \A j \in 0 .. k - 1 : cut[j + 1] - c \in Nat
    BY <1>2, <1>3
  <2> QED BY <2>1
<1>6. ASSUME NEW j \in 1 .. k - 1
      PROVE  /\ next[j - 1] <= next[j] /\ next[j] <= Len(r)
             /\ SubSeq(r, next[j - 1] + 1, next[j]) \in S[d + 1 + j]
  <2>1. j + 1 \in 1 .. k /\ j \in 1 .. k /\ j - 1 \in 0 .. k - 1 /\ j \in 0 .. k - 1
        /\ (j - 1) + 1 = j /\ (j + 1) - 1 = j
    OBVIOUS
  <2>2. next[j - 1] = cut[j] - c /\ next[j] = cut[j + 1] - c
    BY <1>5, <2>1
  <2>3. /\ cut[j] <= cut[j + 1] /\ cut[j + 1] <= Len(q)
        /\ SubSeq(q, cut[j] + 1, cut[j + 1]) \in S[d + (j + 1)]
    BY <1>1, <2>1
  <2>4. cut[j] \in Nat /\ cut[j + 1] \in Nat /\ c <= cut[j] /\ c <= cut[j + 1]
    BY <1>2, <2>1
  <2>5. PICK a \in Nat, b \in Nat : /\ a = cut[j] - c /\ b = cut[j + 1] - c /\ a <= b
                                    /\ c + b <= Len(q) /\ c + a = cut[j]
                                    /\ c + b = cut[j + 1]
    <3> DEFINE x == cut[j] - c
               y == cut[j + 1] - c
    <3>1. /\ x \in Nat /\ y \in Nat /\ x <= y /\ c + y <= Len(q)
          /\ c + x = cut[j] /\ c + y = cut[j + 1]
      BY <1>3, <2>3, <2>4
    <3> QED BY <3>1, Zenon
  <2> HIDE DEF c, next
  <2>6. SubSeq(r, a + 1, b) = SubSeq(q, c + a + 1, c + b)
    <3>1. c \in Nat /\ a <= b /\ c + b <= Len(q)
      BY <1>3, <2>5
    <3> QED BY <3>1, PartOfRest
  <2>7. SubSeq(r, a + 1, b) = SubSeq(q, cut[j] + 1, cut[j + 1])
    BY <2>5, <2>6
  <2>8. d + (j + 1) = d + 1 + j
    OBVIOUS
  <2>9. SubSeq(r, next[j - 1] + 1, next[j]) \in S[d + 1 + j]
    BY <2>2, <2>3, <2>5, <2>7, <2>8
  <2> QED BY <1>3, <1>4, <2>2, <2>5, <2>9, SMTT(20)
<1>7. next[0] = 0 /\ next[k - 1] = cut[k] - c
  BY <1>2, <1>3, <1>5
<1> HIDE DEF next, r
<1>8. Cut(r, S, d + 1, k - 1, next)
  BY <1>5, <1>6, <1>7 DEF Cut
<1> QED BY <1>7, <1>8 DEF r

(* Steps of the sender.                                                    *)

LEMMA HeldType ==
  ASSUME StreamTypes
  PROVE  /\ Held \in Seq(Byte) /\ Pending \in Seq(Byte)
         /\ Len(Held) = Len(receiver.head) + Len(receiver.body)
         /\ Len(Pending) = Len(Held) + Len(bytes)
         /\ Len(delivered) \in Nat /\ sent \in Nat /\ Len(frames) \in Nat
         /\ Followed \in 0 .. sent /\ Sure \in 0 .. sent /\ Sure <= Followed
<1>1. receiver.head \in Seq(Byte) /\ receiver.body \in Seq(Byte) /\ bytes \in Seq(Byte)
  BY DEF StreamTypes
<1>2. /\ Held \in Seq(Byte) /\ Len(Held) = Len(receiver.head) + Len(receiver.body)
  BY <1>1, Joined DEF Held
<1>3. Pending \in Seq(Byte) /\ Len(Pending) = Len(Held) + Len(bytes)
  BY <1>1, <1>2, Joined DEF Pending
<1>4. frames \in Seq([cmd : 0 .. Half - 1, payload : Seq(Byte)])
  BY StreamsAssumption DEF StreamTypes
<1>5. Len(frames) \in Nat
  BY <1>4
<1>6. sent \in Nat /\ Len(delivered) \in Nat
  BY <1>5 DEF StreamTypes
<1>7. Followed \in 0 .. sent /\ Sure \in 0 .. sent /\ Sure <= Followed
  <2>1. CASE fault = NULL
    BY <1>6, <2>1 DEF Followed, Sure
  <2>2. CASE fault \in 1 .. sent
    <3>1. fault # NULL
      BY <1>6, <2>2, NullAssumption
    <3> QED BY <1>6, <2>2, <3>1 DEF Followed, Sure
  <2> QED BY <2>1, <2>2 DEF StreamTypes
<1> QED BY <1>2, <1>3, <1>5, <1>6, <1>7

LEMMA PacketType ==
  ASSUME StreamTypes, NEW i \in 1 .. Len(frames), NEW p \in PacketsOf(frames[i])
  PROVE  p \in Seq(Byte)
BY PacketIs DEF Framed

LEMMA Sending ==
  ASSUME StreamIInv, link = "open", sent < Len(frames), NEW p \in Seq(Byte),
         bytes' = bytes \o p, sent' = sent + 1,
         UNCHANGED <<mode, frames, compressing, receiver, delivered, link>>,
         \/ fault' = fault /\ p \in PacketsOf(frames[sent + 1])
         \/ fault = NULL /\ fault' = sent + 1 /\ mode # "outer"
         \/ /\ fault = NULL /\ fault' = sent + 1 /\ mode = "outer"
            /\ p \in Changed(frames[sent + 1])
  PROVE  StreamIInv'
<1>0. StreamTypes /\ Faithful /\ Flowing
  BY DEF StreamIInv
<1>1. /\ Held \in Seq(Byte) /\ Pending \in Seq(Byte) /\ bytes \in Seq(Byte)
      /\ Len(delivered) \in Nat /\ sent \in Nat /\ Len(frames) \in Nat
      /\ Followed \in 0 .. sent /\ Sure \in 0 .. sent /\ Sure <= Followed
  BY <1>0, HeldType DEF StreamTypes
<1>2. sent \notin {NULL} /\ sent + 1 \notin {NULL}
  BY <1>1, NullAssumption
<1>3. fault \in 1 .. sent \/ fault = NULL
  BY <1>0 DEF StreamTypes
<1>4. StreamTypes'
  <2>1. bytes' \in Seq(Byte)
    BY <1>1, Joined
  <2>2. sent' \in 0 .. Len(frames') /\ fault' \in 1 .. sent' \cup {NULL}
    BY <1>1, <1>3
  <2>3. Reading' = Reading
    BY DEF Reading
  <2> QED BY <1>0, <2>1, <2>2, <2>3 DEF StreamTypes
<1>5. Sure' = IF fault = NULL /\ fault' = NULL THEN sent + 1 ELSE IF fault = NULL THEN sent ELSE Sure
  BY <1>1, <1>2 DEF Sure
<1>6. Faithful'
  <2>1. \A i \in DOMAIN delivered' : i <= Sure' => delivered'[i] = frames'[i]
    <3> SUFFICES ASSUME NEW i \in DOMAIN delivered, i <= Sure'
                 PROVE  delivered[i] = frames[i]
      OBVIOUS
    <3>1. i \in 1 .. Len(delivered)
      BY <1>0 DEF StreamTypes
    <3>2. i <= Sure
      <4>1. CASE fault = NULL
        BY <1>0, <1>1, <3>1, <4>1 DEF Faithful, Sure
      <4>2. CASE fault # NULL
        BY <1>5, <4>2
      <4> QED BY <4>1, <4>2
    <3> QED BY <1>0, <3>2 DEF Faithful
  <2>2. fault' = NULL => link' # "aborted" /\ Len(delivered') <= sent'
    BY <1>0, <1>1, <1>2 DEF Faithful
  <2>3. mode' = "outer" => Len(delivered') <= Sure'
    <3>1. Sure <= Sure'
      BY <1>1, <1>2, <1>5 DEF Sure
    <3>2. Sure' \in Nat
      BY <1>1, <1>5
    <3> QED BY <1>0, <1>1, <3>1, <3>2 DEF Faithful
  <2> QED BY <2>1, <2>2, <2>3 DEF Faithful
<1>7. Pending' = Pending \o p
  <2>1. PICK h \in Seq(Byte), b \in Seq(Byte) : h = Held /\ b = bytes
    BY <1>1
  <2>2. (Held \o bytes) \o p = Held \o (bytes \o p)
    BY <2>1, JoinedTwice, ZenonT(60)
  <2>3. Held' = Held
    BY DEF Held
  <2> QED BY <2>2, <2>3, Zenon DEF Pending
<1>8. \A i \in 1 .. Followed : Awaited'[i] = Awaited[i]
  <2> SUFFICES ASSUME NEW i \in 1 .. Followed PROVE Awaited'[i] = Awaited[i]
    OBVIOUS
  <2>1. Followed' \in Nat /\ Followed <= Followed'
    BY <1>1, <1>2, <1>3 DEF Followed
  <2>2. i \in 1 .. Followed' /\ i # sent + 1 /\ i \in Nat
    BY <1>1, <2>1
  <2>3. (i = fault') = (i = fault)
    BY <2>2, NullAssumption
  <2>4. /\ PacketsOf(frames[i])' = PacketsOf(frames[i])
        /\ Changed(frames[i])' = Changed(frames[i])
    <3>1. PICK f : f = frames[i]
      OBVIOUS
    <3>2. PacketsOf(f)' = PacketsOf(f) /\ Changed(f)' = Changed(f)
      BY PacketsKept
    <3> QED BY <3>1, <3>2
  <2>5. PacketsAt(i)' = PacketsAt(i)
    BY <2>3, <2>4 DEF PacketsAt
  <2> QED BY <2>2, <2>5 DEF Awaited
<1>9. ASSUME link' = "open", Len(delivered) <= Followed'
      PROVE  \E cut : /\ Cut(Pending', Awaited', Len(delivered), Followed' - Len(delivered), cut)
                      /\ Followed' - Len(delivered) > 0 => Amid(cut[1])
                      /\ Followed' - Len(delivered) = 0 /\ fault' = NULL => ~receiver.fhdr
                      /\ fault' = NULL => cut[Followed' - Len(delivered)] = Len(Pending')
  <2>1. PICK d \in Nat : d = Len(delivered)
    BY <1>1
  <2>0. PICK s \in Nat : s = sent + 1
    BY <1>1
  <2>2. CASE Followed' = Followed /\ fault' # NULL
    <3>1. PICK k \in Nat : k = Followed - d
      <4>1. Followed - d \in Nat
        BY <1>1, <1>9, <2>1, <2>2
      <4> QED BY <4>1
    <3>2. PICK cut : /\ Cut(Pending, Awaited, d, k, cut)
                     /\ k > 0 => Amid(cut[1])
      BY <1>0, <1>9, <2>1, <2>2, <3>1 DEF Flowing
    <3>3. \A j \in 1 .. k : Awaited'[d + j] = Awaited[d + j]
      BY <1>1, <1>8, <3>1
    <3>4. Cut(Pending \o p, Awaited', d, k, cut)
      BY <1>1, <3>2, <3>3, CutBehind, CutSame
    <3> QED BY <1>7, <2>1, <2>2, <3>1, <3>2, <3>4
  <2>3. CASE /\ Followed' = Followed + 1 /\ fault = NULL /\ Followed = sent
             /\ p \in PacketsAt(s)'
    <3>0. d <= Followed
      BY <1>0, <1>1, <2>1, <2>3 DEF Faithful
    <3>1. PICK k \in Nat : k = Followed - d
      <4>1. Followed - d \in Nat
        BY <1>1, <2>1, <3>0
      <4> QED BY <4>1
    <3>2. PICK cut : /\ Cut(Pending, Awaited, d, k, cut)
                     /\ k > 0 => Amid(cut[1])
                     /\ k = 0 => ~receiver.fhdr
                     /\ cut[k] = Len(Pending)
      BY <1>0, <1>9, <2>1, <2>3, <3>0, <3>1 DEF Flowing
    <3>3. \A j \in 1 .. k : Awaited'[d + j] = Awaited[d + j]
      BY <1>1, <1>8, <3>1
    <3>4. Cut(Pending, Awaited', d, k, cut)
      BY <3>2, <3>3, CutSame
    <3>5. p \in Awaited'[d + k + 1]
      <4>1. d + k + 1 = s /\ s \in 1 .. Followed'
        BY <1>1, <2>0, <2>3, <3>1
      <4>2. Awaited'[s] = PacketsAt(s)'
        BY <4>1 DEF Awaited
      <4> QED BY <2>3, <4>1, <4>2
    <3>6. PICK next : /\ Cut(Pending \o p, Awaited', d, k + 1, next)
                      /\ next[k + 1] = Len(Pending \o p)
                      /\ k > 0 => next[1] = cut[1]
      <4>1. PICK q \in Seq(Byte) : q = Pending
        BY <1>1
      <4>2. PICK S : S = Awaited'
        OBVIOUS
      <4>3. Cut(q, S, d, k, cut) /\ cut[k] = Len(q) /\ p \in S[d + k + 1]
        BY <3>2, <3>4, <3>5, <4>1, <4>2
      <4>4. \E next : /\ Cut(q \o p, S, d, k + 1, next)
                      /\ next[k + 1] = Len(q \o p)
                      /\ k > 0 => next[1] = cut[1]
        BY <4>3, CutOnto
      <4> QED BY <4>1, <4>2, <4>4
    <3>7. k + 1 = Followed' - d /\ k + 1 > 0 /\ k + 1 # 0
      BY <1>1, <2>3, <3>1
    <3>8. Amid(next[1])
      BY <3>2, <3>6 DEF Amid
    <3> QED BY <1>7, <2>1, <3>6, <3>7, <3>8
  <2>4. PICK f : f = frames[s]
    OBVIOUS
  <2>5. PacketsOf(f)' = PacketsOf(f) /\ Changed(f)' = Changed(f)
    BY PacketsKept
  <2>6. PacketsAt(s)' = IF s = fault' THEN Changed(f) ELSE PacketsOf(f)
    BY <2>4, <2>5 DEF PacketsAt
  <2>7. CASE fault' = fault /\ p \in PacketsOf(frames[sent + 1])
    <3>1. CASE fault = NULL
      <4>1. Followed' = Followed + 1 /\ Followed = sent
        BY <2>7, <3>1 DEF Followed
      <4>2. p \in PacketsAt(s)'
        BY <1>2, <2>0, <2>4, <2>6, <2>7, <3>1
      <4> QED BY <2>3, <3>1, <4>1, <4>2
    <3>2. CASE fault # NULL
      <4>1. Followed' = Followed /\ fault' # NULL
        BY <2>7, <3>2 DEF Followed
      <4> QED BY <2>2, <4>1
    <3> QED BY <3>1, <3>2
  <2>8. CASE fault = NULL /\ fault' = sent + 1 /\ mode # "outer"
    <3>1. Followed' = Followed /\ fault' # NULL
      BY <1>1, <1>2, <2>8 DEF Followed
    <3> QED BY <2>2, <3>1
  <2>9. CASE /\ fault = NULL /\ fault' = sent + 1 /\ mode = "outer"
             /\ p \in Changed(frames[sent + 1])
    <3>1. Followed' = Followed + 1 /\ Followed = sent
      BY <1>1, <1>2, <2>9 DEF Followed
    <3>2. p \in PacketsAt(s)'
      BY <2>0, <2>4, <2>6, <2>9
    <3> QED BY <2>3, <2>9, <3>1, <3>2
  <2> QED BY <2>7, <2>8, <2>9
<1>10. \A n : Amid(n)' = Amid(n)
  BY DEF Amid
<1>11. Flowing'
  BY <1>9, <1>10 DEF Flowing
<1> QED BY <1>4, <1>6, <1>11 DEF StreamIInv

LEMMA SendKeeps ==
  ASSUME StreamIInv, SendFrame \/ SendPart \/ SendFlipped
  PROVE  StreamIInv'
<1>0. StreamTypes /\ Len(frames) \in Nat /\ sent \in Nat
  BY HeldType DEF StreamIInv
<1>1. MaySend
  BY DEF SendFrame, SendPart, SendFlipped
<1>2. PICK i \in 1 .. Len(frames) : i = sent + 1
  BY <1>0, <1>1 DEF MaySend
<1>3. \A seq \in SequenceNos : \A p \in Packets(frames[sent + 1], seq) :
        p \in PacketsOf(frames[sent + 1]) /\ p \in Seq(Byte)
  <2>1. \A p \in PacketsOf(frames[i]) : p \in Seq(Byte)
    BY <1>0, PacketType
  <2> QED BY <1>2, <2>1 DEF PacketsOf
<1>4. CASE SendFrame
  <2>1. PICK p \in Seq(Byte) : p \in PacketsOf(frames[sent + 1]) /\ bytes' = bytes \o p
    BY <1>3, <1>4 DEF SendFrame
  <2> QED BY <1>1, <1>4, <2>1, Sending DEF MaySend, SendFrame
<1>5. CASE SendPart
  <2>1. PICK seq \in SequenceNos : \E q \in Packets(frames[sent + 1], seq) :
          \E n \in 1 .. Len(q) - 1 : bytes' = bytes \o SubSeq(q, 1, n)
    BY <1>5 DEF SendPart
  <2>2. PICK q \in Packets(frames[sent + 1], seq) :
          \E n \in 1 .. Len(q) - 1 : bytes' = bytes \o SubSeq(q, 1, n)
    BY <2>1
  <2>3. PICK n \in 1 .. Len(q) - 1 : bytes' = bytes \o SubSeq(q, 1, n)
    BY <2>2
  <2>4. q \in Seq(Byte)
    BY <1>3
  <2>5. SubSeq(q, 1, n) \in Seq(Byte)
    BY <2>4
  <2>6. PICK p \in Seq(Byte) : bytes' = bytes \o p
    BY <2>3, <2>5
  <2> QED BY <1>1, <1>5, <2>6, Sending DEF MaySend, SendPart, Since
<1>6. CASE SendFlipped
  <2>1. PICK seq \in SequenceNos : \E q \in Packets(frames[sent + 1], seq) :
          \E j \in DOMAIN q \ {2, 3}, b \in Byte :
            b # q[j] /\ bytes' = bytes \o [q EXCEPT ![j] = b]
    BY <1>6 DEF SendFlipped
  <2>2. PICK q \in Packets(frames[sent + 1], seq) :
          \E j \in DOMAIN q \ {2, 3}, b \in Byte :
            b # q[j] /\ bytes' = bytes \o [q EXCEPT ![j] = b]
    BY <2>1
  <2>3. PICK j \in DOMAIN q \ {2, 3}, b \in Byte :
          b # q[j] /\ bytes' = bytes \o [q EXCEPT ![j] = b]
    BY <2>2
  <2>4. q \in PacketsOf(frames[sent + 1]) /\ q \in Seq(Byte)
    BY <1>3
  <2>5. PICK p : p = [q EXCEPT ![j] = b]
    OBVIOUS
  <2>6. p \in Seq(Byte)
    BY <2>4, <2>5
  <2>7. p \in Changed(frames[sent + 1]) /\ bytes' = bytes \o p
    BY <2>3, <2>4, <2>5, <2>6 DEF Changed
  <2> QED BY <1>1, <1>6, <2>6, <2>7, Sending DEF MaySend, SendFlipped, Since
<1> QED BY <1>4, <1>5, <1>6

(* Steps of the receiver.                                                  *)

\* The next packet is what the first c pending bytes are.
Next1st(c, cut) ==
  LET d == Len(delivered)
      p == SubSeq(Pending, 1, c)
  IN  /\ c \in Nat /\ HeaderSize <= c /\ c <= Len(Pending)
      /\ p \in Seq(Byte) /\ Len(p) = c /\ Amid(c)
      /\ d + 1 # fault => Framed(p, frames[d + 1])
      /\ d + 1 = fault => mode = "outer" /\ Forged(p)
      /\ Cut(Pending, Awaited, d, Followed - d, cut) /\ cut[1] = c
      /\ fault = NULL => cut[Followed - d] = Len(Pending)

LEMMA First ==
  ASSUME StreamIInv, link = "open", Len(delivered) < Followed
  PROVE  \E c, cut : Next1st(c, cut)
<1>0. StreamTypes /\ Flowing
  BY DEF StreamIInv
<1>1. /\ Pending \in Seq(Byte) /\ Len(delivered) \in Nat /\ Followed \in 0 .. sent
      /\ sent \in 0 .. Len(frames) /\ Len(frames) \in Nat
  BY <1>0, HeldType DEF StreamTypes
<1>2. PICK d \in Nat : d = Len(delivered)
  BY <1>1
<1>3. PICK k \in Nat \ {0} : k = Followed - d
  <2>1. Followed - d \in Nat \ {0}
    BY <1>1, <1>2
  <2> QED BY <2>1
<1>4. PICK cut : /\ Cut(Pending, Awaited, d, k, cut) /\ Amid(cut[1])
                 /\ fault = NULL => cut[k] = Len(Pending)
  BY <1>0, <1>1, <1>2, <1>3 DEF Flowing
<1>5. PICK i \in 1 .. Len(frames) : i = d + 1 /\ i \in 1 .. Followed
  BY <1>1, <1>2
<1>6. PICK c \in Nat : c = cut[1] /\ c <= Len(Pending)
  <2>1. 1 \in 0 .. k
    BY <1>3
  <2> QED BY <1>1, <1>4, <2>1, CutType
<1>7. PICK p \in Seq(Byte) : p = SubSeq(Pending, 1, c) /\ Len(p) = c
  <2>1. SubSeq(Pending, 1, c) \in Seq(Byte) /\ Len(SubSeq(Pending, 1, c)) = c
    <3>1. c \in 0 .. Len(Pending)
      BY <1>1, <1>6
    <3> QED BY <1>1, <3>1, Onto
  <2> QED BY <2>1
<1>8. p \in PacketsAt(i)
  <2>1. SubSeq(Pending, cut[1 - 1] + 1, cut[1]) \in Awaited[d + 1] /\ cut[0] = 0
    <3>1. 1 \in 1 .. k
      BY <1>3
    <3> QED BY <1>4, <3>1 DEF Cut
  <2>2. p \in Awaited[i]
    BY <1>5, <1>6, <1>7, <2>1
  <2> QED BY <1>5, <2>2 DEF Awaited
<1>9. CASE i # fault
  <2>1. Framed(p, frames[i])
    BY <1>0, <1>8, <1>9, PacketIs DEF PacketsAt
  <2>2. HeaderSize <= c
    BY <1>7, <2>1 DEF Framed, HeaderSize
  <2>3. Next1st(c, cut)
    BY <1>2, <1>3, <1>4, <1>5, <1>6, <1>7, <1>9, <2>1, <2>2 DEF Next1st
  <2> QED BY <2>3
<1>10. CASE i = fault
  <2>1. mode = "outer"
    <3>1. fault # NULL
      BY <1>10, NullAssumption
    <3>2. Followed = IF mode = "outer" THEN i ELSE i - 1
      BY <1>10, <3>1 DEF Followed
    <3> QED BY <1>5, <3>2
  <2>2. Forged(p)
    BY <1>0, <1>8, <1>10, <2>1, ChangedIs DEF PacketsAt
  <2>3. HeaderSize <= c
    BY <1>7, <2>2 DEF Forged, HeaderSize
  <2>4. Next1st(c, cut)
    BY <1>2, <1>3, <1>4, <1>5, <1>6, <1>7, <1>10, <2>1, <2>2, <2>3 DEF Next1st
  <2> QED BY <2>4
<1> QED BY <1>9, <1>10

\* What the receiver holds is less than the next packet.
LEMMA HeldShort ==
  ASSUME StreamIInv, link = "open", NEW c, NEW cut, Next1st(c, cut)
  PROVE  Len(Held) < c
<1>1. /\ Len(Held) = Len(receiver.head) + Len(receiver.body)
      /\ receiver.head \in Seq(Byte) /\ receiver.body \in Seq(Byte) /\ Reading
  BY HeldType DEF StreamIInv, StreamTypes
<1>2. Len(receiver.head) \in Nat /\ Len(receiver.body) \in Nat
  BY <1>1
<1>3. c \in Nat /\ HeaderSize <= c /\ Amid(c)
  BY DEF Next1st
<1>4. CASE receiver.fhdr
  <2>1. Len(receiver.head) = HeaderSize
    BY <1>1, <1>4 DEF Reading
  <2>2. Len(receiver.body) < c - HeaderSize
    BY <1>3, <1>4 DEF Amid
  <2> QED BY <1>1, <1>2, <1>3, <2>1, <2>2 DEF HeaderSize
<1>5. CASE ~receiver.fhdr
  <2>1. Len(receiver.body) = 0
    BY <1>1, <1>5 DEF Reading
  <2> QED BY <1>1, <1>2, <1>3, <1>5, <2>1 DEF Reading, HeaderSize
<1> QED BY <1>4, <1>5

LEMMA Drained ==
  ASSUME StreamIInv, link = "open", bytes = <<>>, fault = NULL
  PROVE  Len(delivered) = sent
<1>1. /\ Len(delivered) \in Nat /\ sent \in Nat /\ Followed = sent
      /\ Len(delivered) <= sent
      /\ Len(Pending) = Len(Held) + Len(bytes) /\ Held \in Seq(Byte)
  BY HeldType DEF StreamIInv, Faithful, Followed
<1>2. Len(Pending) = Len(Held) /\ Len(Held) \in Nat
  BY <1>1
<1>3. ASSUME Len(delivered) < Followed PROVE FALSE
  <2>1. PICK c, cut : Next1st(c, cut)
    BY <1>3, First
  <2>2. c \in Nat /\ c <= Len(Pending)
    BY <2>1 DEF Next1st
  <2> QED BY <1>2, <2>1, <2>2, HeldShort
<1> QED BY <1>1, <1>3

LEMMA FinKeeps ==
  ASSUME StreamIInv, Fin
  PROVE  StreamIInv'
<1>1. StreamTypes'
  <2>1. receiver' = [fhdr |-> FALSE, head |-> <<>>, body |-> <<>>, buffer |-> <<>>]
    BY DEF Fin, Idle
  <2>2. receiver' \in [fhdr : BOOLEAN, head : Seq(Byte), body : Seq(Byte),
                       buffer : Seq(Byte)]
    BY <2>1
  <2>3. link' = "closed"
    BY DEF Fin
  <2> QED BY <2>2, <2>3 DEF StreamIInv, StreamTypes, Fin
<1>2. Faithful'
  BY Drained DEF StreamIInv, Faithful, Fin, Sure
<1>3. Flowing'
  BY DEF Flowing, Fin
<1> QED BY <1>1, <1>2, <1>3 DEF StreamIInv

Onwards(s, t) == Len(s) <= Len(t) /\ \A i \in 1 .. Len(s) : t[i] = s[i]

\* Once the receiver is past the frames that are followed, nothing is told of it.
LEMMA Past ==
  ASSUME StreamIInv, StreamTypes', mode # "outer",
         UNCHANGED <<mode, frames, compressing, sent>>,
         fault' \in 1 .. sent, fault' <= Len(delivered) + 1,
         fault = NULL \/ fault' <= fault,
         Onwards(delivered, delivered')
  PROVE  StreamIInv'
<1>0. StreamTypes /\ Faithful
  BY DEF StreamIInv
<1>1. /\ Len(delivered) \in Nat /\ sent \in Nat /\ Len(delivered') \in Nat
      /\ Sure \in 0 .. sent
  <2>1. Len(delivered') \in Nat
    BY DEF StreamTypes
  <2> QED BY <1>0, <2>1, HeldType
<1>2. fault' # NULL /\ fault' \in Nat
  BY <1>1, NullAssumption
<1>3. PICK S : delivered \in Seq(S)
  BY <1>0 DEF StreamTypes
<1>4. /\ Len(delivered) <= Len(delivered')
      /\ \A i \in 1 .. Len(delivered) : delivered'[i] = delivered[i]
  BY DEF Onwards
<1>5. Sure' = fault' - 1 /\ Followed' = fault' - 1
  BY <1>2 DEF Sure, Followed
<1>6. fault' - 1 <= Sure
  <2>1. fault \in 1 .. sent \/ fault = NULL
    BY <1>0 DEF StreamTypes
  <2> QED BY <1>1, <1>2, <2>1 DEF Sure
<1>7. Faithful'
  <2>1. \A i \in DOMAIN delivered' : i <= Sure' => delivered'[i] = frames'[i]
    <3> SUFFICES ASSUME NEW i \in DOMAIN delivered', i <= Sure'
                 PROVE  delivered'[i] = frames[i]
      OBVIOUS
    <3>1. i \in 1 .. Len(delivered')
      BY DEF StreamTypes
    <3>2. i \in 1 .. Len(delivered) /\ i <= Sure
      <4>1. PICK m \in Int : m = fault' - 1 /\ m <= Len(delivered)
        <5>1. fault' - 1 \in Int /\ fault' - 1 <= Len(delivered)
          BY <1>1, <1>2
        <5> QED BY <5>1
      <4>2. i \in Nat /\ i >= 1 /\ i <= m
        BY <1>1, <1>5, <3>1, <4>1
      <4>3. m <= Sure
        BY <1>6, <4>1, Zenon
      <4>4. Sure \in Int
        BY <1>1
      <4>5. i <= Sure
        <5>1. i \in Int /\ i <= m
          BY <4>2
        <5> QED BY <4>1, <4>3, <4>4, <5>1, Between, Zenon
      <4>6. i \in 1 .. Len(delivered)
        BY <1>1, <4>1, <4>2
      <4> QED BY <4>5, <4>6
    <3>3. delivered'[i] = delivered[i] /\ i \in DOMAIN delivered
      BY <1>3, <1>4, <3>2
    <3> QED BY <1>0, <3>2, <3>3 DEF Faithful
  <2> QED BY <1>2, <2>1 DEF Faithful
<1>8. ASSUME Len(delivered') <= Followed'
      PROVE  \E cut : /\ Cut(Pending', Awaited', Len(delivered'),
                             Followed' - Len(delivered'), cut)
                      /\ Followed' - Len(delivered') = 0
  <2>1. PICK k : k = Followed' - Len(delivered') /\ k = 0
    BY <1>1, <1>2, <1>4, <1>5, <1>8
  <2>2. Cut(Pending', Awaited', Len(delivered'), 0, [x \in 0 .. 0 |-> 0])
    BY DEF Cut
  <2> QED BY <2>1, <2>2
<1>9. Flowing'
  <2>1. \A k : k = 0 => ~(k > 0)
    OBVIOUS
  <2> QED BY <1>2, <1>8, <2>1 DEF Flowing
<1> QED BY <1>7, <1>9 DEF StreamIInv

\* The frames that are followed and came in are followed to their end, or nothing
\* is said of the receiver any more.
LEMMA Lost ==
  ASSUME StreamIInv, link = "open", bytes # <<>>, ~(Len(delivered) < Followed)
  PROVE  fault \in 1 .. sent /\ mode # "outer" /\ fault <= Len(delivered) + 1
<1>0. StreamTypes /\ Faithful /\ Flowing
  BY DEF StreamIInv
<1>1. /\ Len(delivered) \in Nat /\ sent \in Nat /\ Followed \in 0 .. sent
      /\ Len(Pending) = Len(Held) + Len(bytes) /\ Held \in Seq(Byte)
      /\ bytes \in Seq(Byte)
  BY <1>0, HeldType DEF StreamTypes
<1>2. Len(Held) \in Nat /\ Len(bytes) \in Nat /\ Len(bytes) # 0
  BY <1>1
<1>3. fault # NULL
  <2> SUFFICES ASSUME fault = NULL PROVE FALSE
    OBVIOUS
  <2>1. Len(delivered) = Followed /\ Len(delivered) <= Followed
    BY <1>0, <1>1 DEF Faithful, Followed
  <2>2. PICK k : k = Followed - Len(delivered) /\ k = 0
    BY <1>1, <2>1
  <2>3. PICK cut : Cut(Pending, Awaited, Len(delivered), k, cut) /\ cut[k] = Len(Pending)
    BY <1>0, <2>1, <2>2 DEF Flowing
  <2>4. Len(Pending) = 0
    BY <2>2, <2>3 DEF Cut
  <2>5. Len(Held) + Len(bytes) = 0
    BY <1>1, <2>4
  <2> QED BY <1>2, <2>5
<1>4. fault \in 1 .. sent
  BY <1>0, <1>3 DEF StreamTypes
<1>5. mode # "outer"
  <2> SUFFICES ASSUME mode = "outer" PROVE FALSE
    OBVIOUS
  <2>1. Len(delivered) <= fault - 1 /\ Followed = fault
    BY <1>0, <1>3 DEF Faithful, Sure, Followed
  <2> QED BY <1>1, <1>4, <2>1
<1>6. Followed = fault - 1
  BY <1>3, <1>5 DEF Followed
<1> QED BY <1>1, <1>4, <1>5, <1>6

LEMMA AwaitedKept ==
  ASSUME UNCHANGED <<mode, frames, compressing, sent, fault>>
  PROVE  Awaited' = Awaited /\ Followed' = Followed /\ Sure' = Sure
<1>1. Followed' = Followed /\ Sure' = Sure
  BY DEF Followed, Sure
<1>2. \A i : PacketsAt(i)' = PacketsAt(i)
  <2> SUFFICES ASSUME NEW i PROVE PacketsAt(i)' = PacketsAt(i)
    OBVIOUS
  <2>1. PICK f : f = frames[i]
    OBVIOUS
  <2>2. PacketsOf(f)' = PacketsOf(f) /\ Changed(f)' = Changed(f)
    BY PacketsKept
  <2> QED BY <2>1, <2>2 DEF PacketsAt
<1> QED BY <1>1, <1>2 DEF Awaited

LEMMA AwaitKeeps ==
  ASSUME StreamIInv, StreamTypes', link' = link,
         UNCHANGED <<mode, frames, compressing, sent, delivered, fault>>,
         link = "open", Len(delivered) < Followed,
         NEW c, NEW cut, Next1st(c, cut), Pending' = Pending, Amid(c)'
  PROVE  StreamIInv'
<1>0. Faithful
  BY DEF StreamIInv
<1>1. Awaited' = Awaited /\ Followed' = Followed /\ Sure' = Sure
  BY AwaitedKept
<1>2. Faithful'
  BY <1>0, <1>1 DEF Faithful
<1>3. /\ Len(delivered) \in Nat /\ Followed \in Nat
  BY HeldType DEF StreamIInv
<1>4. PICK k \in Nat \ {0} : k = Followed - Len(delivered)
  <2>1. Followed - Len(delivered) \in Nat \ {0}
    BY <1>3
  <2> QED BY <2>1
<1>5. /\ Cut(Pending, Awaited, Len(delivered), k, cut) /\ cut[1] = c
      /\ fault = NULL => cut[k] = Len(Pending)
  BY <1>4 DEF Next1st
<1>6. /\ Cut(Pending', Awaited', Len(delivered'), k, cut)
      /\ Amid(cut[1])'
      /\ fault' = NULL => cut[k] = Len(Pending')
      /\ k = Followed' - Len(delivered') /\ k # 0
  BY <1>1, <1>4, <1>5
<1>7. Flowing'
  BY <1>6 DEF Flowing
<1> QED BY <1>2, <1>7 DEF StreamIInv

LEMMA HandKeeps ==
  ASSUME StreamIInv, StreamTypes', link' = link,
         UNCHANGED <<mode, frames, compressing, sent, fault>>,
         link = "open", Len(delivered) < Followed,
         NEW c, NEW cut, Next1st(c, cut), Len(delivered) + 1 # fault,
         delivered' = Append(delivered, frames[Len(delivered) + 1]),
         ~receiver'.fhdr, Held' = <<>>,
         bytes' = SubSeq(Pending, c + 1, Len(Pending))
  PROVE  StreamIInv'
<1>0. StreamTypes /\ Faithful
  BY DEF StreamIInv
<1>1. Awaited' = Awaited /\ Followed' = Followed /\ Sure' = Sure
  BY AwaitedKept
<1>2. /\ Len(delivered) \in Nat /\ Followed \in 0 .. sent /\ sent \in Nat
      /\ Sure \in 0 .. sent /\ Pending \in Seq(Byte)
  BY <1>0, HeldType
<1>3. PICK d \in Nat : d = Len(delivered)
  BY <1>2
<1>4. PICK k \in Nat \ {0} : k = Followed - d
  <2>1. Followed - d \in Nat \ {0}
    BY <1>2, <1>3
  <2> QED BY <2>1
<1>5. PICK S : delivered \in Seq(S)
  BY <1>0 DEF StreamTypes
<1>6. /\ Len(delivered') = d + 1 /\ DOMAIN delivered' = 1 .. d + 1
      /\ delivered'[d + 1] = frames[d + 1]
      /\ \A i \in 1 .. d : delivered'[i] = delivered[i]
  BY <1>3, <1>5
<1>7. Faithful'
  <2>1. \A i \in DOMAIN delivered' : i <= Sure' => delivered'[i] = frames'[i]
    <3> SUFFICES ASSUME NEW i \in 1 .. d + 1, i <= Sure
                 PROVE  delivered'[i] = frames[i]
      BY <1>1, <1>6
    <3>1. CASE i = d + 1
      BY <1>6, <3>1
    <3>2. CASE i \in 1 .. d
      <4>1. i \in DOMAIN delivered
        BY <1>3, <1>5, <3>2
      <4> QED BY <1>0, <1>6, <3>2, <4>1 DEF Faithful
    <3> QED BY <1>3, <3>1, <3>2
  <2>2. fault' = NULL => Len(delivered') <= sent'
    BY <1>2, <1>3, <1>6
  <2>3. mode' = "outer" => Len(delivered') <= Sure'
    <3>1. mode = "outer" /\ fault # NULL => Followed = fault /\ Sure = fault - 1
      BY DEF Followed, Sure
    <3>2. fault = NULL => Followed = Sure
      BY DEF Followed, Sure
    <3>3. fault # NULL => fault \in 1 .. sent
      BY <1>0 DEF StreamTypes
    <3> QED BY <1>1, <1>2, <1>3, <1>6, <3>1, <3>2, <3>3
  <2> QED BY <1>6, <2>1, <2>2, <2>3 DEF Faithful
<1>8. /\ Cut(Pending, Awaited, d, k, cut) /\ cut[1] = c /\ c \in Nat /\ c <= Len(Pending)
      /\ fault = NULL => cut[k] = Len(Pending)
  BY <1>3, <1>4 DEF Next1st
<1>9. Pending' = bytes'
  <2>1. bytes' \in Seq(Byte)
    BY DEF StreamTypes
  <2>2. \A q \in Seq(Byte) : <<>> \o q = q
    OBVIOUS
  <2> QED BY <2>1, <2>2 DEF Pending
<1>10. PICK q \in Seq(Byte) : q = Pending
  BY <1>2
<1>11. PICK T : T = Awaited
  OBVIOUS
<1>12. PICK next : /\ Cut(SubSeq(q, c + 1, Len(q)), T, d + 1, k - 1, next)
                   /\ next[k - 1] = cut[k] - c
  <2>1. Cut(q, T, d, k, cut)
    BY <1>8, <1>10, <1>11
  <2>2. \E next : /\ Cut(SubSeq(q, cut[1] + 1, Len(q)), T, d + 1, k - 1, next)
                  /\ next[k - 1] = cut[k] - cut[1]
    BY <2>1, CutRest
  <2> QED BY <1>8, <2>2
<1>13. Cut(Pending', Awaited', d + 1, k - 1, next)
  BY <1>1, <1>9, <1>10, <1>11, <1>12
<1>14. k - 1 = Followed' - Len(delivered') /\ \A n : Amid(n)'
  BY <1>1, <1>2, <1>3, <1>4, <1>6 DEF Amid
<1>15. fault' = NULL => next[k - 1] = Len(Pending')
  <2>1. Len(SubSeq(q, c + 1, Len(q))) = Len(q) - c
    <3>1. Len(q) \in Nat /\ c \in Nat /\ c <= Len(q) /\ Len(q) <= Len(q)
      BY <1>8, <1>10
    <3> QED BY <3>1, Part
  <2> QED BY <1>8, <1>9, <1>10, <1>12, <2>1
<1>16. Flowing'
  BY <1>6, <1>13, <1>14, <1>15 DEF Flowing
<1> QED BY <1>7, <1>16 DEF StreamIInv

LEMMA AbortKeeps ==
  ASSUME StreamIInv, StreamTypes', link' = "aborted",
         UNCHANGED <<mode, frames, compressing, sent, delivered, fault>>,
         fault # NULL
  PROVE  StreamIInv'
<1>1. Sure' = Sure
  BY AwaitedKept
<1>2. Faithful'
  BY <1>1 DEF StreamIInv, Faithful
<1>3. Flowing'
  BY DEF Flowing
<1> QED BY <1>2, <1>3 DEF StreamIInv

\* What is read follows what is held.
LEMMA ReadOn ==
  ASSUME StreamTypes, NEW n \in 1 .. Len(bytes), Taken(n)
  PROVE  /\ SubSeq(bytes, 1, n) \in Seq(Byte) /\ Len(SubSeq(bytes, 1, n)) = n
         /\ bytes' \in Seq(Byte) /\ bytes # <<>>
         /\ (Held \o SubSeq(bytes, 1, n)) \o bytes' = Pending
<1>1. PICK h \in Seq(Byte), b \in Seq(Byte) : h = Held /\ b = bytes
  BY HeldType DEF StreamTypes
<1>2. n \in 0 .. Len(b) /\ b # <<>>
  BY <1>1
<1>3. /\ SubSeq(b, 1, n) \in Seq(Byte) /\ Len(SubSeq(b, 1, n)) = n
      /\ SubSeq(b, n + 1, Len(b)) \in Seq(Byte)
      /\ (h \o SubSeq(b, 1, n)) \o SubSeq(b, n + 1, Len(b)) = h \o b
  BY <1>2, Onto, Zenon
<1>4. bytes' = SubSeq(b, n + 1, Len(b))
  BY <1>1, SMTT(20) DEF Taken
<1> QED BY <1>1, <1>2, <1>3, <1>4, Zenon DEF Pending

\* The front of the pending bytes is the front of the next packet.
LEMMA FrontOf ==
  ASSUME NEW q \in Seq(Byte), NEW u \in Seq(Byte), NEW v \in Seq(Byte), q = u \o v,
         NEW c \in Nat, c <= Len(q), Len(u) <= c
  PROVE  /\ SubSeq(SubSeq(q, 1, c), 1, Len(u)) = u
         /\ Len(u) = c => /\ SubSeq(q, 1, c) = u
                          /\ SubSeq(q, c + 1, Len(q)) = v
<1>1. Len(u) \in Nat /\ Len(v) \in Nat
  OBVIOUS
<1>2. SubSeq(q, 1, Len(u)) = u /\ SubSeq(q, Len(u) + 1, Len(q)) = v
  BY Joined, FrontIs
<1>3. SubSeq(SubSeq(q, 1, c), 1, Len(u)) = SubSeq(q, 1, Len(u))
  <2>1. SubSeq(q, 1, c) \in Seq(Byte) /\ Len(SubSeq(q, 1, c)) = c
        /\ SubSeq(q, 1, c) \o SubSeq(q, c + 1, Len(q)) = q
        /\ SubSeq(q, c + 1, Len(q)) \in Seq(Byte)
    <3>1. c \in 0 .. Len(q) /\ <<>> \in Seq(Byte)
      OBVIOUS
    <3>2. (<<>> \o SubSeq(q, 1, c)) \o SubSeq(q, c + 1, Len(q)) = <<>> \o q
          /\ SubSeq(q, 1, c) \in Seq(Byte) /\ Len(SubSeq(q, 1, c)) = c
          /\ SubSeq(q, c + 1, Len(q)) \in Seq(Byte)
      BY <3>1, Onto
    <3>3. \A w \in Seq(Byte) : <<>> \o w = w
      OBVIOUS
    <3> QED BY <3>2, <3>3
  <2>2. PICK r \in Seq(Byte), s \in Seq(Byte) : r = SubSeq(q, 1, c) /\ Len(r) = c /\ r \o s = q
    BY <2>1
  <2>3. SubSeq(r \o s, 0 + 1, Len(u)) = SubSeq(r, 0 + 1, Len(u))
    <3>1. 0 \in Nat /\ 0 <= Len(u) /\ Len(u) <= Len(r)
      BY <1>1, <2>2
    <3> QED BY <1>1, <3>1, PartOfJoined
  <2>4. 0 + 1 = 1
    OBVIOUS
  <2> QED BY <2>2, <2>3, <2>4
<1> QED BY <1>2, <1>3, Zenon

LEMMA HeadIs ==
  ASSUME NEW h \in Seq(Byte), Len(h) = HeaderSize
  PROVE  /\ PayloadSize(h) \in Nat /\ Command(h) \in Byte /\ h[6] \in Byte
         /\ IsCompressed(h) \in BOOLEAN
<1>1. 2 \in Nat \ {0} /\ 4 \in Nat \ {0} /\ 2 + 1 = 3 /\ 4 + 1 = 5
      /\ 2 + 1 <= Len(h) /\ 4 + 1 <= Len(h)
  BY DEF HeaderSize
<1>2. Number(SubSeq(h, 2, 3)) \in 0 .. Word - 1 /\ Number(SubSeq(h, 4, 5)) \in 0 .. Word - 1
  BY <1>1, PartPair
<1>3. PICK x \in Nat, y \in Nat : x = Number(SubSeq(h, 2, 3)) /\ y = Number(SubSeq(h, 4, 5))
  BY <1>2
<1>4. Word \in Nat
  BY PartsOfWords, 0 \in Nat
<1>5. x + Word * y \in Nat
  BY <1>3, <1>4
<1>6. PayloadSize(h) \in Nat
  BY <1>3, <1>5 DEF PayloadSize
<1>7. h[6] \in Byte
  <2>1. 6 \in 1 .. Len(h)
    BY DEF HeaderSize
  <2>2. \A i \in 1 .. Len(h) : h[i] \in Byte
    OBVIOUS
  <2> QED BY <2>1, <2>2, Zenon
<1>8. PICK b \in Byte : b = h[6]
  BY <1>7
<1>9. b % Half \in Byte
  BY HalfOfByte, ByteBaseAssumption DEF Byte
<1>10. Command(h) \in Byte
  BY <1>8, <1>9 DEF Command
<1>11. IsCompressed(h) \in BOOLEAN
  BY DEF IsCompressed
<1> QED BY <1>6, <1>7, <1>10, <1>11

\* What is asked for is what the header or the payload lacks.
LEMMA Asking ==
  ASSUME StreamTypes, link = "open", NEW n \in 1 .. Asked
  PROVE  /\ n \in Nat \ {0}
         /\ receiver.fhdr => Len(receiver.body) + n <= PayloadSize(receiver.head)
         /\ ~receiver.fhdr => Len(receiver.head) + n <= HeaderSize
<1>1. Reading /\ receiver.head \in Seq(Byte) /\ receiver.body \in Seq(Byte)
  BY DEF StreamTypes
<1>2. MSS \in Nat \ {0} /\ HeaderSize \in Nat
  BY SocketAssumption DEF HeaderSize
<1>3. CASE receiver.fhdr
  <2>1. PayloadSize(receiver.head) \in Nat
    BY <1>1, <1>3, HeadIs DEF Reading
  <2>2. PICK x \in Nat, y \in Nat : x = PayloadSize(receiver.head) /\ y = Len(receiver.body)
    BY <1>1, <2>1
  <2>3. Asked = IF x - y > MSS THEN MSS ELSE x - y
    BY <1>3, <2>2 DEF Asked
  <2> QED BY <1>2, <1>3, <2>2, <2>3
<1>4. CASE ~receiver.fhdr
  <2>1. PICK y \in Nat : y = Len(receiver.head)
    BY <1>1
  <2>2. Asked = IF HeaderSize - y > MSS THEN MSS ELSE HeaderSize - y
    BY <1>4, <2>1 DEF Asked
  <2> QED BY <1>2, <1>4, <2>1, <2>2
<1> QED BY <1>3, <1>4

\* The receiver's three ways to end a step.
LEMMA AwaitTypes ==
  ASSUME StreamTypes, link = "open",
         UNCHANGED <<mode, frames, compressing, sent, delivered, link>>,
         bytes' \in Seq(Byte), fault' \in 1 .. sent \cup {NULL},
         receiver' \in [fhdr : BOOLEAN, head : Seq(Byte), body : Seq(Byte),
                        buffer : Seq(Byte)],
         mode = "sdk" => Len(receiver'.buffer) = HeaderSize, Reading'
  PROVE  StreamTypes' /\ Onwards(delivered, delivered')
<1>1. Onwards(delivered, delivered')
  BY HeldType DEF Onwards
<1>2. StreamTypes'
  BY DEF StreamTypes
<1> QED BY <1>1, <1>2

LEMMA HandTypes ==
  ASSUME StreamTypes, link = "open", UNCHANGED <<mode, frames, compressing, sent>>,
         bytes' \in Seq(Byte), fault' \in 1 .. sent \cup {NULL},
         NEW cmd \in Byte, NEW payload \in Seq(Byte), NEW buffer \in Seq(Byte),
         mode = "sdk" => Len(buffer) = HeaderSize, HandOver(cmd, payload, buffer)
  PROVE  /\ StreamTypes' /\ Onwards(delivered, delivered')
         /\ ~receiver'.fhdr /\ Held' = <<>> /\ link' = link
         /\ delivered' = Append(delivered, [cmd |-> cmd, payload |-> payload])
<1>1. receiver' = [fhdr |-> FALSE, head |-> <<>>, body |-> <<>>, buffer |-> buffer]
  BY DEF HandOver, Idle
<1>2. /\ receiver' \in [fhdr : BOOLEAN, head : Seq(Byte), body : Seq(Byte),
                        buffer : Seq(Byte)]
      /\ ~receiver'.fhdr /\ receiver'.head = <<>> /\ receiver'.body = <<>>
      /\ receiver'.buffer = buffer
  BY <1>1
<1>3. PICK f \in [cmd : Byte, payload : Seq(Byte)] : delivered' = Append(delivered, f)
  <2>1. [cmd |-> cmd, payload |-> payload] \in [cmd : Byte, payload : Seq(Byte)]
    OBVIOUS
  <2> QED BY <2>1 DEF HandOver
<1>4. delivered \in Seq([cmd : Byte, payload : Seq(Byte)])
  BY DEF StreamTypes
<1>5. delivered' \in Seq([cmd : Byte, payload : Seq(Byte)])
  BY <1>3, <1>4
<1>6. Onwards(delivered, delivered')
  BY <1>3, <1>4 DEF Onwards
<1>7. Reading'
  <2>1. Len(<<>>) < HeaderSize
    BY DEF HeaderSize
  <2> QED BY <1>2, <2>1 DEF Reading
<1>8. StreamTypes'
  BY <1>2, <1>5, <1>7 DEF StreamTypes, HandOver
<1>9. Held' = <<>>
  <2>1. <<>> \o <<>> = <<>>
    OBVIOUS
  <2> QED BY <1>2, <2>1 DEF Held
<1> QED BY <1>2, <1>6, <1>8, <1>9 DEF HandOver

LEMMA AbortTypes ==
  ASSUME StreamTypes, link = "open", UNCHANGED <<mode, frames, compressing, sent>>,
         bytes' \in Seq(Byte), fault' \in 1 .. sent \cup {NULL}, Abort
  PROVE  StreamTypes' /\ Onwards(delivered, delivered') /\ link' = "aborted"
         /\ delivered' = delivered
<1>1. receiver' = [fhdr |-> FALSE, head |-> <<>>, body |-> <<>>, buffer |-> <<>>]
  BY DEF Abort, Idle
<1>2. receiver' \in [fhdr : BOOLEAN, head : Seq(Byte), body : Seq(Byte),
                     buffer : Seq(Byte)]
  BY <1>1
<1>3. Onwards(delivered, delivered')
  BY HeldType DEF Onwards, Abort
<1>4. StreamTypes'
  BY <1>2 DEF StreamTypes, Abort
<1> QED BY <1>3, <1>4 DEF Abort

LEMMA CompleteTypes ==
  ASSUME StreamTypes, link = "open", UNCHANGED <<mode, frames, compressing, sent>>,
         bytes' \in Seq(Byte), fault' \in 1 .. sent \cup {NULL}, mode # "sdk",
         NEW h \in Seq(Byte), NEW b \in Seq(Byte), Len(h) = HeaderSize, Complete(h, b)
  PROVE  StreamTypes' /\ Onwards(delivered, delivered')
<1>1. PICK plain : plain = DecryptMessage(Command(h), b, IsCompressed(h))
  OBVIOUS
<1>2. plain \in Seq(Byte) \cup {NULL} /\ Command(h) \in Byte /\ <<>> \in Seq(Byte)
  BY <1>1, HeadIs, DecryptType
<1>3. CASE Abort
  BY <1>3, AbortTypes
<1>4. CASE plain # NULL /\ HandOver(Command(h), plain, <<>>)
  BY <1>2, <1>4, HandTypes
<1> QED BY <1>1, <1>3, <1>4 DEF Complete

LEMMA HeaderTypes ==
  ASSUME StreamTypes, link = "open", mode # "sdk",
         UNCHANGED <<mode, frames, compressing, sent, fault>>, bytes' \in Seq(Byte),
         ~receiver.fhdr, NEW p \in Seq(Byte),
         Len(receiver.head) + Len(p) <= HeaderSize, StageHeader(p)
  PROVE  StreamTypes' /\ Onwards(delivered, delivered')
<1>0. /\ receiver \in [fhdr : BOOLEAN, head : Seq(Byte), body : Seq(Byte),
                       buffer : Seq(Byte)]
      /\ receiver.head \in Seq(Byte) /\ receiver.body = <<>>
      /\ fault' \in 1 .. sent \cup {NULL}
  BY DEF StreamTypes, Reading
<1>1. PICK h \in Seq(Byte) : /\ h = receiver.head \o p
                             /\ Len(h) = Len(receiver.head) + Len(p)
  BY <1>0, Joined
<1>2. Len(h) <= HeaderSize /\ Len(h) \in Nat
  BY <1>1
<1>3. CASE Abort
  BY <1>0, <1>3, AbortTypes
<1>4. CASE Len(h) < HeaderSize /\ Await([receiver EXCEPT !.head = h])
  <2>1. receiver' = [receiver EXCEPT !.head = h] /\ UNCHANGED <<delivered, link>>
    BY <1>4 DEF Await
  <2>2. /\ receiver' \in [fhdr : BOOLEAN, head : Seq(Byte), body : Seq(Byte),
                          buffer : Seq(Byte)]
        /\ receiver'.head = h /\ receiver'.body = <<>> /\ ~receiver'.fhdr
    BY <1>0, <2>1
  <2>3. Reading'
    BY <1>4, <2>2 DEF Reading
  <2> QED BY <1>0, <2>1, <2>2, <2>3, AwaitTypes
<1>5. CASE /\ ~(Len(h) < HeaderSize)
           /\ \/ Await([receiver EXCEPT !.fhdr = TRUE, !.head = h])
              \/ Complete(h, <<>>)
  <2>1. Len(h) = HeaderSize
    <3>1. ~(Len(h) < HeaderSize)
      BY <1>5, Zenon
    <3>2. HeaderSize \in Nat
      BY DEF HeaderSize
    <3> QED BY <1>2, <3>1, <3>2, NotBelow, Zenon
  <2>2. CASE Await([receiver EXCEPT !.fhdr = TRUE, !.head = h])
    <3>1. /\ receiver' = [receiver EXCEPT !.fhdr = TRUE, !.head = h]
          /\ UNCHANGED <<delivered, link>>
      BY <2>2 DEF Await
    <3>2. /\ receiver' \in [fhdr : BOOLEAN, head : Seq(Byte), body : Seq(Byte),
                            buffer : Seq(Byte)]
          /\ receiver'.head = h /\ receiver'.fhdr
      BY <1>0, <3>1
    <3>3. Reading'
      BY <2>1, <3>2 DEF Reading
    <3> QED BY <1>0, <3>1, <3>2, <3>3, AwaitTypes
  <2>3. CASE Complete(h, <<>>)
    <3>1. <<>> \in Seq(Byte)
      OBVIOUS
    <3> QED BY <1>0, <2>1, <2>3, <3>1, CompleteTypes
  <2> QED BY <1>5, <2>2, <2>3
<1> QED BY <1>1, <1>3, <1>4, <1>5, Zenon DEF StageHeader

LEMMA PayloadTypes ==
  ASSUME StreamTypes, link = "open", mode # "sdk",
         UNCHANGED <<mode, frames, compressing, sent, fault>>, bytes' \in Seq(Byte),
         receiver.fhdr, NEW p \in Seq(Byte), StagePayload(p)
  PROVE  StreamTypes' /\ Onwards(delivered, delivered')
<1>0. /\ receiver \in [fhdr : BOOLEAN, head : Seq(Byte), body : Seq(Byte),
                       buffer : Seq(Byte)]
      /\ receiver.head \in Seq(Byte) /\ receiver.body \in Seq(Byte)
      /\ Len(receiver.head) = HeaderSize /\ fault' \in 1 .. sent \cup {NULL}
  BY DEF StreamTypes, Reading
<1>1. PICK b \in Seq(Byte) : b = receiver.body \o p
  BY <1>0, Joined
<1>2. CASE Await([receiver EXCEPT !.body = b])
  <2>1. receiver' = [receiver EXCEPT !.body = b] /\ UNCHANGED <<delivered, link>>
    BY <1>2 DEF Await
  <2>2. /\ receiver' \in [fhdr : BOOLEAN, head : Seq(Byte), body : Seq(Byte),
                          buffer : Seq(Byte)]
        /\ receiver'.head = receiver.head /\ receiver'.fhdr
    BY <1>0, <2>1
  <2>3. Reading'
    BY <1>0, <2>2 DEF Reading
  <2> QED BY <1>0, <2>1, <2>2, <2>3, AwaitTypes
<1>3. CASE Complete(receiver.head, b)
  BY <1>0, <1>3, CompleteTypes
<1> QED BY <1>1, <1>2, <1>3 DEF StagePayload

LEMMA OverwrittenIs ==
  ASSUME StreamTypes, NEW p \in Seq(Byte), Len(receiver.buffer) = HeaderSize
  PROVE  /\ Overwritten(p) \in Seq(Byte) /\ Len(Overwritten(p)) = HeaderSize
         /\ Len(p) = HeaderSize => Overwritten(p) = p
<1>1. receiver.buffer \in Seq(Byte)
  BY DEF StreamTypes
<1>2. PICK q \in Seq(Byte) : q = receiver.buffer /\ Len(q) = HeaderSize
  BY <1>1
<1>3. Overwritten(p) = [i \in 1 .. HeaderSize |-> IF i <= Len(p) THEN p[i] ELSE q[i]]
  BY <1>2 DEF Overwritten
<1>4. \A i \in 1 .. HeaderSize : (IF i <= Len(p) THEN p[i] ELSE q[i]) \in Byte
  BY <1>2 DEF HeaderSize
<1>5. HeaderSize \in Nat
  BY DEF HeaderSize
<1>6. Overwritten(p) \in Seq(Byte) /\ Len(Overwritten(p)) = HeaderSize
  BY <1>3, <1>4, <1>5
<1>7. ASSUME Len(p) = HeaderSize PROVE Overwritten(p) = p
  <2>1. \A i \in 1 .. Len(p) : Overwritten(p)[i] = p[i]
    BY <1>3, <1>7
  <2> QED BY <1>6, <1>7, <2>1, SameSequence
<1> QED BY <1>6, <1>7

LEMMA SdkHeaderTypes ==
  ASSUME StreamTypes, link = "open", mode = "sdk",
         UNCHANGED <<mode, frames, compressing, sent>>, bytes' \in Seq(Byte),
         fault' \in 1 .. sent \cup {NULL}, NEW p \in Seq(Byte), SdkHeader(p)
  PROVE  StreamTypes' /\ Onwards(delivered, delivered')
<1>1. PICK h \in Seq(Byte) : h = Overwritten(p) /\ Len(h) = HeaderSize
  BY OverwrittenIs DEF StreamTypes
<1>2. h[6] \in Byte /\ <<>> \in Seq(Byte)
  BY <1>1, HeadIs
<1>3. CASE Abort
  BY <1>3, AbortTypes
<1>4. CASE Await([fhdr |-> TRUE, head |-> h, body |-> <<>>, buffer |-> h])
  <2>1. /\ receiver' = [fhdr |-> TRUE, head |-> h, body |-> <<>>, buffer |-> h]
        /\ UNCHANGED <<delivered, link>>
    BY <1>4 DEF Await
  <2>2. /\ receiver' \in [fhdr : BOOLEAN, head : Seq(Byte), body : Seq(Byte),
                          buffer : Seq(Byte)]
        /\ receiver'.head = h /\ receiver'.fhdr /\ receiver'.buffer = h
    BY <2>1
  <2>3. Reading' /\ Len(receiver'.buffer) = HeaderSize
    BY <1>1, <2>2 DEF Reading
  <2> QED BY <2>1, <2>2, <2>3, AwaitTypes
<1>5. CASE HandOver(h[6], <<>>, h)
  BY <1>1, <1>2, <1>5, HandTypes
<1> QED BY <1>1, <1>3, <1>4, <1>5 DEF SdkHeader

LEMMA SdkPayloadTypes ==
  ASSUME StreamTypes, link = "open", mode = "sdk",
         UNCHANGED <<mode, frames, compressing, sent>>, bytes' \in Seq(Byte),
         fault' \in 1 .. sent \cup {NULL}, receiver.fhdr, NEW p \in Seq(Byte),
         SdkPayload(p)
  PROVE  StreamTypes' /\ Onwards(delivered, delivered')
<1>0. /\ receiver \in [fhdr : BOOLEAN, head : Seq(Byte), body : Seq(Byte),
                       buffer : Seq(Byte)]
      /\ receiver.head \in Seq(Byte) /\ receiver.body \in Seq(Byte)
      /\ Len(receiver.head) = HeaderSize
  BY DEF StreamTypes, Reading
<1>1. PICK b \in Seq(Byte), o \in Seq(Byte) :
        b = receiver.body \o p /\ o = Overwritten(p) /\ Len(o) = HeaderSize
  <2>1. receiver.body \o p \in Seq(Byte)
    BY <1>0, Joined
  <2>2. Overwritten(p) \in Seq(Byte) /\ Len(Overwritten(p)) = HeaderSize
    BY OverwrittenIs DEF StreamTypes
  <2> QED BY <2>1, <2>2
<1>2. CASE Await([receiver EXCEPT !.body = b, !.buffer = o])
  <2>1. receiver' = [receiver EXCEPT !.body = b, !.buffer = o] /\ UNCHANGED <<delivered, link>>
    BY <1>2 DEF Await
  <2>2. /\ receiver' \in [fhdr : BOOLEAN, head : Seq(Byte), body : Seq(Byte),
                          buffer : Seq(Byte)]
        /\ receiver'.head = receiver.head /\ receiver'.fhdr /\ receiver'.buffer = o
    BY <1>0, <2>1
  <2>3. Reading' /\ Len(receiver'.buffer) = HeaderSize
    BY <1>0, <1>1, <2>2 DEF Reading
  <2> QED BY <2>1, <2>2, <2>3, AwaitTypes
<1>3. CASE HandOver(receiver.head[6], b, o)
  <2>1. receiver.head[6] \in Byte
    BY <1>0, HeadIs
  <2> QED BY <1>1, <1>3, <2>1, HandTypes
<1> QED BY <1>1, <1>2, <1>3 DEF SdkPayload

LEMMA FrameIs ==
  ASSUME StreamTypes, NEW i \in 1 .. Len(frames)
  PROVE  frames[i] = [cmd |-> frames[i].cmd, payload |-> frames[i].payload]
<1>1. frames \in Seq([cmd : 0 .. Half - 1, payload : Seq(Byte)])
  BY StreamsAssumption DEF StreamTypes
<1>2. frames[i] \in [cmd : 0 .. Half - 1, payload : Seq(Byte)]
  <2>1. \A S, s : s \in Seq(S) => \A j \in 1 .. Len(s) : s[j] \in S
    OBVIOUS
  <2> QED BY <1>1, <2>1, Zenon
<1> QED BY <1>2

\* The receiver's header is the header of the next packet.
LEMMA Fronted ==
  ASSUME StreamIInv, NEW c, NEW cut, Next1st(c, cut), NEW h \in Seq(Byte),
         NEW b \in Seq(Byte), NEW v \in Seq(Byte), Len(h) = HeaderSize,
         Pending = h \o (b \o v)
  PROVE  /\ SubSeq(SubSeq(Pending, 1, c), 1, HeaderSize) = h
         /\ c = HeaderSize + PayloadSize(h)
         /\ Len(b) = PayloadSize(h) => /\ SubSeq(Pending, 1, c) = h \o b
                                       /\ SubSeq(Pending, c + 1, Len(Pending)) = v
<1>0. /\ SubSeq(Pending, 1, Len(h) + Len(b)) = h \o b
      /\ SubSeq(Pending, Len(h) + Len(b) + 1, Len(Pending)) = v
  <2>1. /\ SubSeq(h \o (b \o v), 1, Len(h) + Len(b)) = h \o b
        /\ SubSeq(h \o (b \o v), Len(h) + Len(b) + 1, Len(h \o (b \o v))) = v
    BY FrontAndRest, ZenonT(60)
  <2> QED BY <2>1, Zenon
<1>1. PICK q \in Seq(Byte) : q = Pending
  BY HeldType DEF StreamIInv
<1>2. PICK w \in Seq(Byte) : w = b \o v
  BY Joined
<1>3. c \in Nat /\ c <= Len(q) /\ HeaderSize <= c
  BY <1>1 DEF Next1st
<1>4. SubSeq(SubSeq(q, 1, c), 1, Len(h)) = h
  BY <1>1, <1>2, <1>3, FrontOf
<1>5. PICK p \in Seq(Byte) : /\ p = SubSeq(q, 1, c) /\ Len(p) = c
                             /\ PayloadSize(SubSeq(p, 1, HeaderSize)) = Len(p) - HeaderSize
  <2>1. SubSeq(q, 1, c) \in Seq(Byte) /\ Len(SubSeq(q, 1, c)) = c
    BY <1>1 DEF Next1st
  <2>2. PICK d : d = Len(delivered) + 1
    OBVIOUS
  <2>3. PICK f : f = frames[d]
    OBVIOUS
  <2>4. Framed(SubSeq(q, 1, c), f) \/ Forged(SubSeq(q, 1, c))
    BY <1>1, <2>2, <2>3 DEF Next1st
  <2> QED BY <2>1, <2>4 DEF Framed, Forged
<1>6. PayloadSize(h) = c - HeaderSize
  BY <1>4, <1>5
<1>7. c = HeaderSize + PayloadSize(h)
  BY <1>3, <1>6 DEF HeaderSize
<1>8. ASSUME Len(b) = PayloadSize(h)
      PROVE  SubSeq(q, 1, c) = h \o b /\ SubSeq(q, c + 1, Len(q)) = v
  <2>1. c = Len(h) + Len(b)
    BY <1>3, <1>7, <1>8
  <2> QED BY <1>0, <1>1, <2>1, Zenon
<1> QED BY <1>1, <1>4, <1>7, <1>8

\* A frame that was followed is given up if a byte of it was changed, only.
LEMMA GivenUp ==
  ASSUME StreamIInv, link = "open", Len(delivered) + 1 = fault,
         UNCHANGED <<mode, frames, compressing, sent, fault>>, bytes' \in Seq(Byte), Abort
  PROVE  StreamIInv'
<1>1. Len(delivered) \in Nat /\ StreamTypes
  BY HeldType DEF StreamIInv
<1>2. fault # NULL
  BY <1>1, NullAssumption
<1>3. fault' \in 1 .. sent \cup {NULL}
  BY <1>1 DEF StreamTypes
<1>4. StreamTypes' /\ link' = "aborted" /\ delivered' = delivered
  BY <1>1, <1>3, AbortTypes
<1> QED BY <1>2, <1>4, AbortKeeps

LEMMA HandedOver ==
  ASSUME StreamIInv, link = "open", Len(delivered) < Followed,
         UNCHANGED <<mode, frames, compressing, sent, fault>>,
         NEW c, NEW cut, Next1st(c, cut), Len(delivered) + 1 # fault,
         bytes' = SubSeq(Pending, c + 1, Len(Pending)), bytes' \in Seq(Byte),
         NEW cmd, NEW payload, NEW buffer \in Seq(Byte),
         mode = "sdk" => Len(buffer) = HeaderSize,
         cmd = frames[Len(delivered) + 1].cmd,
         payload = frames[Len(delivered) + 1].payload,
         HandOver(cmd, payload, buffer)
  PROVE  StreamIInv'
<1>0. StreamTypes
  BY DEF StreamIInv
<1>1. /\ Len(delivered) \in Nat /\ Followed \in 0 .. sent /\ sent \in 0 .. Len(frames)
      /\ Len(frames) \in Nat
  BY <1>0, HeldType DEF StreamTypes
<1>2. PICK i \in 1 .. Len(frames) : i = Len(delivered) + 1
  BY <1>1
<1>3. /\ frames[i].cmd \in 0 .. Half - 1 /\ frames[i].payload \in Seq(Byte)
      /\ frames[i] = [cmd |-> frames[i].cmd, payload |-> frames[i].payload]
  BY <1>0, FrameOf, FrameIs
<1>4. cmd \in Byte /\ payload \in Seq(Byte) /\ frames[i] = [cmd |-> cmd, payload |-> payload]
  BY <1>2, <1>3, CommandParts
<1>5. fault' \in 1 .. sent \cup {NULL}
  BY <1>0 DEF StreamTypes
<1>6. /\ StreamTypes' /\ ~receiver'.fhdr /\ Held' = <<>> /\ link' = link
      /\ delivered' = Append(delivered, [cmd |-> cmd, payload |-> payload])
  BY <1>0, <1>4, <1>5, HandTypes
<1> QED BY <1>2, <1>4, <1>6, HandKeeps

LEMMA Completing ==
  ASSUME StreamIInv, link = "open", Len(delivered) < Followed, mode # "sdk",
         UNCHANGED <<mode, frames, compressing, sent, fault>>,
         NEW c, NEW cut, Next1st(c, cut), NEW h \in Seq(Byte), NEW b \in Seq(Byte),
         NEW v \in Seq(Byte), Len(h) = HeaderSize, Pending = h \o (b \o v),
         Len(b) = PayloadSize(h), bytes' = v, Complete(h, b)
  PROVE  StreamIInv'
<1>1. PICK p : p = SubSeq(Pending, 1, c)
  OBVIOUS
<1>2. p = h \o b /\ bytes' = SubSeq(Pending, c + 1, Len(Pending)) /\ bytes' \in Seq(Byte)
  BY <1>1, Fronted
<1>3. SubSeq(p, 1, HeaderSize) = h /\ SubSeq(p, HeaderSize + 1, Len(p)) = b
  <2>1. SubSeq(h \o b, 1, Len(h)) = h
    BY Joined
  <2>2. SubSeq(h \o b, Len(h) + 1, Len(h \o b)) = b
    BY FrontIs
  <2> QED BY <1>2, <2>1, <2>2, Zenon
<1>4. CASE Len(delivered) + 1 = fault
  <2>1. mode = "outer" /\ Forged(p)
    BY <1>1, <1>4 DEF Next1st
  <2>2. ~CheckingMaskOff(h, b)
    BY <1>3, <2>1 DEF Forged
  <2>3. Abort
    BY <2>1, <2>2 DEF Complete
  <2> QED BY <1>2, <1>4, <2>3, GivenUp
<1>5. CASE Len(delivered) + 1 # fault
  <2>1. PICK f : f = frames[Len(delivered) + 1]
    OBVIOUS
  <2>2. Framed(p, f)
    BY <1>1, <1>5, <2>1 DEF Next1st
  <2>3. /\ mode = "outer" => CheckingMaskOff(h, b)
        /\ Command(h) = f.cmd /\ DecryptMessage(f.cmd, b, IsCompressed(h)) = f.payload
        /\ f.payload # NULL
    BY <1>3, <2>2 DEF Framed
  <2>4. HandOver(f.cmd, f.payload, <<>>)
    BY <2>3 DEF Complete
  <2>5. <<>> \in Seq(Byte)
    OBVIOUS
  <2> QED BY <1>2, <1>5, <2>1, <2>4, <2>5, HandedOver
<1> QED BY <1>4, <1>5

LEMMA HeaderKeeps ==
  ASSUME StreamIInv, link = "open", Len(delivered) < Followed, mode # "sdk",
         UNCHANGED <<mode, frames, compressing, sent, fault>>, bytes' \in Seq(Byte),
         NEW c, NEW cut, Next1st(c, cut), ~receiver.fhdr,
         NEW p \in Seq(Byte), p # <<>>, Len(receiver.head) + Len(p) <= HeaderSize,
         (Held \o p) \o bytes' = Pending, StageHeader(p)
  PROVE  StreamIInv'
<1>0. StreamTypes /\ StreamTypes'
  BY HeaderTypes DEF StreamIInv
<1>1. /\ receiver \in [fhdr : BOOLEAN, head : Seq(Byte), body : Seq(Byte),
                       buffer : Seq(Byte)]
      /\ receiver.head \in Seq(Byte) /\ receiver.body = <<>>
  BY <1>0 DEF StreamTypes, Reading
<1>2. Held = receiver.head
  <2>1. \A q \in Seq(Byte) : q \o <<>> = q
    OBVIOUS
  <2> QED BY <1>1, <2>1 DEF Held
<1>3. PICK h \in Seq(Byte) : /\ h = receiver.head \o p
                             /\ Len(h) = Len(receiver.head) + Len(p)
  BY <1>1, Joined, ZenonT(60)
<1>4. PICK v \in Seq(Byte) : v = bytes'
  OBVIOUS
<1>5. PICK q \in Seq(Byte) : q = Pending /\ q = h \o v
  <2>1. Pending \in Seq(Byte)
    BY <1>0, HeldType
  <2> QED BY <1>2, <1>3, <1>4, <2>1
<1>6. Len(h) <= HeaderSize /\ Len(h) \in Nat /\ HeaderSize \in Nat
  BY <1>3 DEF HeaderSize
<1>7. c \in Nat /\ HeaderSize <= c /\ c <= Len(q)
  BY <1>5 DEF Next1st
<1>8. PICK P \in Seq(Byte) : P = SubSeq(q, 1, c) /\ Len(P) = c
  BY <1>5 DEF Next1st
<1>9. SubSeq(P, 1, Len(h)) = h
  <2>1. Len(h) <= c
    BY <1>6, <1>7
  <2> QED BY <1>5, <1>7, <1>8, <2>1, FrontOf
<1>10. PICK e, f : e = <<>> /\ f = frames[Len(delivered) + 1]
  OBVIOUS
<1>e. e \in Seq(Byte)
  BY <1>10, EmptyOne, Zenon
<1>11. Len(delivered) + 1 # fault => Framed(P, f)
  BY <1>5, <1>8, <1>10 DEF Next1st
<1>12. CASE receiver.head = <<>> /\ p[1] # Fk /\ Abort
  <2>1. h = p /\ Len(p) \in Nat \ {0}
    <3>1. \A s \in Seq(Byte) : <<>> \o s = s
      OBVIOUS
    <3> QED BY <1>3, <1>12, <3>1
  <2>2. P[1] = p[1]
    <3>1. SubSeq(P, 1, Len(p))[1] = P[1]
      BY <1>6, <1>7, <1>8, <2>1
    <3> QED BY <1>9, <2>1, <3>1
  <2>3. Len(delivered) + 1 = fault
    BY <1>11, <1>12, <2>2 DEF Framed
  <2> QED BY <1>12, <2>3, GivenUp
<1>13. CASE Len(h) < HeaderSize /\ Await([receiver EXCEPT !.head = h])
  <2>1. receiver' = [receiver EXCEPT !.head = h] /\ UNCHANGED <<delivered, link>>
    BY <1>13 DEF Await
  <2>2. receiver'.head = h /\ receiver'.body = <<>> /\ ~receiver'.fhdr
    BY <1>1, <2>1
  <2>3. Pending' = Pending
    <3>1. h \o <<>> = h
      OBVIOUS
    <3> QED BY <1>4, <1>5, <2>2, <3>1 DEF Pending, Held
  <2>4. Amid(c)'
    BY <2>2 DEF Amid
  <2> QED BY <1>0, <2>1, <2>3, <2>4, AwaitKeeps
<1>14. CASE /\ ~(Len(h) < HeaderSize)
            /\ IF mode = "outer" /\ Mask(h) \notin Masks THEN Abort
               ELSE IF PayloadSize(h) > 0
                 THEN Await([receiver EXCEPT !.fhdr = TRUE, !.head = h])
               ELSE Complete(h, <<>>)
  <2>1. Len(h) = HeaderSize
    <3>1. ~(Len(h) < HeaderSize)
      BY <1>14, Zenon
    <3> QED BY <1>6, <3>1, NotBelow, Zenon
  <2>3. Pending = h \o (e \o v)
    <3>1. \A s \in Seq(Byte) : <<>> \o s = s
      OBVIOUS
    <3> QED BY <1>5, <1>10, <1>e, <3>1
  <2>4. SubSeq(P, 1, HeaderSize) = h /\ c = HeaderSize + PayloadSize(h)
    <3>1. SubSeq(SubSeq(Pending, 1, c), 1, HeaderSize) = h /\ c = HeaderSize + PayloadSize(h)
      BY <1>e, <2>1, <2>3, Fronted
    <3> QED BY <1>5, <1>8, <3>1
  <2>5. CASE mode = "outer" /\ Mask(h) \notin Masks /\ Abort
    <3>1. Len(delivered) + 1 = fault
      BY <1>11, <2>4, <2>5 DEF Framed
    <3> QED BY <2>5, <3>1, GivenUp
  <2>6. CASE PayloadSize(h) > 0 /\ Await([receiver EXCEPT !.fhdr = TRUE, !.head = h])
    <3>1. /\ receiver' = [receiver EXCEPT !.fhdr = TRUE, !.head = h]
          /\ UNCHANGED <<delivered, link>>
      BY <2>6 DEF Await
    <3>2. receiver'.head = h /\ receiver'.body = <<>>
      BY <1>1, <3>1
    <3>3. Pending' = Pending
      <4>1. h \o <<>> = h
        OBVIOUS
      <4> QED BY <1>4, <1>5, <3>2, <4>1 DEF Pending, Held
    <3>4. Amid(c)'
      <4>1. PayloadSize(h) \in Nat
        BY <2>1, HeadIs
      <4>2. 0 < c - HeaderSize
        BY <2>4, <2>6, <4>1 DEF HeaderSize
      <4>3. Len(<<>>) = 0
        OBVIOUS
      <4> QED BY <3>2, <4>2, <4>3 DEF Amid
    <3> QED BY <1>0, <3>1, <3>3, <3>4, AwaitKeeps
  <2>7. CASE ~(PayloadSize(h) > 0) /\ Complete(h, <<>>)
    <3>1. Len(e) = PayloadSize(h)
      <4>1. PayloadSize(h) \in Nat
        BY <2>1, HeadIs
      <4> QED BY <1>10, <2>7, <4>1
    <3>2. Complete(h, e)
      BY <1>10, <2>7
    <3> QED BY <1>4, <1>e, <2>1, <2>3, <3>1, <3>2, Completing
  <2> QED BY <1>14, <2>5, <2>6, <2>7, Zenon
<1> QED BY <1>3, <1>12, <1>13, <1>14, Zenon DEF StageHeader

\* What is held of a packet whose header is in.
LEMMA PayloadIn ==
  ASSUME StreamIInv, link = "open", Len(delivered) < Followed, bytes' \in Seq(Byte),
         NEW c, NEW cut, Next1st(c, cut), receiver.fhdr, NEW p \in Seq(Byte),
         Len(receiver.body) + Len(p) <= PayloadSize(receiver.head),
         (Held \o p) \o bytes' = Pending
  PROVE  \E h, b \in Seq(Byte) :
           /\ h = receiver.head /\ b = receiver.body \o p
           /\ Len(h) = HeaderSize
           /\ Len(b) <= PayloadSize(h) /\ PayloadSize(h) \in Nat /\ Len(b) \in Nat
           /\ Pending = h \o (b \o bytes') /\ Pending = (h \o b) \o bytes'
           /\ c = HeaderSize + PayloadSize(h)
           /\ SubSeq(SubSeq(Pending, 1, c), 1, HeaderSize) = h
<1>1. PICK r \in Seq(Byte) : r = receiver.body
  BY DEF StreamIInv, StreamTypes
<1>2. PICK h \in Seq(Byte) : h = receiver.head /\ Len(h) = HeaderSize
  BY DEF StreamIInv, StreamTypes, Reading
<1>3. PICK b \in Seq(Byte) : b = r \o p /\ Len(b) = Len(r) + Len(p)
  BY <1>1, Joined, ZenonT(60)
<1>4. PayloadSize(h) \in Nat /\ Len(b) \in Nat
  BY <1>2, <1>3, HeadIs
<1>5. PICK v \in Seq(Byte) : v = bytes'
  OBVIOUS
<1>6. (h \o r) \o p = h \o b
  <2>1. (h \o r) \o p = h \o (r \o p)
    BY JoinedTwice, ZenonT(60)
  <2> QED BY <1>3, <2>1, Zenon
<1>7. (h \o b) \o v = h \o (b \o v)
  BY JoinedTwice, ZenonT(60)
<1>8. Pending = (h \o b) \o bytes' /\ Pending = h \o (b \o bytes')
  BY <1>1, <1>2, <1>5, <1>6, <1>7 DEF Held
<1>9. /\ c = HeaderSize + PayloadSize(h)
      /\ SubSeq(SubSeq(Pending, 1, c), 1, HeaderSize) = h
  BY <1>2, <1>3, <1>8, Fronted
<1>10. Len(b) <= PayloadSize(h)
  BY <1>1, <1>2, <1>3
<1> QED BY <1>1, <1>2, <1>3, <1>4, <1>8, <1>9, <1>10, Zenon

LEMMA PayloadKeeps ==
  ASSUME StreamIInv, link = "open", Len(delivered) < Followed, mode # "sdk",
         UNCHANGED <<mode, frames, compressing, sent, fault>>, bytes' \in Seq(Byte),
         NEW c, NEW cut, Next1st(c, cut), receiver.fhdr, NEW p \in Seq(Byte),
         Len(receiver.body) + Len(p) <= PayloadSize(receiver.head),
         (Held \o p) \o bytes' = Pending, StagePayload(p)
  PROVE  StreamIInv'
<1>0. StreamTypes /\ StreamTypes'
  BY PayloadTypes DEF StreamIInv
<1>1. PICK h \in Seq(Byte), b \in Seq(Byte) :
        /\ h = receiver.head /\ b = receiver.body \o p
        /\ Len(h) = HeaderSize
        /\ Len(b) <= PayloadSize(h) /\ PayloadSize(h) \in Nat /\ Len(b) \in Nat
        /\ Pending = h \o (b \o bytes') /\ Pending = (h \o b) \o bytes'
        /\ c = HeaderSize + PayloadSize(h)
        /\ SubSeq(SubSeq(Pending, 1, c), 1, HeaderSize) = h
  <2>1. \E h \in Seq(Byte), b \in Seq(Byte) :
           /\ h = receiver.head /\ b = receiver.body \o p
           /\ Len(h) = HeaderSize
           /\ Len(b) <= PayloadSize(h) /\ PayloadSize(h) \in Nat /\ Len(b) \in Nat
           /\ Pending = h \o (b \o bytes') /\ Pending = (h \o b) \o bytes'
           /\ c = HeaderSize + PayloadSize(h)
           /\ SubSeq(SubSeq(Pending, 1, c), 1, HeaderSize) = h
    BY PayloadIn
  <2> QED BY <2>1
<1>2. /\ Len(h) = HeaderSize
      /\ Len(b) <= PayloadSize(h) /\ PayloadSize(h) \in Nat /\ Len(b) \in Nat
      /\ Pending = h \o (b \o bytes') /\ Pending = (h \o b) \o bytes'
      /\ c = HeaderSize + PayloadSize(h)
  BY <1>1
<1>3. CASE Len(b) < PayloadSize(h) /\ Await([receiver EXCEPT !.body = b])
  <2>1. receiver' = [receiver EXCEPT !.body = b] /\ UNCHANGED <<delivered, link>>
    BY <1>3 DEF Await
  <2>2. receiver'.head = h /\ receiver'.body = b
    BY <1>0, <1>1, <2>1 DEF StreamTypes
  <2>3. Pending' = Pending
    BY <1>2, <2>2 DEF Pending, Held
  <2>4. Amid(c)'
    <3>1. c - HeaderSize = PayloadSize(h)
      BY <1>2 DEF HeaderSize
    <3> QED BY <1>3, <2>2, <3>1 DEF Amid
  <2> QED BY <1>0, <2>1, <2>3, <2>4, AwaitKeeps
<1>4. CASE ~(Len(b) < PayloadSize(h)) /\ Complete(h, b)
  <2>1. Len(b) = PayloadSize(h)
    <3>1. ~(Len(b) < PayloadSize(h))
      BY <1>4, Zenon
    <3> QED BY <1>2, <3>1, NotBelow, Zenon
  <2>2. PICK v \in Seq(Byte) : v = bytes'
    OBVIOUS
  <2>3. Pending = h \o (b \o v) /\ Complete(h, b)
    BY <1>2, <1>4, <2>2
  <2> QED BY <1>2, <2>1, <2>2, <2>3, Completing
<1> QED BY <1>1, <1>3, <1>4, Zenon DEF StagePayload

LEMMA StageKeeps ==
  ASSUME StreamIInv, StageReceive
  PROVE  StreamIInv'
<1>0. StreamTypes /\ link = "open" /\ mode # "sdk"
  BY DEF StreamIInv, StageReceive
<1>1. PICK n \in 1 .. Asked :
        /\ n <= Len(bytes) /\ Taken(n)
        /\ IF receiver.fhdr THEN StagePayload(SubSeq(bytes, 1, n))
           ELSE StageHeader(SubSeq(bytes, 1, n))
  BY DEF StageReceive
<1>2. /\ n \in Nat \ {0}
      /\ receiver.fhdr => Len(receiver.body) + n <= PayloadSize(receiver.head)
      /\ ~receiver.fhdr => Len(receiver.head) + n <= HeaderSize
  BY <1>0, Asking
<1>3. n \in 1 .. Len(bytes)
  BY <1>0, <1>1, <1>2 DEF StreamTypes
<1>4. PICK p \in Seq(Byte) : /\ p = SubSeq(bytes, 1, n) /\ Len(p) = n
                             /\ (Held \o p) \o bytes' = Pending
  BY <1>0, <1>1, <1>3, ReadOn
<1>5. bytes' \in Seq(Byte) /\ bytes # <<>> /\ p # <<>>
  <2>1. bytes' \in Seq(Byte) /\ bytes # <<>>
    BY <1>0, <1>1, <1>3, ReadOn
  <2>2. Len(p) # 0
    BY <1>2, <1>4
  <2>3. Len(<<>>) = 0
    OBVIOUS
  <2> QED BY <2>1, <2>2, <2>3
<1>6. /\ UNCHANGED <<mode, frames, compressing, sent, fault>>
      /\ UNCHANGED <<mode, frames, compressing, sent>>
  BY DEF StageReceive
<1>7. StreamTypes' /\ Onwards(delivered, delivered')
  <2>1. CASE receiver.fhdr
    <3>1. StagePayload(p)
      BY <1>1, <1>4, <2>1
    <3> QED BY <1>0, <1>5, <1>6, <2>1, <3>1, PayloadTypes
  <2>2. CASE ~receiver.fhdr
    <3>1. StageHeader(p) /\ Len(receiver.head) + Len(p) <= HeaderSize
      BY <1>1, <1>2, <1>4, <2>2
    <3> QED BY <1>0, <1>5, <1>6, <2>2, <3>1, HeaderTypes
  <2> QED BY <2>1, <2>2
<1>8. CASE ~(Len(delivered) < Followed)
  <2>1. fault \in 1 .. sent /\ mode # "outer" /\ fault <= Len(delivered) + 1
    BY <1>0, <1>5, <1>8, Lost
  <2>2. fault' \in 1 .. sent /\ fault' <= Len(delivered) + 1 /\ fault' <= fault
    BY <1>6, <2>1
  <2> QED BY <1>6, <1>7, <2>1, <2>2, Past
<1>9. CASE Len(delivered) < Followed
  <2>1. PICK c, cut : Next1st(c, cut)
    BY <1>0, <1>9, First
  <2>2. CASE receiver.fhdr
    <3>1. StagePayload(p) /\ Len(receiver.body) + Len(p) <= PayloadSize(receiver.head)
      BY <1>1, <1>2, <1>4, <2>2
    <3> QED BY <1>0, <1>4, <1>5, <1>6, <1>9, <2>1, <2>2, <3>1, PayloadKeeps
  <2>3. CASE ~receiver.fhdr
    <3>1. StageHeader(p) /\ Len(receiver.head) + Len(p) <= HeaderSize
      BY <1>1, <1>2, <1>4, <2>3
    <3> QED BY <1>0, <1>4, <1>5, <1>6, <1>9, <2>1, <2>3, <3>1, HeaderKeeps
  <2> QED BY <2>2, <2>3
<1> QED BY <1>8, <1>9

LEMMA SdkHeaderKeeps ==
  ASSUME StreamIInv, link = "open", Len(delivered) < Followed, mode = "sdk",
         UNCHANGED <<mode, frames, compressing, sent, fault>>, bytes' \in Seq(Byte),
         NEW c, NEW cut, Next1st(c, cut), ~receiver.fhdr,
         NEW h \in Seq(Byte), Len(h) = HeaderSize,
         (Held \o h) \o bytes' = Pending, SdkHeader(h)
  PROVE  StreamIInv'
<1>0. StreamTypes /\ fault' \in 1 .. sent \cup {NULL}
      /\ UNCHANGED <<mode, frames, compressing, sent>>
  BY DEF StreamIInv, StreamTypes
<1>1. StreamTypes'
  BY <1>0, SdkHeaderTypes
<1>2. Overwritten(h) = h
  BY <1>0, OverwrittenIs DEF StreamTypes
<1>3. PICK v \in Seq(Byte), e \in Seq(Byte) : v = bytes' /\ e = <<>>
  BY EmptyOne
<1>f. PICK f : f = frames[Len(delivered) + 1]
  OBVIOUS
<1>4. Held = <<>>
  <2>1. <<>> \o <<>> = <<>>
    OBVIOUS
  <2> QED BY <1>0, <2>1 DEF StreamTypes, Reading, Held
<1>5. Pending = h \o v /\ Pending = h \o (e \o v)
  <2>1. \A s \in Seq(Byte) : <<>> \o s = s
    OBVIOUS
  <2> QED BY <1>3, <1>4, <2>1
<1>6. PICK P : P = SubSeq(Pending, 1, c) /\ P \in Seq(Byte)
  BY DEF Next1st
<1>7. /\ SubSeq(P, 1, HeaderSize) = h /\ c = HeaderSize + PayloadSize(h)
      /\ Len(e) = PayloadSize(h) => P = h \o e /\ SubSeq(Pending, c + 1, Len(Pending)) = v
  BY <1>5, <1>6, Fronted, ZenonT(60)
<1>8. Len(delivered) + 1 # fault /\ Framed(P, f)
  BY <1>f, <1>6 DEF Next1st
<1>9. P[1] = Fk /\ ~IsNegative(h) /\ h[6] = f.cmd
      /\ SubSeq(P, HeaderSize + 1, Len(P)) = f.payload /\ Len(P) >= HeaderSize
  BY <1>7, <1>8 DEF Framed
<1>10. h[1] = Fk
  <2>1. SubSeq(P, 1, HeaderSize)[1] = P[1]
    BY <1>6, <1>9 DEF HeaderSize
  <2> QED BY <1>7, <1>9, <2>1
<1>11. CASE PayloadSize(h) > 0 /\ Await([fhdr |-> TRUE, head |-> h, body |-> <<>>, buffer |-> h])
  <2>1. /\ receiver' = [fhdr |-> TRUE, head |-> h, body |-> <<>>, buffer |-> h]
        /\ UNCHANGED <<delivered, link>>
    BY <1>11 DEF Await
  <2>2. receiver'.head = h /\ receiver'.body = <<>>
    BY <2>1
  <2>3. Pending' = Pending
    <3>1. h \o <<>> = h
      OBVIOUS
    <3> QED BY <1>3, <1>5, <2>2, <3>1 DEF Pending, Held
  <2>4. Amid(c)'
    <3>1. PayloadSize(h) \in Nat
      BY HeadIs
    <3>2. 0 < c - HeaderSize
      BY <1>7, <1>11, <3>1 DEF HeaderSize
    <3>3. Len(<<>>) = 0
      OBVIOUS
    <3> QED BY <2>2, <3>2, <3>3 DEF Amid
  <2> QED BY <1>1, <2>1, <2>3, <2>4, AwaitKeeps
<1>12. CASE ~(PayloadSize(h) > 0) /\ HandOver(h[6], <<>>, h)
  <2>1. Len(e) = PayloadSize(h)
    <3>1. PayloadSize(h) \in Nat
      BY HeadIs
    <3> QED BY <1>3, <1>12, <3>1
  <2>2. P = h \o e /\ bytes' = SubSeq(Pending, c + 1, Len(Pending))
    BY <1>3, <1>7, <2>1
  <2>3. e = f.payload
    <3>1. SubSeq(h \o e, Len(h) + 1, Len(h \o e)) = e
      BY FrontIs
    <3> QED BY <1>9, <2>2, <3>1, Zenon
  <2>4. PICK cmd, payload : cmd = h[6] /\ payload = e
    OBVIOUS
  <2>5. /\ cmd = frames[Len(delivered) + 1].cmd
        /\ payload = frames[Len(delivered) + 1].payload
        /\ HandOver(cmd, payload, h)
    BY <1>f, <1>3, <1>9, <1>12, <2>3, <2>4
  <2> QED BY <1>8, <2>2, <2>5, HandedOver
<1> QED BY <1>2, <1>9, <1>10, <1>11, <1>12 DEF SdkHeader

LEMMA SdkPayloadKeeps ==
  ASSUME StreamIInv, link = "open", Len(delivered) < Followed, mode = "sdk",
         UNCHANGED <<mode, frames, compressing, sent, fault>>, bytes' \in Seq(Byte),
         NEW c, NEW cut, Next1st(c, cut), receiver.fhdr, NEW p \in Seq(Byte),
         Len(receiver.body) + Len(p) <= PayloadSize(receiver.head),
         (Held \o p) \o bytes' = Pending, SdkPayload(p)
  PROVE  StreamIInv'
<1>0. StreamTypes /\ fault' \in 1 .. sent \cup {NULL}
      /\ UNCHANGED <<mode, frames, compressing, sent>>
  BY DEF StreamIInv, StreamTypes
<1>1. StreamTypes'
  BY <1>0, SdkPayloadTypes
<1>2. \E h \in Seq(Byte), b \in Seq(Byte) :
         /\ h = receiver.head /\ b = receiver.body \o p
         /\ Len(h) = HeaderSize
         /\ Len(b) <= PayloadSize(h) /\ PayloadSize(h) \in Nat /\ Len(b) \in Nat
         /\ Pending = h \o (b \o bytes') /\ Pending = (h \o b) \o bytes'
         /\ c = HeaderSize + PayloadSize(h)
         /\ SubSeq(SubSeq(Pending, 1, c), 1, HeaderSize) = h
  BY PayloadIn
<1>3. PICK h \in Seq(Byte), b \in Seq(Byte) :
         /\ h = receiver.head /\ b = receiver.body \o p
         /\ Len(h) = HeaderSize
         /\ Len(b) <= PayloadSize(h) /\ PayloadSize(h) \in Nat /\ Len(b) \in Nat
         /\ Pending = h \o (b \o bytes') /\ Pending = (h \o b) \o bytes'
         /\ c = HeaderSize + PayloadSize(h)
         /\ SubSeq(SubSeq(Pending, 1, c), 1, HeaderSize) = h
  BY <1>2
<1>4. PICK o \in Seq(Byte) : o = Overwritten(p) /\ Len(o) = HeaderSize
  <2>1. Overwritten(p) \in Seq(Byte) /\ Len(Overwritten(p)) = HeaderSize
    BY <1>0, OverwrittenIs DEF StreamTypes
  <2> QED BY <2>1
<1>5. CASE Len(b) < PayloadSize(h) /\ Await([receiver EXCEPT !.body = b, !.buffer = o])
  <2>1. /\ receiver' = [receiver EXCEPT !.body = b, !.buffer = o]
        /\ UNCHANGED <<delivered, link>>
    BY <1>5 DEF Await
  <2>2. receiver'.head = h /\ receiver'.body = b
    BY <1>0, <1>3, <2>1 DEF StreamTypes
  <2>3. Pending' = Pending
    BY <1>3, <2>2 DEF Pending, Held
  <2>4. Amid(c)'
    <3>1. c - HeaderSize = PayloadSize(h)
      BY <1>3 DEF HeaderSize
    <3> QED BY <1>5, <2>2, <3>1 DEF Amid
  <2> QED BY <1>1, <2>1, <2>3, <2>4, AwaitKeeps
<1>6. CASE ~(Len(b) < PayloadSize(h)) /\ HandOver(h[6], b, o)
  <2>1. Len(b) = PayloadSize(h)
    <3>1. ~(Len(b) < PayloadSize(h))
      BY <1>6, Zenon
    <3> QED BY <1>3, <3>1, NotBelow, Zenon
  <2>2. PICK v \in Seq(Byte) : v = bytes'
    OBVIOUS
  <2>f. PICK f : f = frames[Len(delivered) + 1]
    OBVIOUS
  <2>3. PICK P : P = SubSeq(Pending, 1, c)
    OBVIOUS
  <2>4. P = h \o b /\ bytes' = SubSeq(Pending, c + 1, Len(Pending))
        /\ SubSeq(P, 1, HeaderSize) = h
    <3>1. Pending = h \o (b \o v) /\ Len(h) = HeaderSize
      BY <1>3, <2>2
    <3>2. Len(b) = PayloadSize(h) => /\ SubSeq(Pending, 1, c) = h \o b
                                     /\ SubSeq(Pending, c + 1, Len(Pending)) = v
      BY <3>1, Fronted
    <3> QED BY <1>3, <2>1, <2>2, <2>3, <3>2
  <2>5. Len(delivered) + 1 # fault /\ Framed(P, f)
    BY <2>f, <2>3 DEF Next1st
  <2>6. h[6] = f.cmd /\ SubSeq(P, HeaderSize + 1, Len(P)) = f.payload
    BY <2>4, <2>5 DEF Framed
  <2>7. b = f.payload
    <3>1. SubSeq(h \o b, Len(h) + 1, Len(h \o b)) = b
      BY FrontIs
    <3>2. Len(h) = HeaderSize
      BY <1>3
    <3> QED BY <2>4, <2>6, <3>1, <3>2, Zenon
  <2>8. PICK cmd : cmd = h[6]
    OBVIOUS
  <2>9. /\ cmd = frames[Len(delivered) + 1].cmd
        /\ b = frames[Len(delivered) + 1].payload
        /\ HandOver(cmd, b, o)
    BY <1>6, <2>f, <2>6, <2>7, <2>8
  <2> QED BY <1>4, <2>4, <2>5, <2>9, HandedOver
<1> QED BY <1>3, <1>4, <1>5, <1>6 DEF SdkPayload

LEMMA SdkKeeps ==
  ASSUME StreamIInv, SdkReceive
  PROVE  StreamIInv'
<1>0. StreamTypes /\ link = "open" /\ mode = "sdk"
  BY DEF StreamIInv, SdkReceive
<1>1. PICK n \in 1 .. Asked :
        /\ n <= Len(bytes) /\ Taken(n)
        /\ IF receiver.fhdr THEN SdkPayload(SubSeq(bytes, 1, n))
           ELSE SdkHeader(SubSeq(bytes, 1, n))
        /\ fault' = IF receiver.fhdr \/ n = HeaderSize THEN fault
                    ELSE Since(Len(delivered) + 1)
  BY DEF SdkReceive
<1>2. /\ n \in Nat \ {0}
      /\ receiver.fhdr => Len(receiver.body) + n <= PayloadSize(receiver.head)
  BY <1>0, Asking
<1>3. n \in 1 .. Len(bytes)
  BY <1>0, <1>1, <1>2 DEF StreamTypes
<1>4. PICK p \in Seq(Byte) : /\ p = SubSeq(bytes, 1, n) /\ Len(p) = n
                             /\ (Held \o p) \o bytes' = Pending
  BY <1>0, <1>1, <1>3, ReadOn
<1>5. bytes' \in Seq(Byte) /\ bytes # <<>>
  BY <1>0, <1>1, <1>3, ReadOn
<1>6. UNCHANGED <<mode, frames, compressing, sent>>
  BY DEF SdkReceive
<1>7. PICK e \in Nat \ {0} : e = Len(delivered) + 1
  <2>1. Len(delivered) + 1 \in Nat \ {0}
    BY <1>0, HeldType
  <2> QED BY <2>1
<1>8. ASSUME fault' \in 1 .. sent \cup {NULL}
      PROVE  StreamTypes' /\ Onwards(delivered, delivered')
  <2>1. CASE receiver.fhdr
    <3>1. SdkPayload(p)
      BY <1>1, <1>4, <2>1
    <3> QED BY <1>0, <1>5, <1>6, <1>8, <2>1, <3>1, SdkPayloadTypes
  <2>2. CASE ~receiver.fhdr
    <3>1. SdkHeader(p)
      BY <1>1, <1>4, <2>2
    <3> QED BY <1>0, <1>5, <1>6, <1>8, <3>1, SdkHeaderTypes
  <2> QED BY <2>1, <2>2
<1>9. fault \in 1 .. sent \cup {NULL} /\ sent \in Nat /\ mode # "outer"
  BY <1>0, HeldType DEF StreamTypes
<1>10. CASE ~(Len(delivered) < Followed)
  <2>1. fault \in 1 .. sent /\ fault <= e
    BY <1>0, <1>5, <1>7, <1>10, Lost
  <2>2. fault' = fault
    <3>1. fault # NULL /\ ~(e < fault)
      BY <1>7, <1>9, <2>1, NullAssumption
    <3>2. Since(e) = fault
      BY <3>1 DEF Since
    <3> QED BY <1>1, <1>7, <3>2
  <2>3. /\ fault' \in 1 .. sent /\ fault' <= Len(delivered) + 1 /\ fault' <= fault
        /\ fault' \in 1 .. sent \cup {NULL}
    BY <1>7, <1>9, <2>1, <2>2
  <2> QED BY <1>6, <1>8, <1>9, <2>3, Past
<1>11. CASE Len(delivered) < Followed /\ ~(receiver.fhdr \/ n = HeaderSize)
  <2>1. e \in 1 .. sent
    <3>1. Len(delivered) \in Nat /\ Followed \in 0 .. sent
      BY <1>0, HeldType
    <3> QED BY <1>7, <1>9, <1>11, <3>1
  <2>2. fault' = Since(e)
    BY <1>1, <1>7, <1>11
  <2>3. /\ Since(e) \in 1 .. sent /\ Since(e) <= e
        /\ fault = NULL \/ Since(e) <= fault
    <3>1. CASE fault = NULL \/ e < fault
      <4>1. Since(e) = e
        BY <3>1 DEF Since
      <4> QED BY <1>7, <1>9, <2>1, <3>1, <4>1
    <3>2. CASE fault # NULL /\ ~(e < fault)
      <4>1. Since(e) = fault /\ fault \in 1 .. sent
        BY <1>9, <3>2 DEF Since
      <4> QED BY <1>7, <1>9, <3>2, <4>1
    <3> QED BY <3>1, <3>2
  <2>4. /\ fault' \in 1 .. sent /\ fault' <= Len(delivered) + 1
        /\ fault = NULL \/ fault' <= fault
        /\ fault' \in 1 .. sent \cup {NULL}
    BY <1>7, <2>2, <2>3
  <2> QED BY <1>6, <1>8, <1>9, <2>4, Past
<1>12. CASE Len(delivered) < Followed /\ (receiver.fhdr \/ n = HeaderSize)
  <2>1. UNCHANGED <<mode, frames, compressing, sent, fault>>
    BY <1>1, <1>6, <1>12
  <2>2. PICK c, cut : Next1st(c, cut)
    BY <1>0, <1>12, First
  <2>3. CASE receiver.fhdr
    <3>1. SdkPayload(p) /\ Len(receiver.body) + Len(p) <= PayloadSize(receiver.head)
      BY <1>1, <1>2, <1>4, <2>3
    <3>2. Len(delivered) < Followed
      BY <1>12
    <3> QED BY <1>0, <1>4, <1>5, <2>1, <2>2, <2>3, <3>1, <3>2, SdkPayloadKeeps
  <2>4. CASE ~receiver.fhdr
    <3>1. SdkHeader(p) /\ Len(p) = HeaderSize
      BY <1>1, <1>4, <1>12, <2>4
    <3>2. Len(delivered) < Followed
      BY <1>12
    <3> QED BY <1>0, <1>4, <1>5, <2>1, <2>2, <2>4, <3>1, <3>2, SdkHeaderKeeps
  <2> QED BY <2>3, <2>4
<1> QED BY <1>10, <1>11, <1>12

LEMMA InitKeeps == StreamInit => StreamIInv
<1> SUFFICES ASSUME StreamInit PROVE StreamIInv
  OBVIOUS
<1>1. /\ mode \in Modes /\ frames \in Streams /\ sent = 0 /\ bytes = <<>>
      /\ delivered = <<>> /\ link = "open" /\ fault = NULL
  BY DEF StreamInit
<1>2. compressing \in BOOLEAN
  BY SocketAssumption DEF StreamInit
<1>3. PICK g : g \in (IF mode = "sdk" THEN Garbage ELSE {<<>>}) /\ receiver = Idle(g)
  BY DEF StreamInit
<1>4. g \in Seq(Byte) /\ (mode = "sdk" => Len(g) = HeaderSize)
  <2>1. CASE mode = "sdk"
    <3>1. g \in [1 .. HeaderSize -> Byte] /\ HeaderSize \in Nat
      BY <1>3, <2>1, SocketAssumption DEF HeaderSize
    <3> QED BY <3>1
  <2>2. CASE mode # "sdk"
    <3>1. g = <<>>
      BY <1>3, <2>2
    <3> QED BY <2>2, <3>1, EmptyOne
  <2> QED BY <2>1, <2>2
<1>5. receiver = [fhdr |-> FALSE, head |-> <<>>, body |-> <<>>, buffer |-> g]
  BY <1>3 DEF Idle
<1>6. /\ receiver \in [fhdr : BOOLEAN, head : Seq(Byte), body : Seq(Byte),
                       buffer : Seq(Byte)]
      /\ receiver.head = <<>> /\ receiver.body = <<>> /\ ~receiver.fhdr
      /\ receiver.buffer = g
  BY <1>4, <1>5, EmptyOne
<1>7. Len(<<>>) = 0 /\ <<>> \o <<>> = <<>> /\ DOMAIN <<>> = {}
  OBVIOUS
<1>8. Reading
  BY <1>6, <1>7 DEF Reading, HeaderSize
<1>9. StreamTypes
  <2>1. sent \in 0 .. Len(frames)
    <3>1. frames \in Seq([cmd : 0 .. Half - 1, payload : Seq(Byte)])
      BY <1>1, StreamsAssumption
    <3> QED BY <1>1, <3>1
  <2>2. delivered \in Seq([cmd : Byte, payload : Seq(Byte)])
    BY <1>1
  <2> QED BY <1>1, <1>2, <1>4, <1>6, <1>8, <2>1, <2>2, EmptyOne DEF StreamTypes
<1>10. Faithful
  BY <1>1, <1>7 DEF Faithful, Sure
<1>11. Flowing
  <2>1. Followed = 0 /\ Len(delivered) = 0 /\ Pending = <<>>
    BY <1>1, <1>6, <1>7 DEF Followed, Pending, Held
  <2>2. PICK k : k = Followed - Len(delivered) /\ k = 0
    BY <2>1
  <2>3. PICK cut : cut = [x \in 0 .. 0 |-> 0]
    OBVIOUS
  <2>4. Cut(Pending, Awaited, Len(delivered), 0, cut) /\ cut[0] = 0
    BY <2>3 DEF Cut
  <2>5. ~(0 > 0) /\ Len(Pending) = 0
    BY <1>7, <2>1
  <2> QED BY <1>6, <2>2, <2>4, <2>5 DEF Flowing
<1> QED BY <1>9, <1>10, <1>11 DEF StreamIInv

\* The stream is there or it is not.
WireIInv == NoStream \/ StreamIInv

LEMMA StutterKeeps ==
  ASSUME WireIInv, UNCHANGED streamVars
  PROVE  WireIInv'
<1>0. UNCHANGED <<mode, frames, compressing, sent, bytes, receiver, delivered, link, fault>>
  BY DEF streamVars
<1>1. NoStream => NoStream'
  BY <1>0 DEF NoStream
<1>2. StreamIInv => StreamIInv'
  <2>1. Awaited' = Awaited /\ Followed' = Followed /\ Sure' = Sure
    BY <1>0, AwaitedKept
  <2>2. Pending' = Pending /\ \A n : Amid(n)' = Amid(n)
    BY <1>0 DEF Pending, Held, Amid
  <2>3. StreamTypes => StreamTypes'
    BY <1>0 DEF StreamTypes, Reading
  <2>4. Faithful => Faithful'
    BY <1>0, <2>1 DEF Faithful
  <2>5. Flowing => Flowing'
    BY <1>0, <2>1, <2>2 DEF Flowing
  <2> QED BY <2>3, <2>4, <2>5 DEF StreamIInv
<1> QED BY <1>1, <1>2 DEF WireIInv

LEMMA StreamStep ==
  ASSUME WireIInv, StreamNext
  PROVE  WireIInv'
<1>1. CASE NoStream
  <2>1. link = "closed"
    BY <1>1 DEF NoStream
  <2>2. link = "open"
    BY DEF StreamNext, SendFrame, SendPart, SendFlipped, MaySend, StageReceive,
           SdkReceive, Fin
  <2> QED BY <2>1, <2>2
<1>2. CASE StreamIInv
  <2>1. CASE SendFrame \/ SendPart \/ SendFlipped
    BY <1>2, <2>1, SendKeeps DEF WireIInv
  <2>2. CASE StageReceive
    BY <1>2, <2>2, StageKeeps DEF WireIInv
  <2>3. CASE SdkReceive
    BY <1>2, <2>3, SdkKeeps DEF WireIInv
  <2>4. CASE Fin
    BY <1>2, <2>4, FinKeeps DEF WireIInv
  <2> QED BY <2>1, <2>2, <2>3, <2>4 DEF StreamNext
<1> QED BY <1>1, <1>2 DEF WireIInv

LEMMA StreamInvariance == WireSpec => []WireIInv
<1>1. WireInit => WireIInv
  BY InitKeeps DEF WireInit, WireIInv
<1>2. WireIInv /\ [WireNext]_<<messageVars, streamVars>> => WireIInv'
  <2> SUFFICES ASSUME WireIInv, [WireNext]_<<messageVars, streamVars>> PROVE WireIInv'
    OBVIOUS
  <2>1. CASE StreamNext
    BY <2>1, StreamStep
  <2>2. CASE UNCHANGED streamVars
    BY <2>2, StutterKeeps
  <2> QED BY <2>1, <2>2 DEF WireNext
<1> QED BY <1>1, <1>2, PTL DEF WireSpec

\* What a byte that was lost or changed, or an SDK header that came in pieces,
\* does not reach is intact.
LEMMA IntactStream == StreamIInv => FramesIntact
<1> SUFFICES ASSUME StreamIInv PROVE FramesIntact
  OBVIOUS
<1>0. StreamTypes /\ Faithful
  BY DEF StreamIInv
<1>1. Len(delivered) \in Nat /\ sent \in Nat /\ Len(frames) \in Nat
  BY <1>0, HeldType
<1>2. PICK sound : sound = IF fault = NULL THEN Len(frames) ELSE fault - 1
  OBVIOUS
<1>3. \A i \in DOMAIN delivered : i <= sound => delivered[i] = frames[i]
  <2> SUFFICES ASSUME NEW i \in DOMAIN delivered, i <= sound
               PROVE  delivered[i] = frames[i]
    OBVIOUS
  <2>1. i \in 1 .. Len(delivered)
    BY <1>0 DEF StreamTypes
  <2>2. i <= Sure
    <3>1. CASE fault = NULL
      BY <1>0, <1>1, <2>1, <3>1 DEF Faithful, Sure
    <3>2. CASE fault # NULL
      BY <1>2, <3>2 DEF Sure
    <3> QED BY <3>1, <3>2
  <2> QED BY <1>0, <2>2 DEF Faithful
<1>4. ASSUME fault = NULL
      PROVE  /\ link # "aborted" /\ Len(delivered) <= sent
             /\ bytes = <<>> => Len(delivered) = sent
  <2>1. link # "aborted" /\ Len(delivered) <= sent
    BY <1>0, <1>4 DEF Faithful
  <2>2. ASSUME bytes = <<>> PROVE Len(delivered) = sent
    <3>1. CASE link = "open"
      BY <1>4, <2>2, <3>1, Drained
    <3>2. CASE link = "closed"
      BY <1>0, <1>4, <3>2 DEF Faithful
    <3> QED BY <1>0, <2>1, <3>1, <3>2 DEF StreamTypes
  <2> QED BY <2>1, <2>2
<1> QED BY <1>2, <1>3, <1>4 DEF FramesIntact

LEMMA RefusedStream == StreamIInv => ForgedRefused
<1> SUFFICES ASSUME StreamIInv, mode = "outer" PROVE IsPrefix(delivered, frames)
  BY DEF ForgedRefused
<1>0. StreamTypes /\ Faithful
  BY DEF StreamIInv
<1>1. /\ Len(delivered) \in Nat /\ Len(frames) \in Nat /\ Sure \in 0 .. sent
      /\ sent \in 0 .. Len(frames) /\ Len(delivered) <= Sure
  BY <1>0, HeldType DEF StreamTypes, Faithful
<1>2. PICK S, s : s \in Seq(S) /\ s = delivered
  BY <1>0 DEF StreamTypes
<1>3. PICK T, t : t \in Seq(T) /\ t = frames
  BY <1>0, StreamsAssumption DEF StreamTypes
<1>4. Len(s) \in Nat /\ Len(t) \in Nat /\ Len(s) <= Len(t)
  BY <1>1, <1>2, <1>3
<1>5. \A i \in 1 .. Len(s) : s[i] = t[i]
  <2> SUFFICES ASSUME NEW i \in 1 .. Len(s) PROVE s[i] = t[i]
    OBVIOUS
  <2>1. i <= Sure /\ i \in DOMAIN delivered
    BY <1>1, <1>2
  <2> QED BY <1>0, <1>2, <1>3, <2>1 DEF Faithful
<1>6. SubSeq(s, 1, Len(s)) = SubSeq(t, 1, Len(s))
  <2>1. /\ SubSeq(s, 1, Len(s)) = [i \in 1 .. Len(s) |-> s[i]]
        /\ SubSeq(t, 1, Len(s)) = [i \in 1 .. Len(s) |-> t[i]]
    BY <1>2, <1>3, <1>4
  <2> QED BY <1>5, <2>1
<1> QED BY <1>2, <1>3, <1>4, <1>6 DEF IsPrefix

\* Wherever the bytes of a stream are cut, whatever its frames are, encrypted
\* and compressed or not, the frames before the first fault arrive unaltered
\* and in order; without a fault all of them arrive, and no connection is given
\* up (Socket.cpp's and SocketClient.cpp's receivers).
THEOREM FramesArrive == WireSpec => []FramesIntact
<1>1. WireIInv => FramesIntact
  <2>1. NoStream => FramesIntact
    <3>1. Len(<<>>) = 0 /\ DOMAIN <<>> = {}
      OBVIOUS
    <3> QED BY <3>1 DEF NoStream, FramesIntact
  <2> QED BY <2>1, IntactStream DEF WireIInv
<1> QED BY <1>1, StreamInvariance, PTL

\* Whatever byte but those of its length is changed in a frame of an outer
\* client, the hub's checksum fails and nothing of it is handed on.
THEOREM ForgeriesRefused == WireSpec => []ForgedRefused
<1>1. WireIInv => ForgedRefused
  BY RefusedStream DEF NoStream, ForgedRefused, WireIInv
<1> QED BY <1>1, StreamInvariance, PTL
-----------------------------------------------------------------------------

(* Messages: a class is a sequence of fields, of three levels.             *)

PlainField(c, f) ==
  \/ f.kind = "fixed" /\ f.width \in Nat /\ f.size = f.width
  \/ f.kind = "text" /\ f.name \in Setters[c]

Known(c) ==
  /\ c \in Classes /\ Reads[c] = Written[c]
  /\ Len(Written[c]) \in Nat \ {0} /\ DOMAIN Written[c] = 1 .. Len(Written[c])

\* The classes without members, those with members of them, and those with
\* members of these.
Lowest(c) ==
  Known(c) /\ \A i \in 1 .. Len(Written[c]) : PlainField(c, Written[c][i])
Middle(c) ==
  /\ Known(c)
  /\ \A i \in 1 .. Len(Written[c]) :
       \/ PlainField(c, Written[c][i])
       \/ Written[c][i].kind \in {"member", "members"} /\ Lowest(Written[c][i].of)
Highest(c) ==
  /\ Known(c)
  /\ \A i \in 1 .. Len(Written[c]) :
       \/ PlainField(c, Written[c][i])
       \/ Written[c][i].kind = "members" /\ Lowest(Written[c][i].of)
       \/ Written[c][i].kind = "member" /\ Middle(Written[c][i].of)

LEMMA RequestsLowest ==
  /\ Lowest("AuthenticationAAARequest") /\ Lowest("AuthenticationAAAResponse")
  /\ Lowest("LoginAccountRequest") /\ Lowest("FeedbackAccountRequest")
  /\ Lowest("GMWebInstruction")
<1> USE DEF Lowest, Known, PlainField, Classes, Written, Reads, Setters, Fixed, Text
<1>1. Lowest("AuthenticationAAARequest")
  BY DEF AAARequestWritten, AAARequestRead, AAARequestSetters
<1>2. Lowest("AuthenticationAAAResponse")
  BY DEF AAAResponseWritten, AAAResponseRead, AAAResponseSetters
<1>3. Lowest("LoginAccountRequest")
  BY DEF LoginAccountRequestWritten, LoginAccountRequestRead,
     LoginAccountRequestSetters
<1>4. Lowest("FeedbackAccountRequest")
  BY DEF FeedbackAccountRequestWritten, FeedbackAccountRequestRead,
     FeedbackAccountRequestSetters
<1>5. Lowest("GMWebInstruction")
  BY DEF GMWebInstructionWritten, GMWebInstructionRead, GMWebInstructionSetters
<1> HIDE DEF Lowest
<1> QED BY <1>1, <1>2, <1>3, <1>4, <1>5

LEMMA OrdersLowest ==
  /\ Lowest("CreateOrderRequest") /\ Lowest("PayAckOrderRequest")
  /\ Lowest("CreateOrderResponse") /\ Lowest("XiYouGameServer")
<1> USE DEF Lowest, Known, PlainField, Classes, Written, Reads, Setters, Fixed, Text
<1>1. Lowest("CreateOrderRequest")
  BY DEF CreateOrderRequestWritten, CreateOrderRequestRead,
     CreateOrderRequestSetters
<1>2. Lowest("PayAckOrderRequest")
  BY DEF PayAckOrderRequestWritten, PayAckOrderRequestRead,
     PayAckOrderRequestSetters
<1>3. Lowest("CreateOrderResponse")
  BY DEF CreateOrderResponseWritten, CreateOrderResponseRead,
     CreateOrderResponseSetters
<1>4. Lowest("XiYouGameServer")
  BY DEF XiYouGameServerWritten, XiYouGameServerRead, XiYouGameServerSetters
<1> HIDE DEF Lowest
<1> QED BY <1>1, <1>2, <1>3, <1>4

LEMMA GenericsLowest ==
  /\ Lowest("GenericString") /\ Lowest("GenericSingle") /\ Lowest("GenericInt8")
  /\ Lowest("GenericInt16") /\ Lowest("GenericInt32") /\ Lowest("GenericInt64")
<1> USE DEF Lowest, Known, PlainField, Classes, Written, Reads, Setters, Fixed, Text
<1>1. Lowest("GenericString")
  BY DEF GenericStringWritten, GenericStringRead, GenericStringSetters
<1>2. Lowest("GenericSingle")
  BY DEF GenericSingleWritten, GenericSingleRead, GenericSetters
<1>3. Lowest("GenericInt8")
  BY DEF GenericInt8Written, GenericInt8Read, GenericSetters
<1>4. Lowest("GenericInt16")
  BY DEF GenericInt16Written, GenericInt16Read, GenericSetters
<1>5. Lowest("GenericInt32")
  BY DEF GenericInt32Written, GenericInt32Read, GenericSetters
<1>6. Lowest("GenericInt64")
  BY DEF GenericInt64Written, GenericInt64Read, GenericSetters
<1> HIDE DEF Lowest
<1> QED BY <1>1, <1>2, <1>3, <1>4, <1>5, <1>6

LEMMA LoginMiddle == Middle("LoginAccountResponse")
<1>1. Known("LoginAccountResponse")
  BY DEF Known, Classes, Written, Reads, LoginAccountResponseWritten,
     LoginAccountResponseRead
<1>2. Written["LoginAccountResponse"] = LoginAccountResponseWritten
  BY DEF Written
<1> QED
  BY <1>1, <1>2, OrdersLowest
  DEF Middle, PlainField, LoginAccountResponseWritten, Setters,
      LoginAccountResponseSetters, Text, Member, Members

LEMMA GenericsHighest == Highest("GenericOrder") /\ Highest("GenericLogin")
<1>1. Known("GenericOrder") /\ Known("GenericLogin")
  BY DEF Known, Classes, Written, Reads, GenericOrderWritten, GenericOrderRead,
     GenericLoginWritten, GenericLoginRead
<1>2. /\ Written["GenericOrder"] = GenericOrderWritten
      /\ Written["GenericLogin"] = GenericLoginWritten
      /\ "Message" \in Setters["GenericOrder"] /\ "Message" \in Setters["GenericLogin"]
  BY DEF Written, Setters, GenericSetters
<1>3. Middle("CreateOrderResponse")
  BY OrdersLowest DEF Lowest, Middle
<1>4. Highest("GenericOrder")
  BY <1>1, <1>2, <1>3
  DEF Highest, PlainField, GenericOrderWritten, Fixed, Text, Member
<1>5. Highest("GenericLogin")
  BY <1>1, <1>2, LoginMiddle
  DEF Highest, PlainField, GenericLoginWritten, Fixed, Text, Member
<1> QED BY <1>4, <1>5

\* What is lowest holds no member; every class but one is of the three levels.
LEMMA Levels ==
  ASSUME NEW c \in Classes, c # "GenericDouble"
  PROVE  /\ Lowest(c) \/ Middle(c) \/ Highest(c)
         /\ ~HoldsMember(c) => Lowest(c)
<1>1. \/ c \in {"AuthenticationAAARequest", "AuthenticationAAAResponse",
                "LoginAccountRequest", "FeedbackAccountRequest", "GMWebInstruction"}
      \/ c \in {"CreateOrderRequest", "PayAckOrderRequest", "CreateOrderResponse",
                "XiYouGameServer"}
      \/ c \in {"GenericString", "GenericSingle", "GenericInt8", "GenericInt16",
                "GenericInt32", "GenericInt64"}
      \/ c \in {"LoginAccountResponse", "GenericOrder", "GenericLogin"}
  BY DEF Classes, Written
<1>2. Lowest(c) \/ c \in {"LoginAccountResponse", "GenericOrder", "GenericLogin"}
  BY <1>1, RequestsLowest, OrdersLowest, GenericsLowest
<1>3. /\ HoldsMember("LoginAccountResponse")
      /\ HoldsMember("GenericOrder") /\ HoldsMember("GenericLogin")
  <2>1. /\ Reads["LoginAccountResponse"] = LoginAccountResponseRead
        /\ Reads["GenericOrder"] = GenericOrderRead
        /\ Reads["GenericLogin"] = GenericLoginRead
    BY DEF Reads
  <2>2. LoginAccountResponseRead[5].kind = "member" /\ 5 \in DOMAIN LoginAccountResponseRead
    BY DEF LoginAccountResponseRead, Member
  <2>3. /\ GenericOrderRead[3].kind = "member" /\ 3 \in DOMAIN GenericOrderRead
        /\ GenericLoginRead[3].kind = "member" /\ 3 \in DOMAIN GenericLoginRead
    BY DEF GenericOrderRead, GenericLoginRead, Member
  <2> QED BY <2>1, <2>2, <2>3 DEF HoldsMember
<1> QED BY <1>2, <1>3, LoginMiddle, GenericsHighest
(* Bytes of an object: field after field.                                  *)

\* joined[i] is what the first i of k pieces make together.
Joins(pieces, k, joined) ==
  /\ joined \in [0 .. k -> Seq(Byte)] /\ joined[0] = <<>>
  /\ \A i \in 1 .. k : joined[i] = joined[i - 1] \o pieces[i]

LEMMA Flattened ==
  ASSUME NEW k \in Nat, NEW pieces \in [1 .. k -> Seq(Byte)], Len(pieces) = k
  PROVE  \E joined : Joins(pieces, k, joined) /\ FlattenSeq(pieces) = joined[k]
<1> DEFINE F == [p \in (1 .. k) \X Seq(Byte) |-> p[2] \o pieces[p[1]]]
           G(s) == s = [i \in 1 .. k |-> IF i = 1 THEN pieces[i] ELSE s[i - 1] \o pieces[i]]
           t == CHOOSE s : G(s)
<1>1. \A i \in 1 .. k, q \in Seq(Byte) : q \o pieces[i] \in Seq(Byte)
  BY Joined
<1>2. F \in Steps(k, Seq(Byte))
  BY <1>1 DEF Steps
<1>3. \A i \in 1 .. k, q \in Seq(Byte) : F[<<i, q>>] = q \o pieces[i]
  OBVIOUS
<1> HIDE DEF F
<1>4. PICK s : Course(s, k, Seq(Byte), <<>>, F)
  BY <1>2, EmptyOne, Recursion
<1>5. \A i \in 1 .. k : s[i - 1] \in Seq(Byte) /\ s[i] = s[i - 1] \o pieces[i]
  <2> SUFFICES ASSUME NEW i \in 1 .. k
               PROVE  s[i - 1] \in Seq(Byte) /\ s[i] = s[i - 1] \o pieces[i]
    OBVIOUS
  <2>1. i - 1 \in 0 .. k
    OBVIOUS
  <2> QED BY <1>3, <1>4, <2>1 DEF Course
<1>6. Joins(pieces, k, s)
  BY <1>4, <1>5 DEF Course, Joins
<1>7. CASE k = 0
  <2>1. FlattenSeq(pieces) = pieces /\ pieces = <<>>
    BY <1>7 DEF FlattenSeq
  <2> QED BY <1>6, <1>7, <2>1 DEF Joins
<1>8. CASE k # 0
  <2> DEFINE u == [i \in 1 .. k |-> s[i]]
  <2>1. 1 \in 1 .. k /\ s[1] = pieces[1]
    <3>1. 1 \in 1 .. k /\ 1 - 1 = 0
      BY <1>8
    <3>2. pieces[1] \in Seq(Byte)
      BY <3>1
    <3>3. s[1] = s[1 - 1] \o pieces[1] /\ s[0] = <<>>
      BY <1>5, <1>6, <3>1, Zenon DEF Joins
    <3>4. <<>> \o pieces[1] = pieces[1]
      BY <3>2
    <3> QED BY <3>1, <3>3, <3>4
  <2>2. G(u)
    <3> SUFFICES ASSUME NEW i \in 1 .. k
                 PROVE  u[i] = IF i = 1 THEN pieces[i] ELSE u[i - 1] \o pieces[i]
      OBVIOUS
    <3>1. CASE i = 1
      BY <2>1, <3>1
    <3>2. CASE i # 1
      <4>1. i - 1 \in 1 .. k
        BY <3>2
      <4> QED BY <1>5, <3>2, <4>1
    <3> QED BY <3>1, <3>2
  <2>3. G(t)
    BY <2>2
  <2> HIDE DEF t, u
  <2>4. \A i \in 1 .. k : t[i] = IF i = 1 THEN pieces[i] ELSE t[i - 1] \o pieces[i]
    BY <2>3
  <2> DEFINE P == {i \in 0 .. k : i # 0 => t[i] = s[i]}
  <2>5. 0 \in P
    OBVIOUS
  <2>6. ASSUME NEW i \in 1 .. k, i - 1 \in P PROVE i \in P
    <3>1. CASE i = 1
      BY <2>1, <2>4, <3>1
    <3>2. CASE i # 1
      <4>1. t[i] = t[i - 1] \o pieces[i]
        BY <2>4, <3>2
      <4>2. t[i - 1] = s[i - 1]
        <5>1. i - 1 # 0
          BY <3>2
        <5> QED BY <2>6, <5>1
      <4>3. t[i] = s[i] /\ i \in 0 .. k
        BY <1>5, <4>1, <4>2
      <4> QED BY <4>3
    <3> QED BY <3>1, <3>2
  <2>7. k \in P
    <3> HIDE DEF P
    <3>1. 0 .. k \subseteq P
      BY <2>5, <2>6, Climbing
    <3> QED BY <3>1
  <2>8. FlattenSeq(pieces) = t[k]
    BY <1>8 DEF FlattenSeq, t
  <2> QED BY <1>6, <1>8, <2>7, <2>8
<1> QED BY <1>7, <1>8
(* Reading.                                                                *)

Memories == [bytes : Seq(Byte), beyond : Byte]
Reader(d) ==
  /\ d = [pos |-> d.pos, count |-> d.count, ok |-> d.ok, obj |-> d.obj]
  /\ d.pos \in Nat /\ d.count \in Int

\* As far as the memory goes, there is q behind position p.
Agrees(m, p, q) ==
  \A i \in 1 .. Len(q) : p + i <= Len(m.bytes) => m.bytes[p + i] = q[i]

LEMMA AgreesParts ==
  ASSUME NEW m \in Memories, NEW p \in Nat, NEW q \in Seq(Byte), NEW r \in Seq(Byte),
         Agrees(m, p, q \o r)
  PROVE  Agrees(m, p, q) /\ Agrees(m, p + Len(q), r)
<1>1. ASSUME NEW i \in 1 .. Len(q), p + i <= Len(m.bytes)
      PROVE  m.bytes[p + i] = q[i]
  <2>1. i \in 1 .. Len(q \o r) /\ (q \o r)[i] = q[i]
    BY Joined
  <2> QED BY <1>1, <2>1 DEF Agrees
<1>2. ASSUME NEW i \in 1 .. Len(r), (p + Len(q)) + i <= Len(m.bytes)
      PROVE  m.bytes[(p + Len(q)) + i] = r[i]
  <2>1. Len(q) + i \in 1 .. Len(q \o r) /\ (q \o r)[Len(q) + i] = r[i]
    BY Joined
  <2>2. p + (Len(q) + i) = (p + Len(q)) + i
    OBVIOUS
  <2> QED BY <1>2, <2>1, <2>2 DEF Agrees
<1> QED BY <1>1, <1>2 DEF Agrees

LEMMA AgreesRead ==
  ASSUME NEW m \in Memories, NEW d, Reader(d), NEW q \in Seq(Byte),
         Agrees(m, d.pos, q), d.pos + Len(q) <= Len(m.bytes)
  PROVE  /\ BytesAt(m, d, Len(q)) = q
         /\ \A i \in 1 .. Len(q) : ByteAt(m, d.pos + i) = q[i]
<1>0. d.pos \in Nat /\ Len(q) \in Nat /\ Len(m.bytes) \in Nat
  BY DEF Reader, Memories
<1>1. ASSUME NEW i \in 1 .. Len(q) PROVE ByteAt(m, d.pos + i) = q[i]
  <2>1. d.pos + i <= Len(m.bytes)
    BY <1>0
  <2> QED BY <2>1 DEF Agrees, ByteAt
<1>2. BytesAt(m, d, Len(q)) = [i \in 1 .. Len(q) |-> q[i]]
  BY <1>1 DEF BytesAt
<1>3. q = [i \in 1 .. Len(q) |-> q[i]]
  OBVIOUS
<1> QED BY <1>1, <1>2, <1>3

\* A reader one value of n bytes further, of which b were counted.
Further(d, n, b, name, v) ==
  [pos |-> d.pos + n, count |-> d.count - b, ok |-> d.ok,
   obj |-> [d.obj EXCEPT ![name] = v]]

\* What an EXCEPT makes of a reader, one component after another.
LEMMA ReaderWith ==
  ASSUME NEW p, NEW k, NEW a, NEW o, NEW d,
         d = [pos |-> p, count |-> k, ok |-> a, obj |-> o], NEW z
  PROVE  /\ [d EXCEPT !.pos = z] = [pos |-> z, count |-> k, ok |-> a, obj |-> o]
         /\ [d EXCEPT !.count = z] = [pos |-> p, count |-> z, ok |-> a, obj |-> o]
         /\ [d EXCEPT !.ok = z] = [pos |-> p, count |-> k, ok |-> z, obj |-> o]
         /\ [d EXCEPT !.obj = z] = [pos |-> p, count |-> k, ok |-> a, obj |-> z]
<1>1. [d EXCEPT !.pos = z] = [pos |-> z, count |-> k, ok |-> a, obj |-> o]
  OBVIOUS
<1>2. [d EXCEPT !.count = z] = [pos |-> p, count |-> z, ok |-> a, obj |-> o]
  OBVIOUS
<1>3. [d EXCEPT !.ok = z] = [pos |-> p, count |-> k, ok |-> z, obj |-> o]
  OBVIOUS
<1>4. [d EXCEPT !.obj = z] = [pos |-> p, count |-> k, ok |-> a, obj |-> z]
  OBVIOUS
<1> QED BY <1>1, <1>2, <1>3, <1>4

\* What the steps of BinaryFormatter make of a reader d.
Moved(d, n, b) == [d EXCEPT !.pos = @ + n, !.count = @ - b]
Ahead(d, n, b, name, v) ==
  [d EXCEPT !.pos = @ + n, !.count = @ - b, !.obj[name] = v]
With(d, name, v) == [d EXCEPT !.obj[name] = v]

LEMMA MovedIs ==
  ASSUME NEW d, Reader(d), NEW n, NEW b
  PROVE  Moved(d, n, b)
           = [pos |-> d.pos + n, count |-> d.count - b, ok |-> d.ok, obj |-> d.obj]
<1> DEFINE e == [d EXCEPT !.pos = d.pos + n]
<1>1. e = [pos |-> d.pos + n, count |-> d.count, ok |-> d.ok, obj |-> d.obj]
  BY ReaderWith DEF Reader
<1>2. [d EXCEPT !.pos = @ + n, !.count = @ - b] = [e EXCEPT !.count = d.count - b]
  OBVIOUS
<1> HIDE DEF e
<1>3. [e EXCEPT !.count = d.count - b]
        = [pos |-> d.pos + n, count |-> d.count - b, ok |-> d.ok, obj |-> d.obj]
  BY <1>1
<1>4. [d EXCEPT !.pos = @ + n, !.count = @ - b]
        = [pos |-> d.pos + n, count |-> d.count - b, ok |-> d.ok, obj |-> d.obj]
  BY <1>2, <1>3
<1> QED BY <1>4 DEF Moved

LEMMA FurtherIs ==
  ASSUME NEW d, NEW n, NEW b, NEW name, NEW v, Reader(d)
  PROVE  Ahead(d, n, b, name, v) = Further(d, n, b, name, v)
<1> DEFINE e == [d EXCEPT !.pos = @ + n, !.count = @ - b]
<1>1. e = [pos |-> d.pos + n, count |-> d.count - b, ok |-> d.ok, obj |-> d.obj]
  BY MovedIs DEF Moved
<1>2. [d EXCEPT !.pos = @ + n, !.count = @ - b, !.obj[name] = v]
        = [e EXCEPT !.obj = [e.obj EXCEPT ![name] = v]]
  OBVIOUS
<1> HIDE DEF e
<1>3. e.obj = d.obj
  BY <1>1
<1>4. ASSUME NEW w
      PROVE  [e EXCEPT !.obj = w]
               = [pos |-> d.pos + n, count |-> d.count - b, ok |-> d.ok, obj |-> w]
  BY <1>1
<1>5. [e EXCEPT !.obj = [d.obj EXCEPT ![name] = v]]
        = [pos |-> d.pos + n, count |-> d.count - b, ok |-> d.ok,
           obj |-> [d.obj EXCEPT ![name] = v]]
  BY <1>4, Zenon
<1>6. [d EXCEPT !.pos = @ + n, !.count = @ - b, !.obj[name] = v]
        = [e EXCEPT !.obj = [d.obj EXCEPT ![name] = v]]
  BY <1>2, <1>3, Zenon
<1> QED BY <1>5, <1>6, Zenon DEF Further, Ahead

LEMMA RefusedIs ==
  ASSUME NEW d, NEW n \in Int, Reader(d)
  PROVE  /\ ~Refused(d, n).ok /\ Refused(d, n).pos = d.pos
         /\ Reader(Refused(d, n))
<1> DEFINE e == [d EXCEPT !.count = d.count - n]
<1>1. e = [pos |-> d.pos, count |-> d.count - n, ok |-> d.ok, obj |-> d.obj]
  BY ReaderWith DEF Reader
<1>2. Refused(d, n) = [e EXCEPT !.ok = FALSE]
  BY DEF Refused
<1> HIDE DEF e
<1>3. Refused(d, n) = [pos |-> d.pos, count |-> d.count - n, ok |-> FALSE, obj |-> d.obj]
  BY <1>1, <1>2, ReaderWith, Zenon
<1> QED BY <1>3 DEF Reader

\* The bytes of a text or a number.
LEMMA PlainBytesIs ==
  ASSUME NEW c, NEW f, PlainField(c, f), NEW v, PlainValue(f, v),
         f.kind = "text" /\ v # NULL => Len(v) < NoLength
  PROVE  /\ PlainBytes(f, v) \in Seq(Byte)
         /\ f.kind = "fixed" => /\ PlainBytes(f, v) = v /\ v \in Seq(Byte)
                                /\ Len(v) = f.size /\ f.size = f.width /\ f.size \in Nat
         /\ f.kind = "text" /\ v = NULL => PlainBytes(f, v) = TwoBytes(NoLength)
         /\ f.kind = "text" /\ v # NULL =>
              /\ v \in Seq(Byte) /\ Len(v) < NoLength
              /\ PlainBytes(f, v) = TwoBytes(Len(v)) \o v
<1>1. CASE f.kind = "fixed"
  <2>1. v \in Seq(Byte) /\ Len(v) = f.width /\ f.size = f.width /\ f.width \in Nat
    BY <1>1 DEF PlainField, PlainValue
  <2>2. SubSeq(v, 1, f.size) = v
    BY <2>1, SubSeqFull
  <2> QED BY <1>1, <2>1, <2>2 DEF PlainBytes
<1>2. CASE f.kind = "text"
  <2>1. v = NULL \/ v \in Seq(Byte)
    BY <1>2 DEF PlainValue
  <2>2. NoLength \in 0 .. Word - 1
    BY ByteBaseAssumption, PartsOfWords DEF NoLength, Word
  <2>3. CASE v = NULL
    BY <1>2, <2>2, <2>3, TwoBytesOf DEF PlainBytes
  <2>4. CASE v # NULL
    <3>1. v \in Seq(Byte) /\ Len(v) \in 0 .. Word - 1
      <4>1. Len(v) < NoLength /\ NoLength = Word - 1
        BY <1>2, <2>4 DEF NoLength, Word
      <4>2. v \in Seq(Byte) /\ Len(v) \in Nat
        BY <2>1, <2>4
      <4> QED BY <2>2, <4>1, <4>2, PartsOfWords
    <3>2. TwoBytes(Len(v)) \in Seq(Byte)
      BY <3>1, TwoBytesOf
    <3>3. TwoBytes(Len(v)) \o v \in Seq(Byte)
      BY <3>1, <3>2, Joined
    <3> QED BY <1>2, <2>4, <3>1, <3>3 DEF PlainBytes
  <2> QED BY <2>3, <2>4
<1> QED BY <1>1, <1>2 DEF PlainField

LEMMA WithIs ==
  ASSUME NEW d, NEW name, NEW v, Reader(d)
  PROVE  With(d, name, v) = Further(d, 0, 0, name, v)
<1>1. [d EXCEPT !.obj[name] = v] = [d EXCEPT !.obj = [d.obj EXCEPT ![name] = v]]
  OBVIOUS
<1>2. d = [pos |-> d.pos, count |-> d.count, ok |-> d.ok, obj |-> d.obj]
  BY DEF Reader
<1>3. ASSUME NEW w
      PROVE  [d EXCEPT !.obj = w]
               = [pos |-> d.pos, count |-> d.count, ok |-> d.ok, obj |-> w]
  BY <1>2
<1>4. [d EXCEPT !.obj = [d.obj EXCEPT ![name] = v]]
        = [pos |-> d.pos, count |-> d.count, ok |-> d.ok,
           obj |-> [d.obj EXCEPT ![name] = v]]
  BY <1>3, Zenon
<1>5. d.pos + 0 = d.pos /\ d.count - 0 = d.count
  BY DEF Reader
<1> QED BY <1>1, <1>4, <1>5, Zenon DEF With, Further

\* A length fits two bytes, and so does the one that stands for null.
LEMMA LengthsFit == NoLength \in Nat \ {0} /\ Word \in Nat /\ NoLength = Word - 1
<1>1. ByteBase \in Nat /\ ByteBase >= 2
  BY ByteBaseAssumption
<1>2. ByteBase * ByteBase \in Nat /\ ByteBase * ByteBase >= 2
  BY <1>1
<1> QED BY <1>2 DEF NoLength, Word

LEMMA SetTextSame ==
  ASSUME NEW v, v = NULL \/ (v \in Seq(Byte) /\ Len(v) < NoLength)
  PROVE  SetText(v) = v
<1>1. CASE v = NULL
  BY <1>1 DEF SetText
<1>2. CASE v # NULL
  <2>1. v \in Seq(Byte) /\ Len(v) \in Nat /\ Len(v) < NoLength
    BY <1>2
  <2>2. NoLength + 1 = Word /\ Len(v) < Word
    BY <2>1, LengthsFit
  <2>3. Len(v) % (NoLength + 1) = Len(v)
    BY <2>1, <2>2, PartsOfWords
  <2>4. Len(v) # NoLength
    BY <2>1, LengthsFit
  <2>5. SubSeq(v, 1, Len(v)) = v
    BY <2>1, SubSeqFull
  <2> QED BY <1>2, <2>3, <2>4, <2>5, Zenon DEF SetText
<1> QED BY <1>1, <1>2

\* Two bytes and the number they are.
LEMMA TwoBytesNumber ==
  ASSUME NEW n \in 0 .. NoLength
  PROVE  /\ TwoBytes(n) \in Seq(Byte) /\ Len(TwoBytes(n)) = 2
         /\ Number(TwoBytes(n)) = n
<1>1. n \in 0 .. Word - 1
  BY LengthsFit
<1> QED BY <1>1, TwoBytesOf DEF Number

\* Where the length of a text is, ReadText takes it for what it is.
LEMMA LengthRead ==
  ASSUME NEW m \in Memories, NEW d, Reader(d), NEW n \in 0 .. NoLength,
         Agrees(m, d.pos, TwoBytes(n)), d.pos + 2 <= Len(m.bytes)
  PROVE  Number(BytesAt(m, d, 2)) = n
<1>1. TwoBytes(n) \in Seq(Byte) /\ Len(TwoBytes(n)) = 2 /\ Number(TwoBytes(n)) = n
  BY TwoBytesNumber
<1>2. BytesAt(m, d, Len(TwoBytes(n))) = TwoBytes(n)
  <2>1. d.pos + Len(TwoBytes(n)) <= Len(m.bytes)
    BY <1>1
  <2> QED BY <1>1, <2>1, AgreesRead
<1> QED BY <1>1, <1>2

LEMMA FixedRead ==
  ASSUME NEW m \in Memories, NEW d, Reader(d), d.ok, NEW f,
         NEW v \in Seq(Byte), Len(v) = f.size, f.width = f.size,
         Agrees(m, d.pos, v)
  PROVE  /\ d.count >= Len(v) /\ d.pos + Len(v) <= Len(m.bytes)
              => ReadFixed(m, d, f) = Further(d, Len(v), Len(v), f.name, v)
         /\ d.count < Len(v) => ReadFixed(m, d, f) = Refused(d, Len(v))
<1>0. d.count \in Int /\ Len(v) \in Nat
  BY DEF Reader
<1>1. ASSUME d.count >= Len(v), d.pos + Len(v) <= Len(m.bytes)
      PROVE  ReadFixed(m, d, f) = Further(d, Len(v), Len(v), f.name, v)
  <2>1. ~Short(d, f.size)
    BY <1>0, <1>1 DEF Short
  <2>2. BytesAt(m, d, f.width) = v
    BY <1>1, AgreesRead
  <2>3. ReadFixed(m, d, f) = Ahead(d, f.size, f.size, f.name, v)
    BY <2>1, <2>2, Zenon DEF ReadFixed, Ahead
  <2>4. Ahead(d, f.size, f.size, f.name, v) = Further(d, f.size, f.size, f.name, v)
    BY FurtherIs
  <2> QED BY <2>3, <2>4, Zenon
<1>2. ASSUME d.count < Len(v) PROVE ReadFixed(m, d, f) = Refused(d, Len(v))
  BY <1>2 DEF ReadFixed, Short
<1> QED BY <1>1, <1>2

LEMMA TwoFurther ==
  \A p, b \in Int, k \in Nat : (p + 2) + k = p + (2 + k) /\ (b - 2) - k = b - (2 + k)
OBVIOUS

\* The text v, of which the first two bytes say n, is put into the bytes q.
PutInto(v, n, q) ==
  /\ n \in 0 .. NoLength /\ q \in Seq(Byte)
  /\ v = NULL \/ (v \in Seq(Byte) /\ Len(v) < NoLength)
  /\ v = NULL => n = NoLength /\ q = TwoBytes(n)
  /\ v # NULL => n = Len(v) /\ q = TwoBytes(n) \o v

\* Where the bytes of a text are, ReadText reads it, or refuses it when fewer
\* bytes are counted.
LEMMA TextRead ==
  ASSUME NEW m \in Memories, NEW d, NEW f, NEW v, NEW n, NEW q, Reader(d), d.ok,
         PutInto(v, n, q), Agrees(m, d.pos, q)
  PROVE  /\ d.count >= Len(q) /\ d.pos + Len(q) <= Len(m.bytes)
              => ReadText(m, d, f) = Further(d, Len(q), Len(q), f.name, v)
         /\ d.count < Len(q) /\ d.pos + d.count = Len(m.bytes) /\ d.count >= 0
              => ~ReadText(m, d, f).ok /\ ReadText(m, d, f).pos <= Len(m.bytes)
<1> DEFINE e == Moved(d, 2, 2)
           k == IF v = NULL THEN 0 ELSE Len(v)
<1>0. /\ n \in 0 .. NoLength /\ q \in Seq(Byte)
      /\ v = NULL \/ (v \in Seq(Byte) /\ Len(v) < NoLength)
      /\ v = NULL => n = NoLength /\ q = TwoBytes(n)
      /\ v # NULL => n = Len(v) /\ q = TwoBytes(n) \o v
  BY DEF PutInto
<1> USE <1>0
<1>1. /\ d.pos \in Nat /\ d.count \in Int /\ Len(m.bytes) \in Nat /\ Len(q) \in Nat
      /\ k \in Nat /\ n \in Nat /\ NoLength \in Nat /\ NoLength # 0
  BY LengthsFit DEF Reader, Memories
<1>2. TwoBytes(n) \in Seq(Byte) /\ Len(TwoBytes(n)) = 2
  BY TwoBytesNumber
<1>3. /\ Len(q) = 2 + k /\ Agrees(m, d.pos, TwoBytes(n))
      /\ v # NULL => Agrees(m, d.pos + 2, v)
  <2>1. CASE v = NULL
    BY <1>2, <2>1
  <2>2. CASE v # NULL
    <3>1. v \in Seq(Byte) /\ q = TwoBytes(n) \o v
      BY <2>2
    <3>2. Len(q) = 2 + Len(v)
      <4>1. Len(TwoBytes(n) \o v) = Len(TwoBytes(n)) + Len(v)
        BY <1>2, <3>1, Joined
      <4> QED BY <1>2, <3>1, <4>1, Zenon
    <3>3. Agrees(m, d.pos, TwoBytes(n)) /\ Agrees(m, d.pos + 2, v)
      BY <1>1, <1>2, <3>1, AgreesParts
    <3> QED BY <2>2, <3>2, <3>3
  <2> QED BY <2>1, <2>2
<1>4. /\ e = [pos |-> d.pos + 2, count |-> d.count - 2, ok |-> d.ok, obj |-> d.obj]
      /\ Reader(e) /\ e.pos = d.pos + 2 /\ e.count = d.count - 2
      /\ e.ok = d.ok /\ e.obj = d.obj
  <2>1. e = [pos |-> d.pos + 2, count |-> d.count - 2, ok |-> d.ok, obj |-> d.obj]
    BY MovedIs
  <2>2. d.pos + 2 \in Nat /\ d.count - 2 \in Int
    BY <1>1
  <2> HIDE DEF e
  <2> QED BY <2>1, <2>2 DEF Reader
<1> HIDE DEF e, k
<1>a. e.pos = d.pos + 2 /\ e.count = d.count - 2
  BY <1>4
<1>b. (d.pos + 2) + k = d.pos + (2 + k) /\ (d.count - 2) - k = d.count - (2 + k)
  BY <1>1, TwoFurther, SMTT(20)
<1>5. n \in {0, NoLength} <=> k = 0
  BY <1>1 DEF k
<1>6. ASSUME d.count >= 2, d.pos + 2 <= Len(m.bytes)
      PROVE  /\ ~Short(d, 2) /\ Number(BytesAt(m, d, 2)) = n
             /\ k = 0 => ReadText(m, d, f) = With(e, f.name, v)
             /\ k # 0 => ReadText(m, d, f) =
                           IF Short(e, n) THEN Refused(e, n)
                           ELSE Ahead(e, n, n, f.name, SetText(BytesAt(m, e, n)))
  <2>1. ~Short(d, 2)
    BY <1>1, <1>6 DEF Short
  <2>2. Number(BytesAt(m, d, 2)) = n
    BY <1>3, <1>6, LengthRead
  <2>3. ASSUME k = 0 PROVE ReadText(m, d, f) = With(e, f.name, v)
    <3>1. n \in {0, NoLength} /\ (IF n = 0 THEN <<>> ELSE NULL) = v
      <4>1. n \in {0, NoLength}
        BY <1>5, <2>3
      <4>2. CASE v = NULL
        BY <1>1, <4>2
      <4>3. CASE v # NULL
        <5>1. n = 0 /\ v \in Seq(Byte) /\ Len(v) = 0
          BY <2>3, <4>3 DEF k
        <5>2. v = <<>>
          BY <5>1
        <5> QED BY <5>1, <5>2
      <4> QED BY <4>1, <4>2, <4>3
    <3> QED BY <2>1, <2>2, <3>1, Zenon DEF ReadText, With, Moved, e
  <2>4. ASSUME k # 0
        PROVE  ReadText(m, d, f) =
                 IF Short(e, n) THEN Refused(e, n)
                 ELSE Ahead(e, n, n, f.name, SetText(BytesAt(m, e, n)))
    <3>1. n \notin {0, NoLength}
      BY <1>5, <2>4
    <3> QED BY <2>1, <2>2, <3>1, Zenon DEF ReadText, Ahead, Moved, e
  <2> QED BY <2>1, <2>2, <2>3, <2>4
<1>7. k # 0 => n = k /\ v # NULL /\ n = Len(v)
  BY DEF k
<1>8. ASSUME d.count >= Len(q), d.pos + Len(q) <= Len(m.bytes)
      PROVE  ReadText(m, d, f) = Further(d, Len(q), Len(q), f.name, v)
  <2>1. d.count >= 2 /\ d.pos + 2 <= Len(m.bytes)
    BY <1>1, <1>3, <1>8
  <2>2. CASE k = 0
    <3>1. ReadText(m, d, f) = With(e, f.name, v)
      BY <1>6, <2>1, <2>2
    <3>2. With(e, f.name, v) = Further(e, 0, 0, f.name, v)
      BY <1>4, WithIs
    <3>3. e.pos + 0 = d.pos + Len(q) /\ e.count - 0 = d.count - Len(q)
      BY <1>3, <1>a, <1>b, <2>2, Zenon
    <3> QED BY <1>4, <3>1, <3>2, <3>3 DEF Further
  <2>3. CASE k # 0
    <3>1. ~Short(e, n)
      BY <1>1, <1>3, <1>4, <1>7, <1>8, <2>3 DEF Short
    <3>2. BytesAt(m, e, n) = v /\ SetText(v) = v
      <4>1. Agrees(m, e.pos, v) /\ e.pos + Len(v) <= Len(m.bytes) /\ v \in Seq(Byte)
        BY <1>1, <1>3, <1>4, <1>7, <1>8, <2>3
      <4>2. BytesAt(m, e, Len(v)) = v
        BY <1>4, <4>1, AgreesRead
      <4> QED BY <1>7, <2>3, <4>2, SetTextSame
    <3>3. ReadText(m, d, f) = Ahead(e, n, n, f.name, v)
      BY <1>6, <2>1, <2>3, <3>1, <3>2
    <3>4. Ahead(e, n, n, f.name, v) = Further(e, n, n, f.name, v)
      BY <1>4, FurtherIs
    <3>5. e.pos + n = d.pos + Len(q) /\ e.count - n = d.count - Len(q)
      BY <1>3, <1>a, <1>b, <1>7, <2>3, Zenon
    <3> QED BY <1>4, <3>3, <3>4, <3>5 DEF Further
  <2> QED BY <2>2, <2>3
<1>9. ASSUME d.count < Len(q), d.pos + d.count = Len(m.bytes), d.count >= 0
      PROVE  ~ReadText(m, d, f).ok /\ ReadText(m, d, f).pos <= Len(m.bytes)
  <2>1. CASE d.count < 2
    <3>1. ReadText(m, d, f) = Refused(d, 2)
      BY <2>1 DEF ReadText, Short
    <3>2. ~Refused(d, 2).ok /\ Refused(d, 2).pos = d.pos
      BY RefusedIs
    <3> QED BY <1>1, <1>9, <3>1, <3>2
  <2>2. CASE ~(d.count < 2)
    <3>1. k # 0 /\ d.count >= 2 /\ d.pos + 2 <= Len(m.bytes)
      BY <1>1, <1>3, <1>9, <2>2
    <3>2. Short(e, n)
      BY <1>1, <1>3, <1>4, <1>7, <1>9, <3>1 DEF Short
    <3>3. ReadText(m, d, f) = Refused(e, n)
      BY <1>6, <3>1, <3>2
    <3>4. ~Refused(e, n).ok /\ Refused(e, n).pos = e.pos
      BY <1>1, <1>4, RefusedIs
    <3> QED BY <1>4, <3>1, <3>3, <3>4
  <2> QED BY <2>1, <2>2
<1> QED BY <1>8, <1>9

\* All of q is there to be read, and counted; and reading it ended where it
\* ends, with v under its name.
Prepared(m, d, q) ==
  /\ Reader(d) /\ d.ok /\ d.count >= Len(q)
  /\ Agrees(m, d.pos, q) /\ d.pos + Len(q) <= Len(m.bytes)
Advanced(d, e, n, name, v) ==
  /\ Reader(e) /\ e.ok /\ e.pos = d.pos + n /\ e.count >= d.count - n
  /\ e.obj = [d.obj EXCEPT ![name] = v]

\* A reader that counts what is left of the memory, all of it.
Counts(m, d) == Reader(d) /\ d.count \in Nat /\ d.pos + d.count = Len(m.bytes)

LEMMA FurtherAdvances ==
  ASSUME NEW d, NEW n \in Nat, NEW name, NEW v, Reader(d), d.ok
  PROVE  Advanced(d, Further(d, n, n, name, v), n, name, v)
<1>1. d.pos \in Nat /\ d.count \in Int
  BY DEF Reader
<1>2. d.pos + n \in Nat /\ d.count - n \in Int /\ d.count - n >= d.count - n
  BY <1>1
<1> QED BY <1>2 DEF Further, Advanced, Reader

LEMMA FurtherCounts ==
  ASSUME NEW m \in Memories, NEW d, NEW n \in Nat, NEW name, NEW v,
         Counts(m, d), d.count >= n
  PROVE  /\ Counts(m, Further(d, n, n, name, v))
         /\ Further(d, n, n, name, v).pos = d.pos + n
<1>1. d.pos \in Nat /\ d.count \in Nat /\ d.pos + d.count = Len(m.bytes)
  BY DEF Counts, Reader
<1>2. /\ d.pos + n \in Nat /\ d.count - n \in Nat
      /\ (d.pos + n) + (d.count - n) = d.pos + d.count
  BY <1>1
<1> QED BY <1>1, <1>2 DEF Further, Counts, Reader

\* What ReadFixed and ReadText make of the bytes of a field.
LEMMA PlainFieldIs ==
  ASSUME NEW m \in Memories, NEW d, Reader(d), d.ok, NEW c, NEW f,
         PlainField(c, f), NEW v, PlainValue(f, v), PlainFits(f, v),
         NEW q \in Seq(Byte), q = PlainBytes(f, v), Agrees(m, d.pos, q)
  PROVE  /\ d.count >= Len(q) /\ d.pos + Len(q) <= Len(m.bytes)
              => ReadPlainField(m, d, f) = Further(d, Len(q), Len(q), f.name, v)
         /\ d.count < Len(q) /\ d.pos + d.count = Len(m.bytes) /\ d.count >= 0
              => /\ ~ReadPlainField(m, d, f).ok
                 /\ ReadPlainField(m, d, f).pos <= Len(m.bytes)
<1>0. f.kind = "text" /\ v # NULL => Len(v) < NoLength
  BY DEF PlainFits
<1>1. CASE f.kind = "fixed"
  <2>1. q = v /\ v \in Seq(Byte) /\ Len(v) = f.size /\ f.width = f.size
    BY <1>0, <1>1, PlainBytesIs
  <2>2. ReadPlainField(m, d, f) = ReadFixed(m, d, f)
    BY <1>1 DEF ReadPlainField
  <2>3. ASSUME d.count >= Len(q), d.pos + Len(q) <= Len(m.bytes)
        PROVE  ReadPlainField(m, d, f) = Further(d, Len(q), Len(q), f.name, v)
    BY <2>1, <2>2, <2>3, FixedRead
  <2>4. ASSUME d.count < Len(q), d.pos + d.count = Len(m.bytes), d.count >= 0
        PROVE  /\ ~ReadPlainField(m, d, f).ok
               /\ ReadPlainField(m, d, f).pos <= Len(m.bytes)
    <3>1. ReadPlainField(m, d, f) = Refused(d, Len(v))
      BY <2>1, <2>2, <2>4, FixedRead
    <3>2. ~Refused(d, Len(v)).ok /\ Refused(d, Len(v)).pos = d.pos
      BY <2>1, RefusedIs
    <3>3. d.pos \in Nat /\ d.count \in Int
      BY DEF Reader
    <3>4. d.pos <= Len(m.bytes)
      BY <2>4, <3>3
    <3> QED BY <3>1, <3>2, <3>4
  <2> QED BY <2>3, <2>4
<1>2. CASE f.kind = "text"
  <2>1. v = NULL \/ (v \in Seq(Byte) /\ Len(v) < NoLength)
    BY <1>0, <1>2, PlainBytesIs
  <2>2. PICK n : (v = NULL => n = NoLength) /\ (v # NULL => n = Len(v))
    OBVIOUS
  <2>3. n \in 0 .. NoLength
    <3>1. v # NULL => Len(v) \in Nat /\ Len(v) < NoLength
      BY <2>1
    <3> QED BY <2>2, <3>1, LengthsFit
  <2>4. (v = NULL => q = TwoBytes(n)) /\ (v # NULL => q = TwoBytes(n) \o v)
    BY <1>2, <2>2 DEF PlainBytes
  <2>5. PutInto(v, n, q)
    BY <2>1, <2>2, <2>3, <2>4 DEF PutInto
  <2>6. ReadPlainField(m, d, f) = ReadText(m, d, f)
    BY <1>2 DEF ReadPlainField
  <2>7. /\ d.count >= Len(q) /\ d.pos + Len(q) <= Len(m.bytes)
              => ReadText(m, d, f) = Further(d, Len(q), Len(q), f.name, v)
        /\ d.count < Len(q) /\ d.pos + d.count = Len(m.bytes) /\ d.count >= 0
              => ~ReadText(m, d, f).ok /\ ReadText(m, d, f).pos <= Len(m.bytes)
    BY <2>5, TextRead
  <2> QED BY <2>6, <2>7, Zenon
<1> QED BY <1>1, <1>2 DEF PlainField

LEMMA PlainFieldRead ==
  ASSUME NEW m \in Memories, NEW d, NEW c, NEW f, PlainField(c, f), NEW v,
         PlainValue(f, v), PlainFits(f, v), Prepared(m, d, PlainBytes(f, v))
  PROVE  Advanced(d, ReadPlainField(m, d, f), Len(PlainBytes(f, v)), f.name, v)
<1>1. f.kind = "text" /\ v # NULL => Len(v) < NoLength
  BY DEF PlainFits
<1>2. PICK q \in Seq(Byte) : q = PlainBytes(f, v)
  BY <1>1, PlainBytesIs
<1>3. /\ Reader(d) /\ d.ok /\ d.count >= Len(q) /\ Agrees(m, d.pos, q)
      /\ d.pos + Len(q) <= Len(m.bytes)
  BY <1>2 DEF Prepared
<1>4. ReadPlainField(m, d, f) = Further(d, Len(q), Len(q), f.name, v)
  BY <1>2, <1>3, PlainFieldIs
<1>5. Advanced(d, Further(d, Len(q), Len(q), f.name, v), Len(q), f.name, v)
  BY <1>3, FurtherAdvances
<1> QED BY <1>2, <1>4, <1>5

LEMMA PlainFieldCut ==
  ASSUME NEW m \in Memories, NEW d, NEW c, NEW f, PlainField(c, f), NEW v,
         PlainValue(f, v), PlainFits(f, v), d.ok, Counts(m, d),
         Agrees(m, d.pos, PlainBytes(f, v))
  PROVE  LET e == ReadPlainField(m, d, f)
         IN  \/ ~e.ok /\ e.pos <= Len(m.bytes)
             \/ Counts(m, e) /\ e.pos = d.pos + Len(PlainBytes(f, v))
<1>1. f.kind = "text" /\ v # NULL => Len(v) < NoLength
  BY DEF PlainFits
<1>2. PICK q \in Seq(Byte) : q = PlainBytes(f, v)
  BY <1>1, PlainBytesIs
<1>3. /\ Reader(d) /\ d.count \in Nat /\ d.pos \in Nat
      /\ d.pos + d.count = Len(m.bytes) /\ Len(q) \in Nat
  BY DEF Counts, Reader
<1>4. CASE d.count >= Len(q)
  <2>1. d.pos + Len(q) <= Len(m.bytes)
    BY <1>3, <1>4
  <2>2. ReadPlainField(m, d, f) = Further(d, Len(q), Len(q), f.name, v)
    BY <1>2, <1>3, <1>4, <2>1, PlainFieldIs
  <2> QED BY <1>2, <1>4, <2>2, FurtherCounts
<1>5. CASE d.count < Len(q)
  BY <1>2, <1>3, <1>5, PlainFieldIs
<1> QED BY <1>3, <1>4, <1>5

LEMMA PieceAt ==
  ASSUME NEW m \in Memories, NEW p \in Nat, NEW k \in Nat, NEW pieces, NEW joined,
         pieces \in [1 .. k -> Seq(Byte)], Joins(pieces, k, joined),
         Agrees(m, p, joined[k])
  PROVE  \A i \in 1 .. k :
           /\ Agrees(m, p + Len(joined[i - 1]), pieces[i])
           /\ Len(joined[i]) = Len(joined[i - 1]) + Len(pieces[i])
           /\ Len(joined[i]) <= Len(joined[k])
<1>1. /\ joined \in [0 .. k -> Seq(Byte)]
      /\ \A i \in 1 .. k : joined[i] = joined[i - 1] \o pieces[i]
  BY DEF Joins
<1>2. ASSUME NEW i \in 1 .. k
      PROVE  /\ joined[i] \in Seq(Byte) /\ joined[i - 1] \in Seq(Byte)
             /\ pieces[i] \in Seq(Byte)
             /\ Len(joined[i]) = Len(joined[i - 1]) + Len(pieces[i])
             /\ Len(joined[i - 1]) <= Len(joined[i])
             /\ Agrees(m, p, joined[i]) =>
                  /\ Agrees(m, p, joined[i - 1])
                  /\ Agrees(m, p + Len(joined[i - 1]), pieces[i])
  <2>1. i \in 0 .. k /\ i - 1 \in 0 .. k
    OBVIOUS
  <2>2. PICK a \in Seq(Byte), b \in Seq(Byte) : a = joined[i - 1] /\ b = pieces[i]
    BY <1>1, <2>1
  <2>3. joined[i] = a \o b /\ joined[i] \in Seq(Byte)
    BY <1>1, <2>1, <2>2
  <2>4. Len(a \o b) = Len(a) + Len(b) /\ Len(a) \in Nat /\ Len(b) \in Nat
    BY Joined
  <2>5. Agrees(m, p, a \o b) => Agrees(m, p, a) /\ Agrees(m, p + Len(a), b)
    BY AgreesParts
  <2>6. Len(a) <= Len(a) + Len(b)
    BY <2>4
  <2> QED BY <2>2, <2>3, <2>4, <2>5, <2>6, Zenon
<1> DEFINE P == {j \in 0 .. k : /\ Agrees(m, p, joined[k - j])
                                /\ Len(joined[k - j]) <= Len(joined[k])}
<1>3. 0 \in P
  <2>1. k - 0 = k /\ 0 \in 0 .. k
    OBVIOUS
  <2>2. joined[k] \in Seq(Byte)
    <3>1. k \in 0 .. k
      OBVIOUS
    <3> QED BY <1>1, <3>1
  <2>3. Len(joined[k]) <= Len(joined[k])
    BY <2>2
  <2> QED BY <2>1, <2>3
<1>4. ASSUME NEW j \in 1 .. k, j - 1 \in P PROVE j \in P
  <2>1. PICK i \in 1 .. k : i = k - (j - 1) /\ i - 1 = k - j
    <3>1. k - (j - 1) \in 1 .. k /\ (k - (j - 1)) - 1 = k - j
      OBVIOUS
    <3> QED BY <3>1
  <2>2. Agrees(m, p, joined[i]) /\ Len(joined[i]) <= Len(joined[k])
    BY <1>4, <2>1
  <2>3. /\ Agrees(m, p, joined[i - 1]) /\ Len(joined[i - 1]) <= Len(joined[i])
    BY <1>2, <2>2
  <2>4. /\ Len(joined[i - 1]) \in Nat /\ Len(joined[i]) \in Nat
        /\ Len(joined[k]) \in Nat
    <3>1. joined[k] \in Seq(Byte)
      <4>1. k \in 0 .. k
        OBVIOUS
      <4> QED BY <1>1, <4>1
    <3>2. joined[i] \in Seq(Byte) /\ joined[i - 1] \in Seq(Byte)
      BY <1>2
    <3> QED BY <3>1, <3>2
  <2>5. Len(joined[i - 1]) <= Len(joined[k])
    BY <2>2, <2>3, <2>4
  <2> QED BY <2>1, <2>3, <2>5
<1>5. 0 .. k \subseteq P
  <2> HIDE DEF P
  <2> QED BY <1>3, <1>4, Climbing
<1>6. ASSUME NEW i \in 1 .. k
      PROVE  Agrees(m, p, joined[i]) /\ Len(joined[i]) <= Len(joined[k])
  <2>1. k - i \in 0 .. k /\ k - (k - i) = i
    OBVIOUS
  <2> QED BY <1>5, <2>1
<1> QED BY <1>2, <1>6

\* What reading does with a field on each of the levels, and with the items of
\* a vector; and its course over the fields of a class, or over the items.
StepAt(level, m, d, f) ==
  IF level = 0 THEN ReadPlainField(m, d, f)
  ELSE IF level = 1 THEN ReadInnerField(m, d, f)
  ELSE IF level = 2 THEN ReadField(m, d, f)
  ELSE ReadItem(m, d, f[1], f[2])
Passes(s, level, m, a, fs) ==
  s = [n \in 0 .. Len(fs) |-> IF n = 0 THEN a ELSE StepAt(level, m, s[n - 1], fs[n])]

LEMMA PassExists ==
  ASSUME NEW level, NEW m, NEW a, NEW fs, Len(fs) \in Nat
  PROVE  \E s : Passes(s, level, m, a, fs)
<1> DEFINE G(s, k) == s = [n \in 0 .. k |-> IF n = 0 THEN a
                                            ELSE StepAt(level, m, s[n - 1], fs[n])]
           P == {k \in 0 .. Len(fs) : \E s : G(s, k)}
<1>1. 0 \in P
  <2>1. G([n \in 0 .. 0 |-> a], 0)
    OBVIOUS
  <2> HIDE DEF G
  <2> QED BY <2>1
<1>2. ASSUME NEW k \in 1 .. Len(fs), k - 1 \in P PROVE k \in P
  <2>1. PICK s : G(s, k - 1)
    BY <1>2
  <2> DEFINE t == [n \in 0 .. k |-> IF n = k THEN StepAt(level, m, s[k - 1], fs[k])
                                    ELSE s[n]]
  <2>2. ASSUME NEW n \in 0 .. k
        PROVE  t[n] = IF n = 0 THEN a ELSE StepAt(level, m, t[n - 1], fs[n])
    <3>1. CASE n = k
      <4>1. n # 0 /\ k - 1 \in 0 .. k /\ k - 1 # k
        BY <3>1
      <4>2. t[k - 1] = s[k - 1]
        BY <4>1
      <4> QED BY <3>1, <4>1, <4>2
    <3>2. CASE n # k
      <4>1. n \in 0 .. k - 1 /\ t[n] = s[n]
        BY <3>2
      <4>2. s[n] = IF n = 0 THEN a ELSE StepAt(level, m, s[n - 1], fs[n])
        BY <2>1, <4>1
      <4>3. n # 0 => t[n - 1] = s[n - 1]
        <5>1. n # 0 => n - 1 \in 0 .. k /\ n - 1 # k
          BY <4>1
        <5> QED BY <5>1
      <4> QED BY <4>1, <4>2, <4>3
    <3> QED BY <3>1, <3>2
  <2>3. G(t, k)
    BY <2>2
  <2> HIDE DEF G, t
  <2> QED BY <2>3
<1>3. Len(fs) \in P
  <2> HIDE DEF P
  <2>1. 0 .. Len(fs) \subseteq P
    BY <1>1, <1>2, Climbing
  <2> QED BY <2>1
<1> QED BY <1>3 DEF Passes

\* Every piece, where it is ready, is read into the field it was made of.
AllRead(level, m, fs, pieces, o) ==
  \A i \in 1 .. Len(fs) : \A d :
    Prepared(m, d, pieces[i])
      => Advanced(d, StepAt(level, m, d, fs[i]), Len(pieces[i]), fs[i].name, o[fs[i].name])

\* A reader i fields into the object o of the class c, of which it has read the
\* first byte and n more; it was at pos with count to go.
Within(c, o, pos, count, d, i, n) ==
  /\ Reader(d) /\ d.ok /\ d.pos = pos + (1 + n) /\ d.count >= count - (1 + n)
  /\ d.obj = [x \in FieldNames(c) |-> d.obj[x]]
  /\ \A j \in 1 .. i : d.obj[Written[c][j].name] = o[Written[c][j].name]

LEMMA OneOn == \A p, n, b \in Int : (p + (1 + n)) + b = p + (1 + (n + b))
OBVIOUS

LEMMA OneLess ==
  \A n, b, u, w, k \in Int :
    u >= k - (1 + n) /\ w >= u - b => w >= k - (1 + (n + b))
OBVIOUS

LEMMA WithinStep ==
  ASSUME NEW c, NEW o, NEW pos \in Nat, NEW count \in Int, NEW d, NEW e, NEW n \in Nat,
         NEW b \in Nat, Known(c), NEW i \in 1 .. Len(Written[c]),
         Within(c, o, pos, count, d, i - 1, n),
         Advanced(d, e, b, Written[c][i].name, o[Written[c][i].name])
  PROVE  Within(c, o, pos, count, e, i, n + b)
<1> DEFINE name == Written[c][i].name
<1>1. /\ Reader(d) /\ d.pos = pos + (1 + n) /\ d.count >= count - (1 + n)
      /\ d.obj = [x \in FieldNames(c) |-> d.obj[x]]
      /\ \A j \in 1 .. i - 1 : d.obj[Written[c][j].name] = o[Written[c][j].name]
  BY DEF Within
<1>2. /\ Reader(e) /\ e.ok /\ e.pos = d.pos + b /\ e.count >= d.count - b
      /\ e.obj = [d.obj EXCEPT ![name] = o[name]]
  BY DEF Advanced
<1>3. d.pos \in Nat /\ d.count \in Int /\ e.count \in Int
  BY <1>1, <1>2 DEF Reader
<1>4. e.pos = pos + (1 + (n + b)) /\ e.count >= count - (1 + (n + b))
  <2>1. (pos + (1 + n)) + b = pos + (1 + (n + b))
    BY OneOn
  <2>2. d.count >= count - (1 + n) /\ e.count >= d.count - b
    BY <1>1, <1>2, Zenon
  <2>3. n \in Int /\ b \in Int
    OBVIOUS
  <2>4. e.count >= count - (1 + (n + b))
    BY <1>3, <2>2, <2>3, OneLess, Zenon
  <2> QED BY <1>1, <1>2, <2>1, <2>4, Zenon
<1>5. \A j \in 1 .. i : Written[c][j].name \in FieldNames(c)
  <2>1. DOMAIN Written[c] = 1 .. Len(Written[c]) /\ Len(Written[c]) \in Nat
    BY DEF Known
  <2>2. \A j \in 1 .. i : j \in DOMAIN Written[c]
    BY <2>1
  <2> QED BY <2>2 DEF FieldNames
<1>9. name \in FieldNames(c) /\ i \in Nat \ {0}
  <2>1. i \in 1 .. i /\ i \in Nat \ {0}
    BY DEF Known
  <2> QED BY <1>5, <2>1
<1> HIDE DEF name
<1>6. /\ DOMAIN d.obj = FieldNames(c)
      /\ e.obj = [x \in FieldNames(c) |-> IF x = name THEN o[name] ELSE d.obj[x]]
  <2>1. DOMAIN d.obj = FieldNames(c)
    BY <1>1, Zenon
  <2> QED BY <1>2, <2>1, Zenon
<1>7. e.obj = [x \in FieldNames(c) |-> e.obj[x]]
  BY <1>6, Zenon
<1>8. ASSUME NEW j \in 1 .. i
      PROVE  e.obj[Written[c][j].name] = o[Written[c][j].name]
  <2>1. CASE Written[c][j].name = name
    BY <1>6, <1>9, <2>1
  <2>2. CASE Written[c][j].name # name
    <3>1. j \in 1 .. i - 1
      BY <1>9, <2>2 DEF name
    <3>2. d.obj[Written[c][j].name] = o[Written[c][j].name]
      BY <1>1, <3>1
    <3>3. e.obj[Written[c][j].name] = d.obj[Written[c][j].name]
      BY <1>5, <1>6, <2>2, Zenon
    <3> QED BY <3>2, <3>3
  <2> QED BY <2>1, <2>2
<1> QED BY <1>2, <1>4, <1>7, <1>8 DEF Within

LEMMA BegunWithin ==
  ASSUME NEW m \in Memories, NEW c, NEW o, NEW pos \in Nat, NEW count \in Int,
         count >= 1, pos + 1 <= Len(m.bytes), m.bytes[pos + 1] = 0
  PROVE  Within(c, o, pos, count, Begun(m, c, pos, count), 0, 0)
<1>1. ByteAt(m, pos + 1) = 0
  BY DEF ByteAt
<1>2. Begun(m, c, pos, count)
        = [pos |-> pos + 1, count |-> count - 1,
           ok |-> TRUE, obj |-> New(c)]
  <2>1. ~(count < 1) /\ (count >= 1 /\ ByteAt(m, pos + 1) = 0) = TRUE
    BY <1>1
  <2> QED BY <2>1, Zenon DEF Begun
<1>3. /\ Begun(m, c, pos, count).pos = pos + 1
      /\ Begun(m, c, pos, count).count = count - 1
      /\ Begun(m, c, pos, count).ok
      /\ Begun(m, c, pos, count).obj = New(c)
      /\ Begun(m, c, pos, count)
           = [pos |-> Begun(m, c, pos, count).pos,
              count |-> Begun(m, c, pos, count).count,
              ok |-> Begun(m, c, pos, count).ok,
              obj |-> Begun(m, c, pos, count).obj]
  <2>1. PICK r : r = Begun(m, c, pos, count)
    OBVIOUS
  <2>2. r = [pos |-> pos + 1, count |-> count - 1, ok |-> TRUE, obj |-> New(c)]
    BY <1>2, <2>1
  <2>3. r.pos = pos + 1 /\ r.count = count - 1 /\ r.obj = New(c)
    BY <2>2
  <2>4. r.ok = TRUE
    BY <2>2
  <2>5. r = [pos |-> r.pos, count |-> r.count, ok |-> r.ok, obj |-> r.obj]
    BY <2>2, <2>3, <2>4, Zenon
  <2> QED BY <2>1, <2>3, <2>4, <2>5, Zenon
<1>4. New(c) = [x \in FieldNames(c) |-> New(c)[x]]
  BY DEF New
<1>5. /\ pos + 1 \in Nat /\ count - 1 \in Int /\ pos + 1 = pos + (1 + 0)
      /\ count - 1 >= count - (1 + 0)
  OBVIOUS
<1>6. Reader(Begun(m, c, pos, count))
  BY <1>3, <1>5 DEF Reader
<1>7. Begun(m, c, pos, count).obj
        = [x \in FieldNames(c) |-> Begun(m, c, pos, count).obj[x]]
  BY <1>3, <1>4, Zenon
<1>8. \A j \in 1 .. 0 : FALSE
  OBVIOUS
<1> QED BY <1>3, <1>5, <1>6, <1>7, <1>8 DEF Within

\* A reader that read the n bytes of o at pos, with count to go.
Done(e, pos, count, n, o) ==
  Reader(e) /\ e.ok /\ e.pos = pos + n /\ e.count >= count - n /\ e.obj = o

LEMMA WithinAll ==
  ASSUME NEW c, NEW o, NEW pos \in Nat, NEW count \in Int, NEW d, NEW n \in Nat,
         Known(c), o = [x \in FieldNames(c) |-> o[x]],
         Within(c, o, pos, count, d, Len(Written[c]), n)
  PROVE  Done(d, pos, count, 1 + n, o)
<1>1. /\ Reader(d) /\ d.ok /\ d.pos = pos + (1 + n) /\ d.count >= count - (1 + n)
      /\ d.obj = [x \in FieldNames(c) |-> d.obj[x]]
      /\ \A j \in 1 .. Len(Written[c]) :
           d.obj[Written[c][j].name] = o[Written[c][j].name]
  BY DEF Within
<1>2. \A x \in FieldNames(c) : \E j \in 1 .. Len(Written[c]) : x = Written[c][j].name
  BY DEF FieldNames, Known
<1>3. ASSUME NEW x \in FieldNames(c) PROVE d.obj[x] = o[x]
  <2>1. PICK j \in 1 .. Len(Written[c]) : x = Written[c][j].name
    BY <1>2
  <2>2. d.obj[Written[c][j].name] = o[Written[c][j].name]
    BY <1>1
  <2> QED BY <2>1, <2>2
<1>4. d.obj = o
  <2>1. [x \in FieldNames(c) |-> d.obj[x]] = [x \in FieldNames(c) |-> o[x]]
    BY <1>3, Zenon
  <2> QED BY <1>1, <2>1, Zenon
<1> QED BY <1>1, <1>4 DEF Done

\* Where there is the byte 0 and, behind it, what the pieces join to.
LEMMA BehindFirst ==
  ASSUME NEW m \in Memories, NEW pos \in Nat, NEW r \in Seq(Byte), NEW q,
         q = << 0 >> \o r, Agrees(m, pos, q)
  PROVE  /\ q \in Seq(Byte) /\ Len(q) = 1 + Len(r) /\ Agrees(m, pos + 1, r)
         /\ pos + 1 <= Len(m.bytes) => m.bytes[pos + 1] = 0
<1>1. << 0 >> \in Seq(Byte) /\ Len(<< 0 >>) = 1 /\ << 0 >>[1] = 0
  BY ByteBaseAssumption DEF Byte
<1>2. PICK z \in Seq(Byte) : z = << 0 >> /\ Len(z) = 1 /\ z[1] = 0
  BY <1>1
<1>3. q \in Seq(Byte) /\ Len(q) = 1 + Len(r)
  BY <1>2, Joined
<1>4. Agrees(m, pos, z) /\ Agrees(m, pos + 1, r)
  BY <1>2, AgreesParts
<1>5. pos + 1 <= Len(m.bytes) => m.bytes[pos + 1] = 0
  BY <1>2, <1>4 DEF Agrees
<1> QED BY <1>3, <1>4, <1>5

LEMMA OneMoreOn == \A p, n \in Int : (p + 1) + n = p + (1 + n)
OBVIOUS

LEMMA CountLeft ==
  ASSUME NEW n \in Int, NEW b \in Int, NEW r \in Int, NEW k \in Int,
         n + b <= r, k >= 1 + r
  PROVE  k - (1 + n) >= b
OBVIOUS

LEMMA RoomLeft ==
  ASSUME NEW n \in Int, NEW b \in Int, NEW r \in Int, NEW p \in Int, NEW z \in Int,
         n + b <= r, p + (1 + r) <= z
  PROVE  (p + (1 + n)) + b <= z
OBVIOUS

LEMMA ObjectRead ==
  ASSUME NEW m \in Memories, NEW level, NEW c, NEW o, NEW pieces, NEW q,
         NEW pos \in Nat, NEW count \in Int, NEW s,
         Known(c), o = [x \in FieldNames(c) |-> o[x]],
         pieces \in [1 .. Len(Written[c]) -> Seq(Byte)], Len(pieces) = Len(Written[c]),
         q = << 0 >> \o FlattenSeq(pieces), AllRead(level, m, Written[c], pieces, o),
         count >= Len(q), Agrees(m, pos, q), pos + Len(q) <= Len(m.bytes),
         Passes(s, level, m, Begun(m, c, pos, count), Written[c])
  PROVE  Done(s[Len(Written[c])], pos, count, Len(q), o)
<1>1. PICK k \in Nat \ {0} : k = Len(Written[c]) /\ DOMAIN Written[c] = 1 .. k
  BY DEF Known
<1>2. PICK joined : Joins(pieces, k, joined) /\ FlattenSeq(pieces) = joined[k]
  <2>1. \E joined : Joins(pieces, k, joined) /\ FlattenSeq(pieces) = joined[k]
    BY <1>1, Flattened
  <2> QED BY <2>1
<1>3. PICK r \in Seq(Byte) : r = joined[k]
  BY <1>2 DEF Joins
<1>4. /\ q \in Seq(Byte) /\ Len(q) = 1 + Len(r) /\ Agrees(m, pos + 1, r)
      /\ pos + 1 <= Len(m.bytes) => m.bytes[pos + 1] = 0
  <2>1. q = << 0 >> \o r
    BY <1>2, <1>3, Zenon
  <2> QED BY <2>1, BehindFirst
<1>5. \A i \in 1 .. k : /\ Agrees(m, (pos + 1) + Len(joined[i - 1]), pieces[i])
                        /\ Len(joined[i]) = Len(joined[i - 1]) + Len(pieces[i])
                        /\ Len(joined[i]) <= Len(r)
  <2>1. /\ pos + 1 \in Nat /\ Agrees(m, pos + 1, joined[k])
        /\ pieces \in [1 .. k -> Seq(Byte)] /\ Joins(pieces, k, joined)
    BY <1>1, <1>2, <1>3, <1>4
  <2>2. \A i \in 1 .. k : /\ Agrees(m, (pos + 1) + Len(joined[i - 1]), pieces[i])
                          /\ Len(joined[i]) = Len(joined[i - 1]) + Len(pieces[i])
                          /\ Len(joined[i]) <= Len(joined[k])
    BY <2>1, PieceAt
  <2> QED BY <1>3, <2>2
<1>6. \A i \in 0 .. k : Len(joined[i]) \in Nat
  BY <1>2 DEF Joins
<1>7. Len(r) \in Nat /\ Len(m.bytes) \in Nat
  BY DEF Memories
<1>8. /\ s[0] = Begun(m, c, pos, count)
      /\ \A i \in 1 .. k : s[i] = StepAt(level, m, s[i - 1], Written[c][i])
  <2>1. s = [n \in 0 .. k |-> IF n = 0 THEN Begun(m, c, pos, count)
                              ELSE StepAt(level, m, s[n - 1], Written[c][n])]
    BY <1>1, Zenon DEF Passes
  <2>2. 0 \in 0 .. k /\ \A i \in 1 .. k : i \in 0 .. k /\ i # 0
    OBVIOUS
  <2>3. ASSUME NEW n \in 0 .. k
        PROVE  s[n] = IF n = 0 THEN Begun(m, c, pos, count)
                      ELSE StepAt(level, m, s[n - 1], Written[c][n])
    BY <2>1, Zenon
  <2> QED BY <2>2, <2>3, Zenon
<1> DEFINE P == {i \in 0 .. k : Within(c, o, pos, count, s[i], i, Len(joined[i]))}
<1>9. 0 \in P
  <2>1. Len(joined[0]) = 0
    BY <1>2 DEF Joins
  <2>2. count >= 1 /\ pos + 1 <= Len(m.bytes)
    BY <1>4, <1>7
  <2>3. Within(c, o, pos, count, Begun(m, c, pos, count), 0, 0)
    BY <1>4, <2>2, BegunWithin
  <2> QED BY <1>8, <2>1, <2>3
<1>10. ASSUME NEW i \in 1 .. k, i - 1 \in P PROVE i \in P
  <2>0. PICK d : d = s[i - 1]
    OBVIOUS
  <2>1. PICK n \in Nat, b \in Nat :
          n = Len(joined[i - 1]) /\ b = Len(pieces[i]) /\ d = s[i - 1]
    <3>1. i - 1 \in 0 .. k
      OBVIOUS
    <3>2. pieces[i] \in Seq(Byte)
      BY <1>1
    <3>3. Len(joined[i - 1]) \in Nat /\ Len(pieces[i]) \in Nat
      BY <1>6, <3>1, <3>2
    <3> QED BY <2>0, <3>3, Zenon
  <2>2. Within(c, o, pos, count, d, i - 1, n)
    BY <1>10, <2>1
  <2>3. /\ Reader(d) /\ d.ok /\ d.pos = pos + (1 + n) /\ d.count >= count - (1 + n)
        /\ d.pos \in Nat /\ d.count \in Int
    BY <2>2 DEF Within, Reader
  <2>4. Agrees(m, (pos + 1) + n, pieces[i]) /\ Len(joined[i]) = n + b /\ n + b <= Len(r)
    BY <1>5, <2>1
  <2>5. (pos + 1) + n = d.pos /\ d.count >= b /\ d.pos + b <= Len(m.bytes)
    <3>1. Len(q) = 1 + Len(r) /\ pos + Len(q) <= Len(m.bytes) /\ count >= Len(q)
      BY <1>4
    <3>2. (pos + 1) + n = pos + (1 + n)
      BY <1>7, OneMoreOn
    <3>3. count - (1 + n) >= b /\ (pos + (1 + n)) + b <= Len(m.bytes)
      <4>1. count >= 1 + Len(r) /\ pos + (1 + Len(r)) <= Len(m.bytes) /\ n + b <= Len(r)
        BY <2>4, <3>1, Zenon
      <4>2. count - (1 + n) >= b
        BY <1>7, <4>1, CountLeft
      <4>3. (pos + (1 + n)) + b <= Len(m.bytes)
        BY <1>7, <4>1, RoomLeft, SMTT(20)
      <4> QED BY <4>2, <4>3
    <3>4. d.count >= b
      BY <2>3, <3>3
    <3> QED BY <2>3, <3>2, <3>3, <3>4
  <2>6. Prepared(m, d, pieces[i])
    BY <2>1, <2>3, <2>4, <2>5 DEF Prepared
  <2>7. Advanced(d, StepAt(level, m, d, Written[c][i]), b, Written[c][i].name,
                 o[Written[c][i].name])
    BY <1>1, <2>1, <2>6 DEF AllRead
  <2>8. Within(c, o, pos, count, StepAt(level, m, d, Written[c][i]), i, n + b)
    BY <1>1, <2>2, <2>7, WithinStep
  <2>9. s[i] = StepAt(level, m, d, Written[c][i]) /\ i \in 0 .. k
    BY <1>8, <2>1
  <2> QED BY <2>4, <2>8, <2>9
<1>11. 0 .. k \subseteq P
  <2> HIDE DEF P
  <2> QED BY <1>9, <1>10, Climbing
<1>12. Within(c, o, pos, count, s[k], k, Len(r))
  <2>1. k \in 0 .. k
    OBVIOUS
  <2> QED BY <1>3, <1>11, <2>1
<1>13. Done(s[k], pos, count, 1 + Len(r), o)
  BY <1>1, <1>7, <1>12, WithinAll
<1> QED BY <1>1, <1>4, <1>13

LEMMA ReadPlainIs ==
  ASSUME NEW m, NEW c, NEW pos, NEW count, Known(c)
  PROVE  \E s : /\ Passes(s, 0, m, Begun(m, c, pos, count), Written[c])
                /\ ReadPlain(m, c, pos, count) = s[Len(Written[c])]
<1> DEFINE fs == Written[c]
           G(s) == s = [n \in 0 .. Len(fs) |->
                          IF n = 0 THEN Begun(m, c, pos, count)
                          ELSE ReadPlainField(m, s[n - 1], fs[n])]
           t == CHOOSE s : G(s)
<1>1. \E s : Passes(s, 0, m, Begun(m, c, pos, count), fs)
  <2>1. Len(fs) \in Nat
    BY DEF Known
  <2> HIDE DEF fs
  <2> QED BY <2>1, PassExists
<1>2. \A s : Passes(s, 0, m, Begun(m, c, pos, count), fs) <=> G(s)
  BY Zenon DEF Passes, StepAt
<1>3. G(t)
  BY <1>1, <1>2, Zenon
<1>4. ReadPlain(m, c, pos, count) = t[Len(fs)]
  BY Zenon DEF ReadPlain, Known
<1> HIDE DEF t
<1> QED BY <1>2, <1>3, <1>4, Zenon

LEMMA ReadInnerIs ==
  ASSUME NEW m, NEW c, NEW pos, NEW count, Known(c)
  PROVE  \E s : /\ Passes(s, 1, m, Begun(m, c, pos, count), Written[c])
                /\ ReadInner(m, c, pos, count) = s[Len(Written[c])]
<1> DEFINE fs == Written[c]
           G(s) == s = [n \in 0 .. Len(fs) |->
                          IF n = 0 THEN Begun(m, c, pos, count)
                          ELSE ReadInnerField(m, s[n - 1], fs[n])]
           t == CHOOSE s : G(s)
<1>1. \E s : Passes(s, 1, m, Begun(m, c, pos, count), fs)
  <2>1. Len(fs) \in Nat
    BY DEF Known
  <2> HIDE DEF fs
  <2> QED BY <2>1, PassExists
<1>a. \A d, f : StepAt(1, m, d, f) = ReadInnerField(m, d, f)
  BY DEF StepAt
<1>2. \A s : Passes(s, 1, m, Begun(m, c, pos, count), fs) <=> G(s)
  BY <1>a, Zenon DEF Passes
<1>3. G(t)
  BY <1>1, <1>2, Zenon
<1>4. ReadInner(m, c, pos, count) = t[Len(fs)]
  BY Zenon DEF ReadInner, Known
<1> HIDE DEF t
<1> QED BY <1>2, <1>3, <1>4, Zenon

LEMMA DeserializeIs ==
  ASSUME NEW m, NEW c, NEW pos, NEW count, Known(c)
  PROVE  \E s : /\ Passes(s, 2, m, Begun(m, c, pos, count), Written[c])
                /\ Deserialize(m, c, pos, count) = s[Len(Written[c])]
<1> DEFINE fs == Written[c]
           G(s) == s = [n \in 0 .. Len(fs) |->
                          IF n = 0 THEN Begun(m, c, pos, count)
                          ELSE ReadField(m, s[n - 1], fs[n])]
           t == CHOOSE s : G(s)
<1>1. \E s : Passes(s, 2, m, Begun(m, c, pos, count), fs)
  <2>1. Len(fs) \in Nat
    BY DEF Known
  <2> HIDE DEF fs
  <2> QED BY <2>1, PassExists
<1>a. \A d, f : StepAt(2, m, d, f) = ReadField(m, d, f)
  BY DEF StepAt
<1>2. \A s : Passes(s, 2, m, Begun(m, c, pos, count), fs) <=> G(s)
  BY <1>a, Zenon DEF Passes
<1>3. G(t)
  BY <1>1, <1>2, Zenon
<1>4. Deserialize(m, c, pos, count) = t[Len(fs)]
  BY Zenon DEF Deserialize, Known
<1> HIDE DEF t
<1> QED BY <1>2, <1>3, <1>4, Zenon

\* An object whose texts are not too long for their length.
PlainWell(c, o) ==
  /\ PlainObject(c, o)
  /\ \A i \in 1 .. Len(Written[c]) : PlainFits(Written[c][i], o[Written[c][i].name])

LEMMA PlainObjectRead ==
  ASSUME NEW m \in Memories, NEW c, NEW o, NEW pos \in Nat, NEW count \in Int, NEW q,
         Lowest(c), PlainWell(c, o), q = PlainObjectBytes(c, o),
         count >= Len(q), Agrees(m, pos, q), pos + Len(q) <= Len(m.bytes)
  PROVE  Done(ReadPlain(m, c, pos, count), pos, count, Len(q), o)
<1> DEFINE fs == Written[c]
           pieces == [i \in 1 .. Len(fs) |-> PlainBytes(fs[i], o[fs[i].name])]
<1>1. Known(c) /\ DOMAIN fs = 1 .. Len(fs) /\ Len(fs) \in Nat
  BY DEF Lowest, Known
<1>2. ASSUME NEW i \in 1 .. Len(fs)
      PROVE  /\ PlainField(c, fs[i]) /\ PlainValue(fs[i], o[fs[i].name])
             /\ PlainFits(fs[i], o[fs[i].name])
  BY <1>1, <1>2 DEF Lowest, PlainWell, PlainObject
<1>3. ASSUME NEW i \in 1 .. Len(fs)
      PROVE  PlainBytes(fs[i], o[fs[i].name]) \in Seq(Byte)
  <2>1. fs[i].kind = "text" /\ o[fs[i].name] # NULL => Len(o[fs[i].name]) < NoLength
    BY <1>2 DEF PlainFits
  <2> HIDE DEF fs
  <2> QED BY <1>2, <2>1, PlainBytesIs
<1>4. q = << 0 >> \o FlattenSeq(pieces)
  BY <1>1, Zenon DEF PlainObjectBytes
<1>5. o = [x \in FieldNames(c) |-> o[x]]
  BY DEF PlainWell, PlainObject
<1>6. pieces \in [1 .. Len(fs) -> Seq(Byte)] /\ Len(pieces) = Len(fs)
  <2> HIDE DEF fs
  <2> QED BY <1>1, <1>3
<1>7. AllRead(0, m, fs, pieces, o)
  <2> SUFFICES ASSUME NEW i \in 1 .. Len(fs), NEW d, Prepared(m, d, pieces[i])
               PROVE  Advanced(d, StepAt(0, m, d, fs[i]), Len(pieces[i]), fs[i].name,
                               o[fs[i].name])
    BY DEF AllRead
  <2>1. pieces[i] = PlainBytes(fs[i], o[fs[i].name])
    OBVIOUS
  <2>2. StepAt(0, m, d, fs[i]) = ReadPlainField(m, d, fs[i])
    BY DEF StepAt
  <2> HIDE DEF fs, pieces
  <2> QED BY <1>2, <2>1, <2>2, PlainFieldRead
<1>8. PICK s : /\ Passes(s, 0, m, Begun(m, c, pos, count), Written[c])
               /\ ReadPlain(m, c, pos, count) = s[Len(Written[c])]
  BY <1>1, ReadPlainIs
<1> HIDE DEF pieces
<1>9. Done(s[Len(Written[c])], pos, count, Len(q), o)
  BY <1>1, <1>4, <1>5, <1>6, <1>7, <1>8, ObjectRead
<1> QED BY <1>8, <1>9

\* A whole object begins with the byte 0.
LEMMA FirstIsZero ==
  ASSUME NEW k \in Nat, NEW pieces, NEW q,
         pieces \in [1 .. k -> Seq(Byte)], Len(pieces) = k,
         q = << 0 >> \o FlattenSeq(pieces)
  PROVE  q \in Seq(Byte) /\ Len(q) >= 1 /\ q[1] = 0
<1>1. PICK joined : Joins(pieces, k, joined) /\ FlattenSeq(pieces) = joined[k]
  <2>1. \E joined : Joins(pieces, k, joined) /\ FlattenSeq(pieces) = joined[k]
    BY Flattened
  <2> QED BY <2>1
<1>2. PICK r \in Seq(Byte) : r = joined[k]
  BY <1>1 DEF Joins
<1>3. << 0 >> \in Seq(Byte) /\ Len(<< 0 >>) = 1 /\ << 0 >>[1] = 0
  BY ByteBaseAssumption DEF Byte
<1>4. PICK z \in Seq(Byte) : z = << 0 >> /\ Len(z) = 1 /\ z[1] = 0
  BY <1>3
<1>5. q = z \o r
  BY <1>1, <1>2, <1>4, Zenon
<1>6. /\ z \o r \in Seq(Byte) /\ Len(z \o r) = 1 + Len(r) /\ (z \o r)[1] = 0
  <2>1. z \o r \in Seq(Byte) /\ Len(z \o r) = Len(z) + Len(r) /\ (z \o r)[1] = z[1]
    BY <1>4, Joined
  <2> QED BY <1>4, <2>1, Zenon
<1>7. Len(r) \in Nat
  OBVIOUS
<1>8. 1 + Len(r) >= 1
  BY <1>7
<1> QED BY <1>5, <1>6, <1>8

\* A null marker passed over, and what comes back from reading a member.
Passed(d, name, v) == [d EXCEPT !.pos = @ + 1, !.obj[name] = v]
Returned(e, ok, w) == [e EXCEPT !.ok = ok, !.obj = w]

LEMMA PassedIs ==
  ASSUME NEW d, NEW name, NEW v, Reader(d)
  PROVE  Passed(d, name, v) = Further(d, 1, 0, name, v)
<1> DEFINE e == [d EXCEPT !.pos = d.pos + 1]
<1>1. e = [pos |-> d.pos + 1, count |-> d.count, ok |-> d.ok, obj |-> d.obj]
  BY ReaderWith DEF Reader
<1>2. [d EXCEPT !.pos = @ + 1, !.obj[name] = v] = With(e, name, v)
  BY DEF With
<1>3. Reader(e) /\ e.pos = d.pos + 1 /\ e.count = d.count /\ e.ok = d.ok /\ e.obj = d.obj
  <2>1. d.pos + 1 \in Nat /\ d.count \in Int
    BY DEF Reader
  <2> HIDE DEF e
  <2> QED BY <1>1, <2>1 DEF Reader
<1> HIDE DEF e
<1>4. With(e, name, v) = Further(e, 0, 0, name, v)
  BY <1>3, WithIs
<1>5. e.pos + 0 = d.pos + 1 /\ e.count - 0 = d.count - 0
  BY <1>3 DEF Reader
<1> QED BY <1>2, <1>3, <1>4, <1>5, Zenon DEF Passed, Further

LEMMA ReturnedIs ==
  ASSUME NEW e, NEW ok, NEW w, Reader(e)
  PROVE  Returned(e, ok, w) = [pos |-> e.pos, count |-> e.count, ok |-> ok, obj |-> w]
<1> DEFINE a == [e EXCEPT !.ok = ok]
<1>1. a = [pos |-> e.pos, count |-> e.count, ok |-> ok, obj |-> e.obj]
  BY ReaderWith DEF Reader
<1>2. [e EXCEPT !.ok = ok, !.obj = w] = [a EXCEPT !.obj = w]
  OBVIOUS
<1> HIDE DEF a
<1>3. [a EXCEPT !.obj = w] = [pos |-> e.pos, count |-> e.count, ok |-> ok, obj |-> w]
  BY <1>1
<1> QED BY <1>2, <1>3, Zenon DEF Returned

LEMMA NullAdvances ==
  ASSUME NEW d, NEW name, NEW v, Reader(d), d.ok
  PROVE  Advanced(d, Further(d, 1, 0, name, v), 1, name, v)
<1>1. d.pos \in Nat /\ d.count \in Int
  BY DEF Reader
<1>2. d.pos + 1 \in Nat /\ d.count - 0 \in Int /\ d.count - 0 >= d.count - 1
  BY <1>1
<1> QED BY <1>2 DEF Further, Advanced, Reader

\* The byte that says whether a pointer is null, where it is ready.
LEMMA MarkerRead ==
  ASSUME NEW m \in Memories, NEW d, NEW v, NEW b, Prepared(m, d, PointerBytes(v, b)),
         v # NULL => b \in Seq(Byte) /\ Len(b) >= 1 /\ b[1] = 0
  PROVE  /\ ~Short(d, 1)
         /\ v = NULL => ByteAt(m, d.pos + 1) # 0 /\ Len(PointerBytes(v, b)) = 1
         /\ v # NULL => ByteAt(m, d.pos + 1) = 0 /\ PointerBytes(v, b) = b
<1>1. PICK q \in Seq(Byte) : /\ q = PointerBytes(v, b) /\ Len(q) >= 1
                             /\ v = NULL => q[1] = 1 /\ Len(q) = 1
                             /\ v # NULL => q[1] = 0 /\ q = b
  <2>1. CASE v = NULL
    <3>1. << 1 >> \in Seq(Byte) /\ Len(<< 1 >>) = 1 /\ << 1 >>[1] = 1
      BY ByteBaseAssumption DEF Byte
    <3>2. PICK q \in Seq(Byte) : q = << 1 >> /\ Len(q) = 1 /\ q[1] = 1
      BY <3>1
    <3>3. q = PointerBytes(v, b) /\ Len(q) >= 1
      BY <2>1, <3>2 DEF PointerBytes
    <3> QED BY <2>1, <3>2, <3>3
  <2>2. CASE v # NULL
    BY <2>2 DEF PointerBytes
  <2> QED BY <2>1, <2>2
<1>2. /\ Reader(d) /\ d.count >= Len(q) /\ Agrees(m, d.pos, q)
      /\ d.pos + Len(q) <= Len(m.bytes)
  BY <1>1 DEF Prepared
<1>3. d.count \in Int /\ Len(q) \in Nat
  BY <1>2 DEF Reader
<1>4. ~Short(d, 1)
  BY <1>1, <1>2, <1>3 DEF Short
<1>5. ByteAt(m, d.pos + 1) = q[1]
  <2>1. 1 \in 1 .. Len(q)
    BY <1>1, <1>3
  <2> QED BY <1>2, <2>1, AgreesRead
<1> QED BY <1>1, <1>4, <1>5

LEMMA MemberRead ==
  ASSUME NEW m \in Memories, NEW d, NEW f, NEW v, NEW b, NEW itself,
         Prepared(m, d, PointerBytes(v, b)),
         v # NULL => /\ b \in Seq(Byte) /\ Len(b) >= 1 /\ b[1] = 0
                     /\ Done(itself, d.pos, d.count, Len(b), v)
  PROVE  Advanced(d, ReadMember(m, d, f, itself), Len(PointerBytes(v, b)), f.name, v)
<1>1. /\ ~Short(d, 1)
      /\ v = NULL => ByteAt(m, d.pos + 1) # 0 /\ Len(PointerBytes(v, b)) = 1
      /\ v # NULL => ByteAt(m, d.pos + 1) = 0 /\ PointerBytes(v, b) = b
  BY MarkerRead
<1>2. Reader(d) /\ d.ok
  BY DEF Prepared
<1>3. CASE v = NULL
  <2>1. ReadMember(m, d, f, itself) = Passed(d, f.name, NULL)
    BY <1>1, <1>3, Zenon DEF ReadMember, Passed
  <2>2. Passed(d, f.name, NULL) = Further(d, 1, 0, f.name, NULL)
    BY <1>2, PassedIs
  <2>3. Advanced(d, Further(d, 1, 0, f.name, v), 1, f.name, v)
    BY <1>2, NullAdvances
  <2> QED BY <1>1, <1>3, <2>1, <2>2, <2>3
<1>4. CASE v # NULL
  <2>1. /\ Reader(itself) /\ itself.pos = d.pos + Len(b)
        /\ itself.count >= d.count - Len(b) /\ itself.obj = v
    BY <1>4 DEF Done
  <2>2. ReadMember(m, d, f, itself)
          = Returned(itself, d.ok, [d.obj EXCEPT ![f.name] = itself.obj])
    BY <1>1, <1>4, Zenon DEF ReadMember, Returned
  <2>3. PICK w : w = [d.obj EXCEPT ![f.name] = v]
    OBVIOUS
  <2>4. Returned(itself, d.ok, w)
          = [pos |-> itself.pos, count |-> itself.count, ok |-> d.ok, obj |-> w]
    BY <2>1, ReturnedIs
  <2>5. PICK e : e = ReadMember(m, d, f, itself)
    OBVIOUS
  <2>6. e = [pos |-> itself.pos, count |-> itself.count, ok |-> d.ok, obj |-> w]
    BY <2>1, <2>2, <2>3, <2>4, <2>5, Zenon
  <2>7. itself.pos \in Nat /\ itself.count \in Int
    BY <2>1 DEF Reader
  <2>8. /\ e.pos = itself.pos /\ e.count = itself.count /\ e.ok = d.ok /\ e.obj = w
        /\ Reader(e)
    BY <2>6, <2>7 DEF Reader
  <2>9. Advanced(d, e, Len(b), f.name, v)
    BY <1>2, <2>1, <2>3, <2>8 DEF Advanced
  <2> QED BY <1>1, <1>4, <2>5, <2>9, Zenon
<1> QED BY <1>3, <1>4

\* The items of a vector, one after another.
WithItem(o, name, i, v) == [o EXCEPT ![name][i] = v]
PassedItem(d, name, i, v) == [d EXCEPT !.pos = @ + 1, !.obj[name][i] = v]
ItemAdvanced(d, e, n, name, i, v) ==
  /\ Reader(e) /\ e.ok /\ e.pos = d.pos + n /\ e.count >= d.count - n
  /\ e.obj = WithItem(d.obj, name, i, v)

LEMMA WithObj ==
  ASSUME NEW e, NEW w, Reader(e)
  PROVE  [e EXCEPT !.obj = w] = [pos |-> e.pos, count |-> e.count, ok |-> e.ok, obj |-> w]
BY ReaderWith DEF Reader

LEMMA PassedItemIs ==
  ASSUME NEW d, NEW name, NEW i, NEW v, Reader(d)
  PROVE  PassedItem(d, name, i, v)
           = [pos |-> d.pos + 1, count |-> d.count, ok |-> d.ok,
              obj |-> WithItem(d.obj, name, i, v)]
<1> DEFINE e == [d EXCEPT !.pos = d.pos + 1]
<1>1. e = [pos |-> d.pos + 1, count |-> d.count, ok |-> d.ok, obj |-> d.obj]
  BY ReaderWith DEF Reader
<1>2. [d EXCEPT !.pos = @ + 1, !.obj[name][i] = v]
        = [e EXCEPT !.obj = WithItem(e.obj, name, i, v)]
  BY DEF WithItem
<1> HIDE DEF e
<1>3. e.obj = d.obj
  BY <1>1
<1>4. ASSUME NEW w
      PROVE  [e EXCEPT !.obj = w]
               = [pos |-> d.pos + 1, count |-> d.count, ok |-> d.ok, obj |-> w]
  BY <1>1
<1>5. [e EXCEPT !.obj = WithItem(d.obj, name, i, v)]
        = [pos |-> d.pos + 1, count |-> d.count, ok |-> d.ok,
           obj |-> WithItem(d.obj, name, i, v)]
  BY <1>4, Zenon
<1> QED BY <1>2, <1>3, <1>5, Zenon DEF PassedItem

LEMMA ItemRead ==
  ASSUME NEW m \in Memories, NEW d, NEW f, NEW i, NEW v, NEW b,
         Prepared(m, d, PointerBytes(v, b)),
         v # NULL => /\ b \in Seq(Byte) /\ Len(b) >= 1 /\ b[1] = 0
                     /\ Done(ReadPlain(m, f.of, d.pos, d.count), d.pos, d.count, Len(b), v)
  PROVE  ItemAdvanced(d, ReadItem(m, d, f, i), Len(PointerBytes(v, b)), f.name, i, v)
<1>1. /\ ~Short(d, 1)
      /\ v = NULL => ByteAt(m, d.pos + 1) # 0 /\ Len(PointerBytes(v, b)) = 1
      /\ v # NULL => ByteAt(m, d.pos + 1) = 0 /\ PointerBytes(v, b) = b
  BY MarkerRead
<1>2. Reader(d) /\ d.ok /\ d.pos \in Nat /\ d.count \in Int
  BY DEF Prepared, Reader
<1>3. PICK e : e = ReadItem(m, d, f, i)
  OBVIOUS
<1>4. CASE v = NULL
  <2>1. e = PassedItem(d, f.name, i, NULL)
    BY <1>1, <1>2, <1>3, <1>4, Zenon DEF ReadItem, PassedItem
  <2>2. e = [pos |-> d.pos + 1, count |-> d.count, ok |-> d.ok,
             obj |-> WithItem(d.obj, f.name, i, v)]
    <3>1. PassedItem(d, f.name, i, NULL)
            = [pos |-> d.pos + 1, count |-> d.count, ok |-> d.ok,
               obj |-> WithItem(d.obj, f.name, i, NULL)]
      BY <1>2, PassedItemIs
    <3> QED BY <1>4, <2>1, <3>1, Zenon
  <2>3. d.pos + 1 \in Nat /\ d.count \in Int /\ d.count >= d.count - 1
    BY <1>2
  <2>4. ItemAdvanced(d, e, 1, f.name, i, v)
    BY <1>2, <2>2, <2>3 DEF ItemAdvanced, Reader
  <2> QED BY <1>1, <1>3, <1>4, <2>4
<1>5. CASE v # NULL
  <2>1. PICK a : a = ReadPlain(m, f.of, d.pos, d.count)
    OBVIOUS
  <2>2. /\ Reader(a) /\ a.ok /\ a.pos = d.pos + Len(b)
        /\ a.count >= d.count - Len(b) /\ a.obj = v
    BY <1>5, <2>1 DEF Done
  <2>3. PICK w : w = WithItem(d.obj, f.name, i, a.obj)
    OBVIOUS
  <2>4. e = [a EXCEPT !.obj = w]
    BY <1>1, <1>2, <1>3, <1>5, <2>1, <2>3, Zenon DEF ReadItem, WithItem
  <2>5. [a EXCEPT !.obj = w] = [pos |-> a.pos, count |-> a.count, ok |-> a.ok, obj |-> w]
    BY <2>2, WithObj
  <2>6. a.pos \in Nat /\ a.count \in Int
    BY <2>2 DEF Reader
  <2>7. e = [pos |-> a.pos, count |-> a.count, ok |-> a.ok, obj |-> w]
    BY <2>4, <2>5, Zenon
  <2>8. /\ e.pos = a.pos /\ e.count = a.count /\ e.ok = a.ok /\ e.obj = w
        /\ Reader(e)
    BY <2>6, <2>7 DEF Reader
  <2>9. ItemAdvanced(d, e, Len(b), f.name, i, v)
    BY <2>2, <2>3, <2>8 DEF ItemAdvanced
  <2> QED BY <1>1, <1>3, <1>5, <2>9, Zenon
<1> QED BY <1>4, <1>5

LEMMA ItemInto ==
  ASSUME NEW o, NEW name, NEW w, NEW i, NEW v
  PROVE  WithItem([o EXCEPT ![name] = w], name, i, v)
           = [o EXCEPT ![name] = [w EXCEPT ![i] = v]]
<1> DEFINE a == [o EXCEPT ![name] = w]
           z == WithItem(a, name, i, v)
<1>1. DOMAIN a = DOMAIN o /\ \A x \in DOMAIN o : a[x] = IF x = name THEN w ELSE o[x]
  OBVIOUS
<1> HIDE DEF a
<1>2. z = [x \in DOMAIN o |-> IF x = name THEN [a[name] EXCEPT ![i] = v] ELSE a[x]]
  BY <1>1, Zenon DEF WithItem
<1>3. CASE name \in DOMAIN o
  BY <1>1, <1>2, <1>3 DEF a
<1>4. CASE name \notin DOMAIN o
  BY <1>1, <1>2, <1>4 DEF a
<1> QED BY <1>3, <1>4

\* The items of a vector of n: at first null, and counted.
Nulls(n) == [i \in 1 .. n |-> NULL]
Numbered(f, n) == [k \in 1 .. n |-> <<f, k>>]

LEMMA ReadNullMembers ==
  ASSUME NEW m, NEW d, NEW f, Number(BytesAt(m, d, 2)) = NoLength, ~Short(d, 2)
  PROVE  ReadMembers(m, d, f) = Ahead(d, 2, 2, f.name, NULL)
BY Zenon DEF ReadMembers, Ahead

LEMMA ReadMembersIs ==
  ASSUME NEW m, NEW d, NEW f, NEW n \in Nat, n = Number(BytesAt(m, d, 2)), ~Short(d, 2),
         n # NoLength
  PROVE  \E s : /\ Passes(s, 3, m, Ahead(d, 2, 2, f.name, Nulls(n)), Numbered(f, n))
                /\ ReadMembers(m, d, f) = s[n]
<1> DEFINE e == Ahead(d, 2, 2, f.name, Nulls(n))
           fs == Numbered(f, n)
           G(s) == s = [k \in 0 .. n |-> IF k = 0 THEN e
                                         ELSE ReadItem(m, s[k - 1], f, k)]
           t == CHOOSE s : G(s)
<1>1. Len(fs) = n
  BY DEF Numbered
<1>2. \E s : Passes(s, 3, m, e, fs)
  <2> HIDE DEF e, fs
  <2> QED BY <1>1, PassExists
<1>3. ASSUME NEW k \in 0 .. n, NEW x, k # 0
      PROVE  StepAt(3, m, x, fs[k]) = ReadItem(m, x, f, k)
  <2>1. fs[k] = <<f, k>> /\ fs[k][1] = f /\ fs[k][2] = k
    BY <1>3 DEF Numbered
  <2>2. StepAt(3, m, x, fs[k]) = ReadItem(m, x, fs[k][1], fs[k][2])
    BY DEF StepAt
  <2> QED BY <2>1, <2>2
<1>4. ASSUME NEW s PROVE Passes(s, 3, m, e, fs) <=> G(s)
  <2>1. [k \in 0 .. n |-> IF k = 0 THEN e ELSE StepAt(3, m, s[k - 1], fs[k])]
          = [k \in 0 .. n |-> IF k = 0 THEN e ELSE ReadItem(m, s[k - 1], f, k)]
    <3> HIDE DEF e, fs
    <3> QED BY <1>3, Zenon
  <2> HIDE DEF e, fs
  <2> QED BY <1>1, <2>1, Zenon DEF Passes
<1>5. G(t)
  <2>1. \E s : G(s)
    <3> HIDE DEF e, fs, G
    <3> QED BY <1>2, <1>4
  <2> QED BY <2>1, Zenon
<1>6. ReadMembers(m, d, f) = t[n]
  BY Zenon DEF ReadMembers, Ahead, Nulls
<1> HIDE DEF t, G
<1> QED BY <1>4, <1>5, <1>6, Zenon

LEMMA PlainObjectBytesIs ==
  ASSUME NEW c, NEW o, Lowest(c), PlainWell(c, o)
  PROVE  /\ PlainObjectBytes(c, o) \in Seq(Byte) /\ Len(PlainObjectBytes(c, o)) >= 1
         /\ PlainObjectBytes(c, o)[1] = 0
<1> DEFINE fs == Written[c]
           pieces == [i \in 1 .. Len(fs) |-> PlainBytes(fs[i], o[fs[i].name])]
<1>1. DOMAIN fs = 1 .. Len(fs) /\ Len(fs) \in Nat
  BY DEF Lowest, Known
<1>2. ASSUME NEW i \in 1 .. Len(fs)
      PROVE  PlainBytes(fs[i], o[fs[i].name]) \in Seq(Byte)
  <2>1. /\ PlainField(c, fs[i]) /\ PlainValue(fs[i], o[fs[i].name])
        /\ PlainFits(fs[i], o[fs[i].name])
    BY <1>1, <1>2 DEF Lowest, PlainWell, PlainObject
  <2>2. fs[i].kind = "text" /\ o[fs[i].name] # NULL => Len(o[fs[i].name]) < NoLength
    BY <2>1 DEF PlainFits
  <2> HIDE DEF fs
  <2> QED BY <2>1, <2>2, PlainBytesIs
<1>3. PlainObjectBytes(c, o) = << 0 >> \o FlattenSeq(pieces)
  BY <1>1, Zenon DEF PlainObjectBytes
<1>4. pieces \in [1 .. Len(fs) -> Seq(Byte)] /\ Len(pieces) = Len(fs)
  <2> HIDE DEF fs
  <2> QED BY <1>1, <1>2
<1> HIDE DEF pieces, fs
<1> QED BY <1>1, <1>3, <1>4, FirstIsZero

\* A vector of such objects, and of null pointers, that fits its count.
VectorWell(c, v) ==
  v # NULL => /\ Len(v) \in Nat /\ Len(v) < NoLength
              /\ v = [i \in 1 .. Len(v) |-> v[i]]
              /\ \A i \in 1 .. Len(v) : v[i] = NULL \/ PlainWell(c, v[i])

LEMMA PointerBytesIs ==
  ASSUME NEW v, NEW b, v # NULL => b \in Seq(Byte)
  PROVE  PointerBytes(v, b) \in Seq(Byte)
<1>1. << 1 >> \in Seq(Byte)
  BY ByteBaseAssumption DEF Byte
<1> QED BY <1>1 DEF PointerBytes

ItemPieces(c, v, n) == [i \in 1 .. n |-> PointerBytes(v[i], PlainObjectBytes(c, v[i]))]

LEMMA VectorBytesIs ==
  ASSUME NEW c, NEW v, Lowest(c), VectorWell(c, v), v # NULL
  PROVE  /\ ItemPieces(c, v, Len(v)) \in [1 .. Len(v) -> Seq(Byte)]
         /\ Len(ItemPieces(c, v, Len(v))) = Len(v)
         /\ VectorBytes(c, v) = TwoBytes(Len(v)) \o FlattenSeq(ItemPieces(c, v, Len(v)))
<1>0. PICK n \in Nat : n = Len(v)
  BY DEF VectorWell
<1> DEFINE pieces == ItemPieces(c, v, n)
<1>1. ASSUME NEW i \in 1 .. n
      PROVE  PointerBytes(v[i], PlainObjectBytes(c, v[i])) \in Seq(Byte)
  <2>1. v[i] # NULL => PlainObjectBytes(c, v[i]) \in Seq(Byte)
    BY <1>0, PlainObjectBytesIs DEF VectorWell
  <2> QED BY <2>1, PointerBytesIs
<1>2. pieces \in [1 .. n -> Seq(Byte)] /\ Len(pieces) = n
  BY <1>1 DEF ItemPieces
<1>3. n < NoLength /\ NoLength \in Nat
  BY <1>0, LengthsFit DEF VectorWell
<1>4. (IF Len(v) >= NoLength THEN NoLength - 1 ELSE Len(v)) = n
  BY <1>0, <1>3
<1>5. VectorBytes(c, v) = TwoBytes(n) \o FlattenSeq(pieces)
  BY <1>4, Zenon DEF VectorBytes, ItemPieces
<1> QED BY <1>0, <1>2, <1>5, Zenon

\* Where there are two bytes and, behind them, what the pieces join to.
LEMMA BehindTwo ==
  ASSUME NEW m \in Memories, NEW p \in Nat, NEW h \in Seq(Byte), Len(h) = 2,
         NEW r \in Seq(Byte)
  PROVE  /\ h \o r \in Seq(Byte) /\ Len(h \o r) = 2 + Len(r)
         /\ Agrees(m, p, h \o r) => Agrees(m, p, h) /\ Agrees(m, p + 2, r)
<1>1. h \o r \in Seq(Byte) /\ Len(h \o r) = Len(h) + Len(r)
  BY Joined
<1>2. Agrees(m, p, h \o r) => Agrees(m, p, h) /\ Agrees(m, p + Len(h), r)
  BY AgreesParts
<1> QED BY <1>1, <1>2, Zenon

\* A reader i items into the vector v of n, of which it has read b bytes behind
\* the count; before that it was the reader d.
Among(v, n, d, name, e, i, b) ==
  /\ Reader(e) /\ e.ok /\ e.pos = d.pos + (2 + b) /\ e.count >= d.count - (2 + b)
  /\ e.obj = [d.obj EXCEPT ![name] = [j \in 1 .. n |-> IF j <= i THEN v[j] ELSE NULL]]

LEMMA TwoOn == \A p, n, b \in Int : (p + (2 + n)) + b = p + (2 + (n + b))
OBVIOUS

LEMMA TwoLess ==
  \A n, b, u, w, k \in Int :
    u >= k - (2 + n) /\ w >= u - b => w >= k - (2 + (n + b))
OBVIOUS

LEMMA AmongStep ==
  ASSUME NEW v, NEW n \in Nat, NEW d, NEW name, NEW e, NEW g, NEW i \in 1 .. n,
         NEW b \in Nat, NEW k \in Nat, Reader(d),
         Among(v, n, d, name, e, i - 1, b), ItemAdvanced(e, g, k, name, i, v[i])
  PROVE  Among(v, n, d, name, g, i, b + k)
<1> DEFINE Items(z) == [j \in 1 .. n |-> IF j <= z THEN v[j] ELSE NULL]
<1>1. /\ Reader(e) /\ e.pos = d.pos + (2 + b) /\ e.count >= d.count - (2 + b)
      /\ e.obj = [d.obj EXCEPT ![name] = Items(i - 1)]
  BY Zenon DEF Among
<1>2. /\ Reader(g) /\ g.ok /\ g.pos = e.pos + k /\ g.count >= e.count - k
      /\ g.obj = WithItem(e.obj, name, i, v[i])
  BY DEF ItemAdvanced
<1>3. d.pos \in Nat /\ d.count \in Int /\ e.count \in Int /\ g.count \in Int
  BY <1>1, <1>2 DEF Reader
<1>4. g.pos = d.pos + (2 + (b + k)) /\ g.count >= d.count - (2 + (b + k))
  <2>1. (d.pos + (2 + b)) + k = d.pos + (2 + (b + k))
    BY <1>3, TwoOn
  <2>2. e.count >= d.count - (2 + b) /\ g.count >= e.count - k
    BY <1>1, <1>2, Zenon
  <2>3. b \in Int /\ k \in Int
    OBVIOUS
  <2>4. g.count >= d.count - (2 + (b + k))
    BY <1>3, <2>2, <2>3, TwoLess, Zenon
  <2> QED BY <1>1, <1>2, <2>1, <2>4, Zenon
<1>5. [Items(i - 1) EXCEPT ![i] = v[i]] = Items(i)
  <2>1. ASSUME NEW j \in 1 .. n
        PROVE  [Items(i - 1) EXCEPT ![i] = v[i]][j] = Items(i)[j]
    <3>1. CASE j = i
      BY <3>1
    <3>2. CASE j # i
      <4>1. j <= i - 1 <=> j <= i
        BY <3>2
      <4> QED BY <3>2, <4>1
    <3> QED BY <3>1, <3>2
  <2> QED BY <2>1
<1>6. g.obj = [d.obj EXCEPT ![name] = Items(i)]
  <2>1. PICK w : w = Items(i - 1)
    OBVIOUS
  <2>2. PICK o : o = d.obj
    OBVIOUS
  <2>3. WithItem([o EXCEPT ![name] = w], name, i, v[i])
          = [o EXCEPT ![name] = [w EXCEPT ![i] = v[i]]]
    BY ItemInto DEF WithItem
  <2> HIDE DEF Items
  <2> QED BY <1>1, <1>2, <1>5, <2>1, <2>2, <2>3, Zenon
<1> QED BY <1>2, <1>4, <1>6, Zenon DEF Among

LEMMA NullVectorRead ==
  ASSUME NEW m \in Memories, NEW d, NEW f, NEW c, NEW v, v = NULL,
         Prepared(m, d, VectorBytes(c, v))
  PROVE  Advanced(d, ReadMembers(m, d, f), Len(VectorBytes(c, v)), f.name, v)
<1>1. VectorBytes(c, v) = TwoBytes(NoLength) /\ NoLength \in 0 .. NoLength
  BY LengthsFit DEF VectorBytes
<1>2. TwoBytes(NoLength) \in Seq(Byte) /\ Len(TwoBytes(NoLength)) = 2
  BY <1>1, TwoBytesNumber
<1>3. /\ Reader(d) /\ d.ok /\ d.count >= 2 /\ Agrees(m, d.pos, TwoBytes(NoLength))
      /\ d.pos + 2 <= Len(m.bytes)
  BY <1>1, <1>2 DEF Prepared
<1>4. Number(BytesAt(m, d, 2)) = NoLength
  BY <1>1, <1>3, LengthRead
<1>5. ~Short(d, 2)
  BY <1>3 DEF Short, Reader
<1>6. ReadMembers(m, d, f) = Ahead(d, 2, 2, f.name, NULL)
  BY <1>4, <1>5, ReadNullMembers
<1>7. Ahead(d, 2, 2, f.name, NULL) = Further(d, 2, 2, f.name, NULL)
  BY <1>3, FurtherIs
<1>8. Advanced(d, Further(d, 2, 2, f.name, v), 2, f.name, v)
  BY <1>3, FurtherAdvances
<1> QED BY <1>1, <1>2, <1>6, <1>7, <1>8

LEMMA CountLeftTwo ==
  ASSUME NEW n \in Int, NEW b \in Int, NEW r \in Int, NEW k \in Int,
         n + b <= r, k >= 2 + r
  PROVE  k - (2 + n) >= b
OBVIOUS

LEMMA RoomLeftTwo ==
  ASSUME NEW n \in Int, NEW b \in Int, NEW r \in Int, NEW p \in Int, NEW z \in Int,
         n + b <= r, p + (2 + r) <= z
  PROVE  (p + (2 + n)) + b <= z
OBVIOUS

LEMMA VectorRead ==
  ASSUME NEW m \in Memories, NEW d, NEW f, NEW v, Lowest(f.of), VectorWell(f.of, v),
         Prepared(m, d, VectorBytes(f.of, v))
  PROVE  Advanced(d, ReadMembers(m, d, f), Len(VectorBytes(f.of, v)), f.name, v)
<1> SUFFICES ASSUME v # NULL
             PROVE  Advanced(d, ReadMembers(m, d, f), Len(VectorBytes(f.of, v)), f.name, v)
  BY NullVectorRead
<1>1. PICK n \in Nat : /\ n = Len(v) /\ n < NoLength /\ v = [i \in 1 .. n |-> v[i]]
                       /\ \A i \in 1 .. n : v[i] = NULL \/ PlainWell(f.of, v[i])
  BY DEF VectorWell
<1>2. PICK pieces : pieces = ItemPieces(f.of, v, n)
  OBVIOUS
<1>3. /\ pieces \in [1 .. n -> Seq(Byte)] /\ Len(pieces) = n
      /\ VectorBytes(f.of, v) = TwoBytes(n) \o FlattenSeq(pieces)
  <2>1. /\ ItemPieces(f.of, v, Len(v)) \in [1 .. Len(v) -> Seq(Byte)]
        /\ Len(ItemPieces(f.of, v, Len(v))) = Len(v)
        /\ VectorBytes(f.of, v)
             = TwoBytes(Len(v)) \o FlattenSeq(ItemPieces(f.of, v, Len(v)))
    BY VectorBytesIs
  <2> QED BY <1>1, <1>2, <2>1, Zenon
<1>4. PICK joined : Joins(pieces, n, joined) /\ FlattenSeq(pieces) = joined[n]
  <2>1. \E joined : Joins(pieces, n, joined) /\ FlattenSeq(pieces) = joined[n]
    BY <1>3, Flattened
  <2> QED BY <2>1
<1>5. PICK r \in Seq(Byte) : r = joined[n]
  BY <1>4 DEF Joins
<1>a. n \in 0 .. NoLength
  BY <1>1, LengthsFit
<1>b. PICK h \in Seq(Byte) : h = TwoBytes(n) /\ Len(h) = 2
  BY <1>a, TwoBytesNumber
<1>6. PICK q : q = VectorBytes(f.of, v) /\ q = h \o r
  BY <1>3, <1>4, <1>5, <1>b, Zenon
<1>7. /\ Reader(d) /\ d.ok /\ d.count >= Len(q) /\ Agrees(m, d.pos, q)
      /\ d.pos + Len(q) <= Len(m.bytes) /\ d.pos \in Nat /\ d.count \in Int
  BY <1>6 DEF Prepared, Reader
<1>8. Len(q) = 2 + Len(r) /\ Agrees(m, d.pos, h) /\ Agrees(m, d.pos + 2, r)
  <2>1. PICK p \in Nat : p = d.pos
    BY <1>7
  <2>2. /\ Len(h \o r) = 2 + Len(r)
        /\ Agrees(m, p, h \o r) => Agrees(m, p, h) /\ Agrees(m, p + 2, r)
    BY <1>b, BehindTwo
  <2> QED BY <1>6, <1>7, <2>1, <2>2, Zenon
<1>9. Len(r) \in Nat /\ Len(m.bytes) \in Nat
  BY DEF Memories
<1>10. d.count >= 2 /\ d.pos + 2 <= Len(m.bytes)
  BY <1>7, <1>8, <1>9
<1>11. Number(BytesAt(m, d, 2)) = n /\ ~Short(d, 2)
  BY <1>a, <1>b, <1>7, <1>8, <1>10, LengthRead DEF Short
<1> DEFINE none == Nulls(n)
           a == Ahead(d, 2, 2, f.name, none)
           fs == Numbered(f, n)
<1>12. PICK s : Passes(s, 3, m, a, fs) /\ ReadMembers(m, d, f) = s[n]
  <2>1. n # NoLength
    BY <1>1, LengthsFit
  <2> HIDE DEF none
  <2>2. \E s : /\ Passes(s, 3, m, Ahead(d, 2, 2, f.name, Nulls(n)), Numbered(f, n))
               /\ ReadMembers(m, d, f) = s[n]
    BY <1>11, <2>1, ReadMembersIs
  <2> QED BY <2>2, Zenon DEF none
<1>13. /\ s[0] = a
       /\ \A i \in 1 .. n : s[i] = ReadItem(m, s[i - 1], f, i)
  <2>1. Len(fs) = n /\ \A i \in 1 .. n : fs[i] = <<f, i>> /\ fs[i][1] = f /\ fs[i][2] = i
    BY DEF Numbered
  <2> HIDE DEF fs, a
  <2>2. s = [k \in 0 .. n |-> IF k = 0 THEN a ELSE StepAt(3, m, s[k - 1], fs[k])]
    BY <1>12, <2>1, Zenon DEF Passes
  <2>3. 0 \in 0 .. n /\ \A i \in 1 .. n : i \in 0 .. n /\ i # 0
    OBVIOUS
  <2>4. \A k \in 0 .. n : s[k] = IF k = 0 THEN a ELSE StepAt(3, m, s[k - 1], fs[k])
    BY <2>2, Zenon
  <2>5. \A x, g : StepAt(3, m, x, g) = ReadItem(m, x, g[1], g[2])
    BY DEF StepAt
  <2>6. ASSUME NEW i \in 1 .. n PROVE s[i] = ReadItem(m, s[i - 1], f, i)
    <3>1. s[i] = StepAt(3, m, s[i - 1], fs[i])
      BY <2>3, <2>4, Zenon
    <3>2. StepAt(3, m, s[i - 1], fs[i]) = ReadItem(m, s[i - 1], fs[i][1], fs[i][2])
      BY <2>5, Zenon
    <3> QED BY <2>1, <3>1, <3>2, Zenon
  <2> QED BY <2>3, <2>4, <2>6, Zenon
<1>14. Among(v, n, d, f.name, a, 0, 0)
  <2>1. a = Further(d, 2, 2, f.name, none)
    BY <1>7, FurtherIs
  <2>2. none = [j \in 1 .. n |-> IF j <= 0 THEN v[j] ELSE NULL]
    <3>1. \A j \in 1 .. n : ~(j <= 0)
      OBVIOUS
    <3> QED BY <3>1, Zenon DEF Nulls
  <2>3. Advanced(d, Further(d, 2, 2, f.name, none), 2, f.name, none)
    BY <1>7, FurtherAdvances
  <2>4. 2 = 2 + 0
    OBVIOUS
  <2> HIDE DEF a, none
  <2> QED BY <2>1, <2>2, <2>3, <2>4, Zenon DEF Advanced, Among
<1> HIDE DEF a, fs, none
<1>15. \A i \in 1 .. n : /\ Agrees(m, (d.pos + 2) + Len(joined[i - 1]), pieces[i])
                         /\ Len(joined[i]) = Len(joined[i - 1]) + Len(pieces[i])
                         /\ Len(joined[i]) <= Len(r)
  <2>1. d.pos + 2 \in Nat /\ Agrees(m, d.pos + 2, joined[n])
    BY <1>5, <1>7, <1>8
  <2>2. \A i \in 1 .. n : /\ Agrees(m, (d.pos + 2) + Len(joined[i - 1]), pieces[i])
                          /\ Len(joined[i]) = Len(joined[i - 1]) + Len(pieces[i])
                          /\ Len(joined[i]) <= Len(joined[n])
    <3>1. PICK p \in Nat : p = d.pos + 2
      BY <2>1
    <3>2. Agrees(m, p, joined[n]) /\ Joins(pieces, n, joined)
      BY <1>4, <2>1, <3>1
    <3>3. \A i \in 1 .. n : /\ Agrees(m, p + Len(joined[i - 1]), pieces[i])
                            /\ Len(joined[i]) = Len(joined[i - 1]) + Len(pieces[i])
                            /\ Len(joined[i]) <= Len(joined[n])
      <4>1. pieces \in [1 .. n -> Seq(Byte)]
        BY <1>3
      <4> QED BY <3>2, <4>1, PieceAt
    <3> QED BY <3>1, <3>3, Zenon
  <2> QED BY <1>5, <2>2
<1>16. \A i \in 0 .. n : Len(joined[i]) \in Nat
  BY <1>4 DEF Joins
<1> DEFINE P == {i \in 0 .. n : Among(v, n, d, f.name, s[i], i, Len(joined[i]))}
<1>17. 0 \in P
  <2>1. Len(joined[0]) = 0
    BY <1>4 DEF Joins
  <2> QED BY <1>13, <1>14, <2>1
<1>18. ASSUME NEW i \in 1 .. n, i - 1 \in P PROVE i \in P
  <2>0. PICK e : e = s[i - 1]
    OBVIOUS
  <2>1. PICK b \in Nat, k \in Nat :
          b = Len(joined[i - 1]) /\ k = Len(pieces[i]) /\ e = s[i - 1]
    <3>1. i - 1 \in 0 .. n /\ pieces[i] \in Seq(Byte)
      BY <1>3
    <3>2. Len(joined[i - 1]) \in Nat /\ Len(pieces[i]) \in Nat
      BY <1>16, <3>1
    <3> QED BY <2>0, <3>2, Zenon
  <2>2. Among(v, n, d, f.name, e, i - 1, b)
    BY <1>18, <2>1
  <2>3. /\ Reader(e) /\ e.ok /\ e.pos = d.pos + (2 + b) /\ e.count >= d.count - (2 + b)
        /\ e.pos \in Nat /\ e.count \in Int
    BY <2>2 DEF Among, Reader
  <2>4. Agrees(m, (d.pos + 2) + b, pieces[i]) /\ Len(joined[i]) = b + k /\ b + k <= Len(r)
    BY <1>15, <2>1
  <2>5. (d.pos + 2) + b = e.pos /\ e.count >= k /\ e.pos + k <= Len(m.bytes)
    <3>0. /\ d.count \in Int /\ d.pos \in Int /\ Len(r) \in Int
          /\ Len(m.bytes) \in Int /\ b + k <= Len(r)
      BY <1>7, <1>9, <2>4
    <3>1. (d.pos + 2) + b = d.pos + (2 + b)
      BY <1>7, TwoFurther
    <3>2. d.count >= 2 + Len(r) /\ d.pos + (2 + Len(r)) <= Len(m.bytes)
      BY <1>7, <1>8, Zenon
    <3>3. d.count - (2 + b) >= k
      BY <3>0, <3>2, CountLeftTwo
    <3>4. (d.pos + (2 + b)) + k <= Len(m.bytes)
      BY <3>0, <3>2, RoomLeftTwo
    <3>5. e.count >= k
      BY <1>7, <2>3, <3>3
    <3> QED BY <2>3, <3>1, <3>4, <3>5, Zenon
  <2>6. Prepared(m, e, PointerBytes(v[i], PlainObjectBytes(f.of, v[i])))
    <3>1. pieces[i] = PointerBytes(v[i], PlainObjectBytes(f.of, v[i]))
      BY <1>2 DEF ItemPieces
    <3>2. Prepared(m, e, pieces[i])
      BY <2>1, <2>3, <2>4, <2>5 DEF Prepared
    <3> QED BY <3>1, <3>2
  <2>7. ItemAdvanced(e, ReadItem(m, e, f, i), k, f.name, i, v[i])
    <3>1. PICK x, y : x = v[i] /\ y = PlainObjectBytes(f.of, x)
      OBVIOUS
    <3>2. k = Len(PointerBytes(x, y)) /\ Prepared(m, e, PointerBytes(x, y))
      BY <1>2, <2>1, <2>6, <3>1 DEF ItemPieces
    <3>3. ASSUME x # NULL
          PROVE  /\ y \in Seq(Byte) /\ Len(y) >= 1 /\ y[1] = 0
                 /\ Done(ReadPlain(m, f.of, e.pos, e.count), e.pos, e.count, Len(y), x)
      <4>1. PlainWell(f.of, x)
        BY <1>1, <3>1, <3>3
      <4>2. y \in Seq(Byte) /\ Len(y) >= 1 /\ y[1] = 0
        BY <3>1, <4>1, PlainObjectBytesIs
      <4>3. PointerBytes(x, y) = y
        BY <3>3 DEF PointerBytes
      <4>4. /\ e.count >= Len(y) /\ Agrees(m, e.pos, y)
            /\ e.pos + Len(y) <= Len(m.bytes)
        BY <3>2, <4>3 DEF Prepared
      <4> QED BY <2>3, <3>1, <4>1, <4>2, <4>4, PlainObjectRead
    <3>4. ItemAdvanced(e, ReadItem(m, e, f, i), Len(PointerBytes(x, y)), f.name, i, x)
      BY <3>2, <3>3, ItemRead
    <3> QED BY <3>1, <3>2, <3>4
  <2>8. Among(v, n, d, f.name, ReadItem(m, e, f, i), i, b + k)
    BY <1>7, <2>2, <2>7, AmongStep
  <2>9. s[i] = ReadItem(m, e, f, i) /\ i \in 0 .. n
    BY <1>13, <2>1
  <2> QED BY <2>4, <2>8, <2>9
<1>19. Among(v, n, d, f.name, s[n], n, Len(r))
  <2>1. 0 .. n \subseteq P
    <3> HIDE DEF P
    <3> QED BY <1>17, <1>18, Climbing
  <2>2. n \in 0 .. n
    OBVIOUS
  <2> QED BY <1>5, <2>1, <2>2
<1>20. v = [j \in 1 .. n |-> IF j <= n THEN v[j] ELSE NULL]
  <2>1. \A j \in 1 .. n : j <= n
    OBVIOUS
  <2> QED BY <1>1, <2>1, Zenon
<1>21. Advanced(d, s[n], 2 + Len(r), f.name, v)
  BY <1>19, <1>20, Zenon DEF Among, Advanced
<1> QED BY <1>6, <1>8, <1>12, <1>21, Zenon

\* The same one level further up: objects that may have plain objects and
\* vectors of them for members.
InnerKind(c, f) ==
  PlainField(c, f) \/ (f.kind \in {"member", "members"} /\ Lowest(f.of))
InnerFieldWell(f, v) ==
  CASE f.kind = "member" -> v = NULL \/ PlainWell(f.of, v)
    [] f.kind = "members" -> VectorWell(f.of, v)
    [] OTHER -> PlainValue(f, v) /\ PlainFits(f, v)
InnerWell(c, o) ==
  /\ o = [x \in FieldNames(c) |-> o[x]]
  /\ \A i \in 1 .. Len(Written[c]) : InnerFieldWell(Written[c][i], o[Written[c][i].name])

LEMMA VectorBytesType ==
  ASSUME NEW c, NEW v, Lowest(c), VectorWell(c, v)
  PROVE  VectorBytes(c, v) \in Seq(Byte)
<1>1. CASE v = NULL
  <2>1. TwoBytes(NoLength) \in Seq(Byte)
    <3>1. NoLength \in 0 .. NoLength
      BY LengthsFit
    <3> QED BY <3>1, TwoBytesNumber
  <2> QED BY <1>1, <2>1 DEF VectorBytes
<1>2. CASE v # NULL
  <2>1. PICK n \in 0 .. NoLength : n = Len(v) /\ n \in Nat
    BY <1>2, LengthsFit DEF VectorWell
  <2>2. PICK pieces : /\ pieces \in [1 .. n -> Seq(Byte)] /\ Len(pieces) = n
                      /\ VectorBytes(c, v) = TwoBytes(n) \o FlattenSeq(pieces)
    <3>1. /\ ItemPieces(c, v, Len(v)) \in [1 .. Len(v) -> Seq(Byte)]
          /\ Len(ItemPieces(c, v, Len(v))) = Len(v)
          /\ VectorBytes(c, v)
               = TwoBytes(Len(v)) \o FlattenSeq(ItemPieces(c, v, Len(v)))
      BY <1>2, VectorBytesIs
    <3> QED BY <2>1, <3>1, Zenon
  <2>3. PICK joined : Joins(pieces, n, joined) /\ FlattenSeq(pieces) = joined[n]
    <3>1. \E joined : Joins(pieces, n, joined) /\ FlattenSeq(pieces) = joined[n]
      BY <2>1, <2>2, Flattened
    <3> QED BY <3>1
  <2>4. PICK r \in Seq(Byte) : r = joined[n]
    BY <2>1, <2>3 DEF Joins
  <2>5. PICK h \in Seq(Byte) : h = TwoBytes(n)
    BY TwoBytesNumber
  <2>6. h \o r \in Seq(Byte)
    BY Joined
  <2> QED BY <2>2, <2>3, <2>4, <2>5, <2>6, Zenon
<1> QED BY <1>1, <1>2

LEMMA InnerBytesType ==
  ASSUME NEW c, NEW f, NEW v, InnerKind(c, f), InnerFieldWell(f, v)
  PROVE  InnerBytes(f, v) \in Seq(Byte)
<1>1. CASE f.kind = "member" /\ Lowest(f.of)
  <2>1. v # NULL => PlainObjectBytes(f.of, v) \in Seq(Byte)
    BY <1>1, PlainObjectBytesIs DEF InnerFieldWell
  <2> QED BY <1>1, <2>1, PointerBytesIs DEF InnerBytes
<1>2. CASE f.kind = "members" /\ Lowest(f.of)
  BY <1>2, VectorBytesType DEF InnerBytes, InnerFieldWell
<1>3. CASE PlainField(c, f)
  <2>1. f.kind \notin {"member", "members"}
    BY <1>3 DEF PlainField
  <2>2. PlainValue(f, v) /\ PlainFits(f, v)
    BY <2>1 DEF InnerFieldWell
  <2>3. InnerBytes(f, v) = PlainBytes(f, v)
    BY <2>1 DEF InnerBytes
  <2>4. f.kind = "text" /\ v # NULL => Len(v) < NoLength
    BY <2>2 DEF PlainFits
  <2> QED BY <1>3, <2>2, <2>3, <2>4, PlainBytesIs
<1> QED BY <1>1, <1>2, <1>3 DEF InnerKind

LEMMA InnerFieldRead ==
  ASSUME NEW m \in Memories, NEW d, NEW c, NEW f, NEW v, InnerKind(c, f),
         InnerFieldWell(f, v), Prepared(m, d, InnerBytes(f, v))
  PROVE  Advanced(d, ReadInnerField(m, d, f), Len(InnerBytes(f, v)), f.name, v)
<1>0. Reader(d) /\ d.ok /\ d.pos \in Nat /\ d.count \in Int
  BY DEF Prepared, Reader
<1>1. CASE f.kind = "member" /\ Lowest(f.of)
  <2>1. PICK b : b = PlainObjectBytes(f.of, v)
    OBVIOUS
  <2>2. InnerBytes(f, v) = PointerBytes(v, b)
    BY <1>1, <2>1 DEF InnerBytes
  <2>3. PICK itself : itself = ReadPlain(m, f.of, d.pos, d.count)
    OBVIOUS
  <2>4. ReadInnerField(m, d, f) = ReadMember(m, d, f, itself)
    BY <1>0, <1>1, <2>3 DEF ReadInnerField
  <2>5. ASSUME v # NULL
        PROVE  /\ b \in Seq(Byte) /\ Len(b) >= 1 /\ b[1] = 0
               /\ Done(itself, d.pos, d.count, Len(b), v)
    <3>1. PlainWell(f.of, v)
      BY <1>1, <2>5 DEF InnerFieldWell
    <3>2. b \in Seq(Byte) /\ Len(b) >= 1 /\ b[1] = 0
      BY <1>1, <2>1, <3>1, PlainObjectBytesIs
    <3>3. PointerBytes(v, b) = b
      BY <2>5 DEF PointerBytes
    <3>4. d.count >= Len(b) /\ Agrees(m, d.pos, b) /\ d.pos + Len(b) <= Len(m.bytes)
      BY <2>2, <3>3 DEF Prepared
    <3> QED BY <1>0, <1>1, <2>1, <2>3, <3>1, <3>2, <3>4, PlainObjectRead
  <2>6. Prepared(m, d, PointerBytes(v, b))
    BY <2>2
  <2>7. Advanced(d, ReadMember(m, d, f, itself), Len(PointerBytes(v, b)), f.name, v)
    BY <2>5, <2>6, MemberRead
  <2> QED BY <2>2, <2>4, <2>7
<1>2. CASE f.kind = "members" /\ Lowest(f.of)
  <2>1. InnerBytes(f, v) = VectorBytes(f.of, v) /\ VectorWell(f.of, v)
    BY <1>2 DEF InnerBytes, InnerFieldWell
  <2>2. ReadInnerField(m, d, f) = ReadMembers(m, d, f)
    BY <1>0, <1>2 DEF ReadInnerField
  <2> QED BY <1>2, <2>1, <2>2, VectorRead
<1>3. CASE PlainField(c, f)
  <2>1. f.kind \notin {"member", "members"}
    BY <1>3 DEF PlainField
  <2>2. PlainValue(f, v) /\ PlainFits(f, v)
    BY <2>1 DEF InnerFieldWell
  <2>3. InnerBytes(f, v) = PlainBytes(f, v)
    BY <2>1 DEF InnerBytes
  <2>4. ReadInnerField(m, d, f) = ReadPlainField(m, d, f)
    BY <2>1 DEF ReadInnerField
  <2> QED BY <1>3, <2>2, <2>3, <2>4, PlainFieldRead
<1> QED BY <1>1, <1>2, <1>3 DEF InnerKind

LEMMA InnerObjectBytesIs ==
  ASSUME NEW c, NEW o, Middle(c), InnerWell(c, o)
  PROVE  /\ InnerObjectBytes(c, o) \in Seq(Byte)
         /\ Len(InnerObjectBytes(c, o)) >= 1 /\ InnerObjectBytes(c, o)[1] = 0
<1> DEFINE fs == Written[c]
           pieces == [i \in 1 .. Len(fs) |-> InnerBytes(fs[i], o[fs[i].name])]
<1>1. Known(c) /\ DOMAIN fs = 1 .. Len(fs) /\ Len(fs) \in Nat
  BY DEF Middle, Known
<1>2. ASSUME NEW i \in 1 .. Len(fs)
      PROVE  InnerKind(c, fs[i]) /\ InnerFieldWell(fs[i], o[fs[i].name])
  BY <1>1, <1>2 DEF Middle, InnerWell, InnerKind
<1>3. ASSUME NEW i \in 1 .. Len(fs)
      PROVE  InnerBytes(fs[i], o[fs[i].name]) \in Seq(Byte)
  <2> HIDE DEF fs
  <2> QED BY <1>2, InnerBytesType
<1>4. PICK q : q = InnerObjectBytes(c, o)
  OBVIOUS
<1>5. q = << 0 >> \o FlattenSeq(pieces)
  BY <1>1, <1>4, Zenon DEF InnerObjectBytes
<1>6. pieces \in [1 .. Len(fs) -> Seq(Byte)] /\ Len(pieces) = Len(fs)
  <2> HIDE DEF fs
  <2> QED BY <1>1, <1>3
<1>7. q \in Seq(Byte) /\ Len(q) >= 1 /\ q[1] = 0
  <2> HIDE DEF fs, pieces
  <2> QED BY <1>1, <1>5, <1>6, FirstIsZero
<1> QED BY <1>4, <1>7

LEMMA InnerObjectRead ==
  ASSUME NEW m \in Memories, NEW c, NEW o, NEW pos \in Nat, NEW count \in Int, NEW q,
         Middle(c), InnerWell(c, o), q = InnerObjectBytes(c, o)
  PROVE  /\ q \in Seq(Byte) /\ Len(q) >= 1 /\ q[1] = 0
         /\ count >= Len(q) /\ Agrees(m, pos, q) /\ pos + Len(q) <= Len(m.bytes)
              => Done(ReadInner(m, c, pos, count), pos, count, Len(q), o)
<1> DEFINE fs == Written[c]
           pieces == [i \in 1 .. Len(fs) |-> InnerBytes(fs[i], o[fs[i].name])]
<1>1. Known(c) /\ DOMAIN fs = 1 .. Len(fs) /\ Len(fs) \in Nat
  BY DEF Middle, Known
<1>2. ASSUME NEW i \in 1 .. Len(fs)
      PROVE  InnerKind(c, fs[i]) /\ InnerFieldWell(fs[i], o[fs[i].name])
  BY <1>1, <1>2 DEF Middle, InnerWell, InnerKind
<1>3. ASSUME NEW i \in 1 .. Len(fs)
      PROVE  InnerBytes(fs[i], o[fs[i].name]) \in Seq(Byte)
  <2> HIDE DEF fs
  <2> QED BY <1>2, InnerBytesType
<1>4. q = << 0 >> \o FlattenSeq(pieces)
  BY <1>1, Zenon DEF InnerObjectBytes
<1>5. o = [x \in FieldNames(c) |-> o[x]]
  BY DEF InnerWell
<1>6. pieces \in [1 .. Len(fs) -> Seq(Byte)] /\ Len(pieces) = Len(fs)
  <2> HIDE DEF fs
  <2> QED BY <1>1, <1>3
<1>7. AllRead(1, m, fs, pieces, o)
  <2> SUFFICES ASSUME NEW i \in 1 .. Len(fs), NEW d, Prepared(m, d, pieces[i])
               PROVE  Advanced(d, StepAt(1, m, d, fs[i]), Len(pieces[i]), fs[i].name,
                               o[fs[i].name])
    BY DEF AllRead
  <2>1. pieces[i] = InnerBytes(fs[i], o[fs[i].name])
    OBVIOUS
  <2>2. StepAt(1, m, d, fs[i]) = ReadInnerField(m, d, fs[i])
    BY DEF StepAt
  <2> HIDE DEF fs, pieces
  <2> QED BY <1>2, <2>1, <2>2, InnerFieldRead
<1>8. PICK s : /\ Passes(s, 1, m, Begun(m, c, pos, count), Written[c])
               /\ ReadInner(m, c, pos, count) = s[Len(Written[c])]
  BY <1>1, ReadInnerIs
<1> HIDE DEF pieces
<1>9. ASSUME count >= Len(q), Agrees(m, pos, q), pos + Len(q) <= Len(m.bytes)
      PROVE  Done(s[Len(Written[c])], pos, count, Len(q), o)
  BY <1>1, <1>4, <1>5, <1>6, <1>7, <1>8, <1>9, ObjectRead
<1>10. q \in Seq(Byte) /\ Len(q) >= 1 /\ q[1] = 0
  <2> HIDE DEF fs
  <2> QED BY <1>1, <1>4, <1>6, FirstIsZero
<1> QED BY <1>8, <1>9, <1>10

\* And a whole message.
OuterKind(c, f) ==
  \/ PlainField(c, f)
  \/ f.kind = "members" /\ Lowest(f.of)
  \/ f.kind = "member" /\ Middle(f.of)
FieldWell(f, v) ==
  IF f.kind = "member" THEN v = NULL \/ InnerWell(f.of, v) ELSE InnerFieldWell(f, v)
Well(c, o) ==
  /\ o = [x \in FieldNames(c) |-> o[x]]
  /\ \A i \in 1 .. Len(Written[c]) : FieldWell(Written[c][i], o[Written[c][i].name])

LEMMA FieldRead ==
  ASSUME NEW m \in Memories, NEW d, NEW c, NEW f, NEW v, OuterKind(c, f),
         FieldWell(f, v)
  PROVE  /\ FieldBytes(f, v) \in Seq(Byte)
         /\ Prepared(m, d, FieldBytes(f, v))
              => Advanced(d, ReadField(m, d, f), Len(FieldBytes(f, v)), f.name, v)
<1>1. CASE f.kind = "member" /\ Middle(f.of)
  <2>1. PICK b : b = InnerObjectBytes(f.of, v)
    OBVIOUS
  <2>2. FieldBytes(f, v) = PointerBytes(v, b)
    BY <1>1, <2>1 DEF FieldBytes
  <2>3. ASSUME v # NULL PROVE b \in Seq(Byte) /\ Len(b) >= 1 /\ b[1] = 0
    <3>1. InnerWell(f.of, v)
      BY <1>1, <2>3 DEF FieldWell
    <3> QED BY <1>1, <2>1, <3>1, InnerObjectBytesIs
  <2>4. FieldBytes(f, v) \in Seq(Byte)
    BY <2>2, <2>3, PointerBytesIs
  <2>5. ASSUME Prepared(m, d, FieldBytes(f, v))
        PROVE  Advanced(d, ReadField(m, d, f), Len(FieldBytes(f, v)), f.name, v)
    <3>1. Reader(d) /\ d.ok /\ d.pos \in Nat /\ d.count \in Int
      BY <2>5 DEF Prepared, Reader
    <3>2. PICK itself : itself = ReadInner(m, f.of, d.pos, d.count)
      OBVIOUS
    <3>3. ReadField(m, d, f) = ReadMember(m, d, f, itself)
      BY <1>1, <3>1, <3>2 DEF ReadField
    <3>4. ASSUME v # NULL PROVE Done(itself, d.pos, d.count, Len(b), v)
      <4>1. InnerWell(f.of, v)
        BY <1>1, <3>4 DEF FieldWell
      <4>2. PointerBytes(v, b) = b
        BY <3>4 DEF PointerBytes
      <4>3. d.count >= Len(b) /\ Agrees(m, d.pos, b) /\ d.pos + Len(b) <= Len(m.bytes)
        BY <2>2, <2>5, <4>2 DEF Prepared
      <4> QED BY <1>1, <2>1, <3>1, <3>2, <4>1, <4>3, InnerObjectRead
    <3>5. Prepared(m, d, PointerBytes(v, b))
      BY <2>2, <2>5
    <3>6. Advanced(d, ReadMember(m, d, f, itself), Len(PointerBytes(v, b)), f.name, v)
      BY <2>3, <3>4, <3>5, MemberRead
    <3> QED BY <2>2, <3>3, <3>6
  <2> QED BY <2>4, <2>5
<1>2. CASE InnerKind(c, f) /\ f.kind # "member"
  <2>1. FieldBytes(f, v) = InnerBytes(f, v) /\ InnerFieldWell(f, v)
    BY <1>2 DEF FieldBytes, FieldWell
  <2>2. ReadField(m, d, f) = ReadInnerField(m, d, f)
    BY <1>2 DEF ReadField
  <2> QED BY <1>2, <2>1, <2>2, InnerBytesType, InnerFieldRead
<1>3. PlainField(c, f) => f.kind # "member"
  BY DEF PlainField
<1> QED BY <1>1, <1>2, <1>3 DEF OuterKind, InnerKind

\* What Serialize makes of an object, Deserialize makes the object of again.
LEMMA MessageRead ==
  ASSUME NEW m \in Memories, NEW c, NEW o, NEW pos \in Nat, NEW count \in Int, NEW q,
         Highest(c), Well(c, o), q = Serialize(c, o)
  PROVE  /\ q \in Seq(Byte) /\ Len(q) >= 1
         /\ count >= Len(q) /\ Agrees(m, pos, q) /\ pos + Len(q) <= Len(m.bytes)
              => Done(Deserialize(m, c, pos, count), pos, count, Len(q), o)
<1> DEFINE fs == Written[c]
           pieces == [i \in 1 .. Len(fs) |-> FieldBytes(fs[i], o[fs[i].name])]
<1>1. Known(c) /\ DOMAIN fs = 1 .. Len(fs) /\ Len(fs) \in Nat
  BY DEF Highest, Known
<1>2. ASSUME NEW i \in 1 .. Len(fs)
      PROVE  OuterKind(c, fs[i]) /\ FieldWell(fs[i], o[fs[i].name])
  BY <1>1, <1>2 DEF Highest, Well, OuterKind
<1>3. ASSUME NEW i \in 1 .. Len(fs)
      PROVE  FieldBytes(fs[i], o[fs[i].name]) \in Seq(Byte)
  <2> HIDE DEF fs
  <2> QED BY <1>2, FieldRead
<1>4. q = << 0 >> \o FlattenSeq(pieces)
  BY <1>1, Zenon DEF Serialize
<1>5. o = [x \in FieldNames(c) |-> o[x]]
  BY DEF Well
<1>6. pieces \in [1 .. Len(fs) -> Seq(Byte)] /\ Len(pieces) = Len(fs)
  <2> HIDE DEF fs
  <2> QED BY <1>1, <1>3
<1>7. AllRead(2, m, fs, pieces, o)
  <2> SUFFICES ASSUME NEW i \in 1 .. Len(fs), NEW d, Prepared(m, d, pieces[i])
               PROVE  Advanced(d, StepAt(2, m, d, fs[i]), Len(pieces[i]), fs[i].name,
                               o[fs[i].name])
    BY DEF AllRead
  <2>1. pieces[i] = FieldBytes(fs[i], o[fs[i].name])
    OBVIOUS
  <2>2. StepAt(2, m, d, fs[i]) = ReadField(m, d, fs[i])
    BY DEF StepAt
  <2> HIDE DEF fs, pieces
  <2> QED BY <1>2, <2>1, <2>2, FieldRead
<1>8. PICK s : /\ Passes(s, 2, m, Begun(m, c, pos, count), Written[c])
               /\ Deserialize(m, c, pos, count) = s[Len(Written[c])]
  BY <1>1, DeserializeIs
<1> HIDE DEF pieces
<1>9. ASSUME count >= Len(q), Agrees(m, pos, q), pos + Len(q) <= Len(m.bytes)
      PROVE  Done(s[Len(Written[c])], pos, count, Len(q), o)
  BY <1>1, <1>4, <1>5, <1>6, <1>7, <1>8, <1>9, ObjectRead
<1>10. q \in Seq(Byte) /\ Len(q) >= 1
  <2> HIDE DEF fs
  <2> QED BY <1>1, <1>4, <1>6, FirstIsZero
<1> QED BY <1>8, <1>9, <1>10

\* A reader of a message that was cut: it gave up within the memory, or it has
\* read the first byte and n more and still counts right.
Cutting(m, d, n) ==
  \/ ~d.ok /\ d.pos <= Len(m.bytes)
  \/ d.ok /\ Counts(m, d) /\ d.pos = 1 + n

LEMMA CutStep ==
  ASSUME NEW m \in Memories, NEW c, NEW f, NEW v, NEW d, NEW n \in Nat, NEW b \in Nat,
         PlainField(c, f), PlainValue(f, v), PlainFits(f, v), b = Len(PlainBytes(f, v)),
         Agrees(m, 1 + n, PlainBytes(f, v)), Cutting(m, d, n)
  PROVE  Cutting(m, StepAt(2, m, d, f), n + b)
<1>1. f.kind \notin {"member", "members"}
  BY DEF PlainField
<1>2. StepAt(2, m, d, f) = ReadPlainField(m, d, f)
  BY <1>1 DEF StepAt, ReadField, ReadInnerField
<1>3. CASE ~d.ok
  <2>1. ReadPlainField(m, d, f) = d
    BY <1>3 DEF ReadPlainField
  <2> QED BY <1>2, <1>3, <2>1 DEF Cutting
<1>4. CASE d.ok
  <2>1. Counts(m, d) /\ d.pos = 1 + n
    BY <1>4 DEF Cutting
  <2>2. PICK e : e = ReadPlainField(m, d, f)
    OBVIOUS
  <2>3. \/ ~e.ok /\ e.pos <= Len(m.bytes)
        \/ Counts(m, e) /\ e.pos = d.pos + b
    BY <1>4, <2>1, <2>2, PlainFieldCut
  <2>4. CASE Counts(m, e) /\ e.pos = d.pos + b
    <3>1. e.pos = 1 + (n + b)
      BY <2>1, <2>4
    <3>2. e.pos <= Len(m.bytes)
      <4>1. e.count \in Nat /\ e.pos \in Nat /\ e.pos + e.count = Len(m.bytes)
        BY <2>4 DEF Counts, Reader
      <4> QED BY <4>1
    <3> QED BY <1>2, <2>2, <2>4, <3>1, <3>2 DEF Cutting
  <2>5. CASE ~e.ok /\ e.pos <= Len(m.bytes)
    BY <1>2, <2>2, <2>5 DEF Cutting
  <2> QED BY <2>3, <2>4, <2>5
<1> QED BY <1>3, <1>4

\* The first byte of it is there.
LEMMA BegunCutting ==
  ASSUME NEW m \in Memories, NEW c, Len(m.bytes) >= 1, m.bytes[1] = 0
  PROVE  Cutting(m, Begun(m, c, 0, Len(m.bytes)), 0)
<1>1. Len(m.bytes) \in Nat
  BY DEF Memories
<1>2. Within(c, New(c), 0, Len(m.bytes), Begun(m, c, 0, Len(m.bytes)), 0, 0)
  <2>1. 0 \in Nat /\ Len(m.bytes) \in Int /\ 0 + 1 = 1 /\ 0 + 1 <= Len(m.bytes)
    BY <1>1
  <2>2. m.bytes[0 + 1] = 0
    BY <2>1
  <2> QED BY <2>1, <2>2, BegunWithin
<1>3. PICK d : d = Begun(m, c, 0, Len(m.bytes))
  OBVIOUS
<1>4. Reader(d) /\ d.ok /\ d.pos = 0 + (1 + 0)
  BY <1>2, <1>3 DEF Within
<1>5. d.count = Len(m.bytes) - 1
  BY <1>3 DEF Begun
<1>6. d.pos = 1 + 0 /\ d.count \in Nat /\ d.pos + d.count = Len(m.bytes)
  BY <1>1, <1>4, <1>5
<1> QED BY <1>3, <1>4, <1>6 DEF Cutting, Counts

\* The bytes of an object of numbers and texts.
LEMMA LowestBytes ==
  ASSUME NEW c, NEW o, Lowest(c), PlainWell(c, o)
  PROVE  Serialize(c, o) \in Seq(Byte)
<1>1. ASSUME NEW i \in DOMAIN Written[c]
      PROVE  FieldBytes(Written[c][i], o[Written[c][i].name])
               = PlainBytes(Written[c][i], o[Written[c][i].name])
  <2>1. Written[c][i].kind \notin {"member", "members"}
    BY DEF Lowest, Known, PlainField
  <2> QED BY <2>1 DEF FieldBytes, InnerBytes
<1>2. Serialize(c, o) = PlainObjectBytes(c, o)
  BY <1>1, Zenon DEF Serialize, PlainObjectBytes
<1> QED BY <1>2, PlainObjectBytesIs

LEMMA CutRead ==
  ASSUME NEW m \in Memories, NEW c, NEW o, NEW q,
         Lowest(c), PlainWell(c, o), q = Serialize(c, o),
         Len(m.bytes) >= 1, Len(m.bytes) < Len(q), Agrees(m, 0, q)
  PROVE  /\ ~Deserialize(m, c, 0, Len(m.bytes)).ok
         /\ Deserialize(m, c, 0, Len(m.bytes)).pos <= Len(m.bytes)
<1> DEFINE fs == Written[c]
           pieces == [i \in 1 .. Len(fs) |-> FieldBytes(fs[i], o[fs[i].name])]
<1>1. PICK k \in Nat \ {0} : k = Len(fs) /\ DOMAIN fs = 1 .. k
  BY DEF Lowest, Known
<1>2. ASSUME NEW i \in 1 .. k
      PROVE  /\ PlainField(c, fs[i]) /\ PlainValue(fs[i], o[fs[i].name])
             /\ PlainFits(fs[i], o[fs[i].name])
  BY <1>1, <1>2 DEF Lowest, PlainWell, PlainObject
<1>3. ASSUME NEW i \in 1 .. k
      PROVE  /\ pieces[i] = PlainBytes(fs[i], o[fs[i].name])
             /\ PlainBytes(fs[i], o[fs[i].name]) \in Seq(Byte)
  <2>1. fs[i].kind = "text" /\ o[fs[i].name] # NULL => Len(o[fs[i].name]) < NoLength
    BY <1>2 DEF PlainFits
  <2>2. fs[i].kind \notin {"member", "members"}
    BY <1>2 DEF PlainField
  <2>3. FieldBytes(fs[i], o[fs[i].name]) = PlainBytes(fs[i], o[fs[i].name])
    BY <2>2 DEF FieldBytes, InnerBytes
  <2>4. pieces[i] = FieldBytes(fs[i], o[fs[i].name])
    BY <1>1
  <2> HIDE DEF fs, pieces
  <2> QED BY <1>2, <2>1, <2>3, <2>4, PlainBytesIs
<1>4. q = << 0 >> \o FlattenSeq(pieces)
  BY <1>1, Zenon DEF Serialize
<1>5. pieces \in [1 .. k -> Seq(Byte)] /\ Len(pieces) = k
  <2>1. \A i \in 1 .. k : pieces[i] \in Seq(Byte)
    <3> HIDE DEF fs, pieces
    <3> QED BY <1>3
  <2>2. pieces = [i \in 1 .. k |-> pieces[i]]
    BY <1>1
  <2> HIDE DEF fs, pieces
  <2> QED BY <1>1, <2>1, <2>2
<1> HIDE DEF pieces
<1>6. PICK joined : Joins(pieces, k, joined) /\ FlattenSeq(pieces) = joined[k]
  <2>1. \E joined : Joins(pieces, k, joined) /\ FlattenSeq(pieces) = joined[k]
    BY <1>5, Flattened
  <2> QED BY <2>1
<1>7. PICK r \in Seq(Byte) : r = joined[k]
  BY <1>6 DEF Joins
<1>8. /\ Len(q) = 1 + Len(r) /\ Agrees(m, 1, r) /\ m.bytes[1] = 0
  <2>1. q = << 0 >> \o r
    BY <1>4, <1>6, <1>7, Zenon
  <2>2. 0 \in Nat /\ 0 + 1 = 1
    OBVIOUS
  <2>3. /\ Len(q) = 1 + Len(r) /\ Agrees(m, 0 + 1, r)
        /\ 0 + 1 <= Len(m.bytes) => m.bytes[0 + 1] = 0
    BY <2>1, <2>2, BehindFirst
  <2> QED BY <2>2, <2>3
<1>9. \A i \in 1 .. k : /\ Agrees(m, 1 + Len(joined[i - 1]), pieces[i])
                        /\ Len(joined[i]) = Len(joined[i - 1]) + Len(pieces[i])
  <2>1. PICK p \in Nat : p = 1
    OBVIOUS
  <2>2. /\ Agrees(m, p, joined[k]) /\ pieces \in [1 .. k -> Seq(Byte)]
        /\ Joins(pieces, k, joined) /\ k \in Nat
    BY <1>5, <1>6, <1>7, <1>8, <2>1
  <2>3. \A i \in 1 .. k : /\ Agrees(m, p + Len(joined[i - 1]), pieces[i])
                          /\ Len(joined[i]) = Len(joined[i - 1]) + Len(pieces[i])
                          /\ Len(joined[i]) <= Len(joined[k])
    <3> HIDE DEF fs
    <3> QED BY <2>2, PieceAt
  <2> QED BY <2>1, <2>3, Zenon
<1>10. \A i \in 0 .. k : Len(joined[i]) \in Nat
  BY <1>6 DEF Joins
<1>11. PICK s : /\ Passes(s, 2, m, Begun(m, c, 0, Len(m.bytes)), Written[c])
                /\ Deserialize(m, c, 0, Len(m.bytes)) = s[Len(Written[c])]
  <2>1. Known(c)
    BY DEF Lowest
  <2> QED BY <2>1, DeserializeIs
<1>12. /\ s[0] = Begun(m, c, 0, Len(m.bytes))
       /\ \A i \in 1 .. k : s[i] = StepAt(2, m, s[i - 1], fs[i])
  <2>1. s = [n \in 0 .. k |-> IF n = 0 THEN Begun(m, c, 0, Len(m.bytes))
                              ELSE StepAt(2, m, s[n - 1], fs[n])]
    BY <1>1, <1>11, Zenon DEF Passes
  <2>2. 0 \in 0 .. k /\ \A i \in 1 .. k : i \in 0 .. k /\ i # 0
    OBVIOUS
  <2>3. ASSUME NEW n \in 0 .. k
        PROVE  s[n] = IF n = 0 THEN Begun(m, c, 0, Len(m.bytes))
                      ELSE StepAt(2, m, s[n - 1], fs[n])
    BY <2>1, Zenon
  <2> QED BY <2>2, <2>3, Zenon
<1> DEFINE P == {i \in 0 .. k : Cutting(m, s[i], Len(joined[i]))}
<1>13. 0 \in P
  <2>1. Len(joined[0]) = 0 /\ 0 \in 0 .. k
    BY <1>6 DEF Joins
  <2>2. Cutting(m, Begun(m, c, 0, Len(m.bytes)), 0)
    BY <1>8, BegunCutting
  <2> QED BY <1>12, <2>1, <2>2
<1>14. ASSUME NEW i \in 1 .. k, i - 1 \in P PROVE i \in P
  <2>1. i - 1 \in 0 .. k /\ i \in 0 .. k
    OBVIOUS
  <2>2. PICK n \in Nat, b \in Nat : n = Len(joined[i - 1]) /\ b = Len(pieces[i])
    <3>1. Len(joined[i - 1]) \in Nat /\ pieces[i] \in Seq(Byte)
      BY <1>5, <1>10, <2>1
    <3>2. Len(pieces[i]) \in Nat
      BY <3>1
    <3> QED BY <3>1, <3>2, Zenon
  <2>3. PICK f, v, d : f = fs[i] /\ v = o[f.name] /\ d = s[i - 1]
    OBVIOUS
  <2>4. /\ PlainField(c, f) /\ PlainValue(f, v) /\ PlainFits(f, v)
        /\ pieces[i] = PlainBytes(f, v)
    BY <1>2, <1>3, <2>3, Zenon
  <2>5. Cutting(m, d, n) /\ Agrees(m, 1 + n, PlainBytes(f, v)) /\ b = Len(PlainBytes(f, v))
    <3>1. Cutting(m, d, n)
      BY <1>14, <2>2, <2>3
    <3>2. Agrees(m, 1 + n, PlainBytes(f, v))
      BY <1>9, <2>2, <2>4
    <3> QED BY <2>2, <2>4, <3>1, <3>2
  <2>6. Cutting(m, StepAt(2, m, d, f), n + b)
    <3> HIDE DEF P, fs
    <3> QED BY <2>4, <2>5, CutStep
  <2>7. s[i] = StepAt(2, m, d, f) /\ Len(joined[i]) = n + b
    <3>1. s[i] = StepAt(2, m, s[i - 1], fs[i])
      BY <1>12
    <3>2. Len(joined[i]) = n + b
      BY <1>9, <2>2
    <3> QED BY <2>3, <3>1, <3>2, Zenon
  <2> QED BY <2>1, <2>6, <2>7
<1>15. 0 .. k \subseteq P
  <2> HIDE DEF P
  <2> QED BY <1>13, <1>14, Climbing
<1>16. Cutting(m, s[k], Len(r))
  <2>1. k \in 0 .. k
    OBVIOUS
  <2> QED BY <1>7, <1>15, <2>1
<1>17. ~s[k].ok /\ s[k].pos <= Len(m.bytes)
  <2>1. ~(Counts(m, s[k]) /\ s[k].pos = 1 + Len(r))
    <3> SUFFICES ASSUME Counts(m, s[k]), s[k].pos = 1 + Len(r) PROVE FALSE
      OBVIOUS
    <3>1. /\ s[k].count \in Nat /\ s[k].pos + s[k].count = Len(m.bytes)
          /\ s[k].pos \in Nat
      BY DEF Counts, Reader
    <3>2. Len(m.bytes) \in Nat /\ Len(m.bytes) < 1 + Len(r)
      BY <1>8 DEF Memories
    <3> QED BY <3>1, <3>2
  <2> QED BY <1>16, <2>1 DEF Cutting
<1> QED BY <1>1, <1>11, <1>17

\* No two fields of a class have one name.
Distinct(c) ==
  \A i, j \in 1 .. Len(Written[c]) : Written[c][i].name = Written[c][j].name => i = j

LEMMA RequestsDistinct ==
  /\ Distinct("AuthenticationAAARequest") /\ Distinct("AuthenticationAAAResponse")
  /\ Distinct("LoginAccountRequest") /\ Distinct("FeedbackAccountRequest")
  /\ Distinct("GMWebInstruction")
<1> USE DEF Distinct, Written, Fixed, Text
<1>1. Distinct("AuthenticationAAARequest")
  BY DEF AAARequestWritten
<1>2. Distinct("AuthenticationAAAResponse")
  BY DEF AAAResponseWritten
<1>3. Distinct("LoginAccountRequest")
  BY DEF LoginAccountRequestWritten
<1>4. Distinct("FeedbackAccountRequest")
  BY DEF FeedbackAccountRequestWritten
<1>5. Distinct("GMWebInstruction")
  BY DEF GMWebInstructionWritten
<1> HIDE DEF Distinct
<1> QED BY <1>1, <1>2, <1>3, <1>4, <1>5

LEMMA OrdersDistinct ==
  /\ Distinct("CreateOrderRequest") /\ Distinct("PayAckOrderRequest")
  /\ Distinct("CreateOrderResponse") /\ Distinct("XiYouGameServer")
<1> USE DEF Distinct, Written, Fixed, Text
<1>1. Distinct("CreateOrderRequest")
  BY DEF CreateOrderRequestWritten
<1>2. Distinct("PayAckOrderRequest")
  BY DEF PayAckOrderRequestWritten
<1>3. Distinct("CreateOrderResponse")
  BY DEF CreateOrderResponseWritten
<1>4. Distinct("XiYouGameServer")
  BY DEF XiYouGameServerWritten
<1> HIDE DEF Distinct
<1> QED BY <1>1, <1>2, <1>3, <1>4

LEMMA GenericsDistinct ==
  /\ Distinct("GenericString") /\ Distinct("GenericSingle") /\ Distinct("GenericInt8")
  /\ Distinct("GenericInt16") /\ Distinct("GenericInt32") /\ Distinct("GenericInt64")
<1> USE DEF Distinct, Written, Fixed, Text
<1>1. Distinct("GenericString")
  BY DEF GenericStringWritten
<1>2. Distinct("GenericSingle")
  BY DEF GenericSingleWritten
<1>3. Distinct("GenericInt8")
  BY DEF GenericInt8Written
<1>4. Distinct("GenericInt16")
  BY DEF GenericInt16Written
<1>5. Distinct("GenericInt32")
  BY DEF GenericInt32Written
<1>6. Distinct("GenericInt64")
  BY DEF GenericInt64Written
<1> HIDE DEF Distinct
<1> QED BY <1>1, <1>2, <1>3, <1>4, <1>5, <1>6

LEMMA HoldersDistinct ==
  /\ Distinct("LoginAccountResponse") /\ Distinct("GenericOrder")
  /\ Distinct("GenericLogin") /\ Distinct("GenericDouble")
<1> USE DEF Distinct, Written, Fixed, Text, Member, Members, LongDouble
<1>1. Distinct("LoginAccountResponse")
  BY DEF LoginAccountResponseWritten
<1>2. Distinct("GenericOrder")
  BY DEF GenericOrderWritten
<1>3. Distinct("GenericLogin")
  BY DEF GenericLoginWritten
<1>4. Distinct("GenericDouble")
  BY DEF GenericDoubleWritten
<1> HIDE DEF Distinct
<1> QED BY <1>1, <1>2, <1>3, <1>4

LEMMA AllDistinct == \A c \in Classes : Distinct(c)
<1>1. ASSUME NEW c \in Classes
      PROVE  \/ c \in {"AuthenticationAAARequest", "AuthenticationAAAResponse",
                       "LoginAccountRequest", "FeedbackAccountRequest",
                       "GMWebInstruction"}
             \/ c \in {"CreateOrderRequest", "PayAckOrderRequest",
                       "CreateOrderResponse", "XiYouGameServer"}
             \/ c \in {"GenericString", "GenericSingle", "GenericInt8",
                       "GenericInt16", "GenericInt32", "GenericInt64"}
             \/ c \in {"LoginAccountResponse", "GenericOrder", "GenericLogin",
                       "GenericDouble"}
  BY DEF Classes, Written
<1> QED BY <1>1, RequestsDistinct, OrdersDistinct, GenericsDistinct, HoldersDistinct

\* The field of a name.
LEMMA FieldIs ==
  ASSUME NEW c, Known(c)
  PROVE  /\ \A i \in 1 .. Len(Written[c]) : /\ Field(c, Written[c][i].name) = Written[c][i]
                                          /\ Written[c][i].name \in FieldNames(c)
         /\ \A n \in FieldNames(c) : \E i \in 1 .. Len(Written[c]) :
              Field(c, n) = Written[c][i] /\ Written[c][i].name = n
<1>1. DOMAIN Written[c] = 1 .. Len(Written[c]) /\ Distinct(c)
  BY AllDistinct DEF Known
<1>2. \A n \in FieldNames(c) : \E i \in 1 .. Len(Written[c]) : Written[c][i].name = n
  BY <1>1 DEF FieldNames
<1>3. \A i \in 1 .. Len(Written[c]) : Written[c][i].name \in FieldNames(c)
  BY <1>1 DEF FieldNames
<1>4. ASSUME NEW i \in 1 .. Len(Written[c])
      PROVE  Field(c, Written[c][i].name) = Written[c][i]
  <2> DEFINE j == CHOOSE j \in DOMAIN Written[c] : Written[c][j].name = Written[c][i].name
  <2>1. j \in DOMAIN Written[c] /\ Written[c][j].name = Written[c][i].name
    BY <1>1
  <2>2. Field(c, Written[c][i].name) = Written[c][j]
    BY DEF Field
  <2> HIDE DEF j
  <2>3. j = i
    BY <1>1, <2>1 DEF Distinct
  <2> QED BY <2>2, <2>3
<1>5. ASSUME NEW n \in FieldNames(c)
      PROVE  \E i \in 1 .. Len(Written[c]) :
               Field(c, n) = Written[c][i] /\ Written[c][i].name = n
  <2>1. PICK i \in 1 .. Len(Written[c]) : Written[c][i].name = n
    BY <1>2
  <2>2. Field(c, n) = Written[c][i]
    BY <1>4, <2>1
  <2> QED BY <2>1, <2>2
<1> QED BY <1>3, <1>4, <1>5

\* A setter makes a text that fits of every text.
LEMMA SetTextFits ==
  ASSUME NEW v, v = NULL \/ v \in Seq(Byte)
  PROVE  /\ SetText(v) = NULL \/ SetText(v) \in Seq(Byte)
         /\ SetText(v) # NULL => Len(SetText(v)) < NoLength
<1>1. CASE v = NULL
  BY <1>1 DEF SetText
<1>2. CASE v # NULL
  <2>1. PICK n \in Nat : n = Len(v) % (NoLength + 1) /\ n <= NoLength /\ n <= Len(v)
    <3>1. PICK w \in Nat \ {0} : w = NoLength + 1
      BY LengthsFit
    <3>2. PICK k \in Nat : k = Len(v)
      BY <1>2
    <3>3. k % w \in Nat /\ k % w < w /\ k % w <= k
      <4>1. k % w \in Nat /\ k % w < w
        OBVIOUS
      <4>2. k < w => k % w = k
        OBVIOUS
      <4> QED BY <4>1, <4>2
    <3>4. NoLength \in Nat
      BY LengthsFit
    <3> QED BY <3>1, <3>2, <3>3, <3>4
  <2>2. SetText(v) = IF n = NoLength THEN NULL ELSE SubSeq(v, 1, n)
    BY <1>2, <2>1 DEF SetText
  <2>3. SubSeq(v, 1, n) \in Seq(Byte) /\ Len(SubSeq(v, 1, n)) = n
    BY <1>2, <2>1
  <2>4. NoLength \in Nat
    BY LengthsFit
  <2> QED BY <2>1, <2>2, <2>3, <2>4
<1> QED BY <1>1, <1>2

LEMMA FilledTextIs ==
  ASSUME NEW c, NEW f, PlainField(c, f), NEW v, PlainValue(f, v)
  PROVE  /\ PlainValue(f, FilledText(c, f, v)) /\ PlainFits(f, FilledText(c, f, v))
         /\ PlainFits(f, v) => FilledText(c, f, v) = v
<1>1. CASE f.kind = "fixed"
  <2>1. FilledText(c, f, v) = v
    BY <1>1 DEF FilledText
  <2> QED BY <1>1, <2>1 DEF PlainFits
<1>2. CASE f.kind = "text" /\ f.name \in Setters[c]
  <2>1. FilledText(c, f, v) = SetText(v)
    BY <1>2 DEF FilledText
  <2>2. v = NULL \/ v \in Seq(Byte)
    BY <1>2 DEF PlainValue
  <2>3. PlainFits(f, v) => SetText(v) = v
    BY <1>2, <2>2, SetTextSame DEF PlainFits
  <2>4. PICK w : w = SetText(v)
    OBVIOUS
  <2>5. (w = NULL \/ w \in Seq(Byte)) /\ (w # NULL => Len(w) < NoLength)
    BY <2>2, <2>4, SetTextFits
  <2>6. PlainValue(f, w) /\ PlainFits(f, w)
    BY <1>2, <2>5 DEF PlainValue, PlainFits
  <2> QED BY <2>1, <2>3, <2>4, <2>6
<1> QED BY <1>1, <1>2 DEF PlainField

LEMMA FilledPlainWell ==
  ASSUME NEW c, Lowest(c), NEW v, PlainObject(c, v)
  PROVE  PlainWell(c, FilledPlain(c, v))
<1>1. Known(c) /\ DOMAIN Written[c] = 1 .. Len(Written[c])
  BY DEF Lowest, Known
<1>2. PICK o : o = FilledPlain(c, v)
  OBVIOUS
<1>3. o = [n \in FieldNames(c) |-> FilledText(c, Field(c, n), v[n])]
  BY <1>2 DEF FilledPlain
<1>4. o = [n \in FieldNames(c) |-> o[n]]
  BY <1>3
<1>5. ASSUME NEW i \in 1 .. Len(Written[c])
      PROVE  /\ PlainValue(Written[c][i], o[Written[c][i].name])
             /\ PlainFits(Written[c][i], o[Written[c][i].name])
  <2>1. PICK f : f = Written[c][i]
    OBVIOUS
  <2>2. Field(c, f.name) = f /\ f.name \in FieldNames(c)
    BY <1>1, <2>1, FieldIs
  <2>3. o[f.name] = FilledText(c, f, v[f.name])
    BY <1>3, <2>2
  <2>4. PlainField(c, f) /\ PlainValue(f, v[f.name])
    BY <1>1, <2>1 DEF Lowest, PlainObject
  <2> QED BY <2>1, <2>3, <2>4, FilledTextIs
<1> QED BY <1>1, <1>2, <1>4, <1>5 DEF PlainWell, PlainObject

LEMMA PlainSame ==
  ASSUME NEW c, Lowest(c), NEW v, PlainObject(c, v), PlainObjectFits(c, v)
  PROVE  FilledPlain(c, v) = v /\ PlainWell(c, v)
<1>1. Known(c)
  BY DEF Lowest
<1>2. ASSUME NEW n \in FieldNames(c)
      PROVE  FilledText(c, Field(c, n), v[n]) = v[n]
  <2>1. PICK i \in 1 .. Len(Written[c]) : Field(c, n) = Written[c][i] /\ Written[c][i].name = n
    BY <1>1, FieldIs
  <2>2. PlainField(c, Field(c, n)) /\ PlainValue(Field(c, n), v[n])
    BY <1>1, <2>1 DEF Lowest, PlainObject, Known
  <2>3. PlainFits(Field(c, n), v[n])
    BY DEF PlainObjectFits
  <2> QED BY <2>2, <2>3, FilledTextIs
<1>3. v = [n \in FieldNames(c) |-> v[n]]
  BY DEF PlainObject
<1>4. FilledPlain(c, v) = v
  BY <1>2, <1>3 DEF FilledPlain
<1>5. PlainWell(c, FilledPlain(c, v))
  BY FilledPlainWell
<1> QED BY <1>4, <1>5

\* What fits is filled in as it was given, on every level.
LEMMA InnerFieldSame ==
  ASSUME NEW c, NEW f, NEW v, InnerKind(c, f), InnerValue(f, v), InnerFits(f, v)
  PROVE  FilledInnerField(c, f, v) = v /\ InnerFieldWell(f, v)
<1>1. CASE f.kind = "member" /\ Lowest(f.of)
  <2>1. FilledInnerField(c, f, v) = IF v = NULL THEN NULL ELSE FilledPlain(f.of, v)
    BY <1>1 DEF FilledInnerField
  <2>2. v # NULL => PlainObject(f.of, v) /\ PlainObjectFits(f.of, v)
    BY <1>1 DEF InnerValue, InnerFits
  <2>3. v # NULL => FilledPlain(f.of, v) = v /\ PlainWell(f.of, v)
    BY <1>1, <2>2, PlainSame
  <2> QED BY <1>1, <2>1, <2>3 DEF InnerFieldWell
<1>2. CASE f.kind = "members" /\ Lowest(f.of)
  <2>1. CASE v = NULL
    BY <1>2, <2>1 DEF FilledInnerField, InnerFieldWell, VectorWell
  <2>2. CASE v # NULL
    <3>1. PICK n \in Nat : /\ n = Len(v) /\ v = [i \in 1 .. n |-> v[i]]
                           /\ \A i \in 1 .. n : v[i] = NULL \/ PlainObject(f.of, v[i])
      BY <1>2, <2>2 DEF InnerValue
    <3>2. DOMAIN v = 1 .. n
      BY <3>1
    <3>3. /\ n < NoLength
          /\ \A i \in 1 .. n : v[i] # NULL => PlainObjectFits(f.of, v[i])
      BY <1>2, <2>2, <3>1, <3>2 DEF InnerFits
    <3>4. ASSUME NEW i \in 1 .. n, v[i] # NULL
          PROVE  FilledPlain(f.of, v[i]) = v[i] /\ PlainWell(f.of, v[i])
      BY <1>2, <3>1, <3>3, <3>4, PlainSame
    <3>5. FilledInnerField(c, f, v)
            = [i \in 1 .. n |-> IF v[i] = NULL THEN NULL ELSE FilledPlain(f.of, v[i])]
      BY <1>2, <2>2, <3>2 DEF FilledInnerField
    <3>6. ASSUME NEW i \in 1 .. n
          PROVE  (IF v[i] = NULL THEN NULL ELSE FilledPlain(f.of, v[i])) = v[i]
      BY <3>4
    <3>7. FilledInnerField(c, f, v) = [i \in 1 .. n |-> v[i]]
      BY <3>5, <3>6
    <3>8. FilledInnerField(c, f, v) = v
      BY <3>1, <3>7, Zenon
    <3>9. VectorWell(f.of, v)
      BY <3>1, <3>3, <3>4 DEF VectorWell
    <3> QED BY <1>2, <3>8, <3>9 DEF InnerFieldWell
  <2> QED BY <2>1, <2>2
<1>3. CASE PlainField(c, f)
  <2>1. f.kind \in {"fixed", "text"}
    BY <1>3 DEF PlainField
  <2>2. PlainValue(f, v) /\ PlainFits(f, v) /\ FilledInnerField(c, f, v) = FilledText(c, f, v)
    BY <2>1 DEF InnerValue, InnerFits, FilledInnerField
  <2>3. FilledText(c, f, v) = v
    BY <1>3, <2>2, FilledTextIs
  <2> QED BY <2>1, <2>2, <2>3 DEF InnerFieldWell
<1> QED BY <1>1, <1>2, <1>3 DEF InnerKind

LEMMA InnerSame ==
  ASSUME NEW c, Middle(c), NEW v, InnerObject(c, v), InnerObjectFits(c, v)
  PROVE  FilledInner(c, v) = v /\ InnerWell(c, v)
<1>1. Known(c) /\ DOMAIN Written[c] = 1 .. Len(Written[c])
  BY DEF Middle, Known
<1>2. ASSUME NEW i \in 1 .. Len(Written[c])
      PROVE  LET n == Written[c][i].name
             IN  /\ Field(c, n) = Written[c][i]
                 /\ FilledInnerField(c, Written[c][i], v[n]) = v[n]
                 /\ InnerFieldWell(Written[c][i], v[n])
  <2>1. PICK f : f = Written[c][i]
    OBVIOUS
  <2>2. Field(c, f.name) = f /\ f.name \in FieldNames(c)
    BY <1>1, <2>1, FieldIs
  <2>3. InnerKind(c, f) /\ InnerValue(f, v[f.name])
    BY <1>1, <2>1 DEF Middle, InnerObject, InnerKind
  <2>4. InnerFits(f, v[f.name])
    BY <2>2 DEF InnerObjectFits
  <2> QED BY <2>1, <2>2, <2>3, <2>4, InnerFieldSame
<1>3. ASSUME NEW n \in FieldNames(c)
      PROVE  FilledInnerField(c, Field(c, n), v[n]) = v[n]
  <2>1. PICK i \in 1 .. Len(Written[c]) : Field(c, n) = Written[c][i] /\ Written[c][i].name = n
    BY <1>1, FieldIs
  <2> QED BY <1>2, <2>1
<1>4. v = [n \in FieldNames(c) |-> v[n]]
  BY DEF InnerObject
<1>5. FilledInner(c, v) = v
  BY <1>3, <1>4 DEF FilledInner
<1> QED BY <1>2, <1>4, <1>5 DEF InnerWell

LEMMA FieldSame ==
  ASSUME NEW c, NEW f, NEW v, OuterKind(c, f), FieldValue(f, v), FieldFits(f, v)
  PROVE  FilledField(c, f, v) = v /\ FieldWell(f, v)
<1>1. CASE f.kind = "member" /\ Middle(f.of)
  <2>1. CASE v = NULL
    BY <1>1, <2>1 DEF FilledField, FilledInnerField, FieldWell
  <2>2. CASE v # NULL
    <3>1. InnerObject(f.of, v) /\ InnerObjectFits(f.of, v)
      BY <1>1, <2>2 DEF FieldValue, FieldFits
    <3>2. FilledField(c, f, v) = FilledInner(f.of, v)
      BY <1>1, <2>2 DEF FilledField
    <3> QED BY <1>1, <3>1, <3>2, InnerSame DEF FieldWell
  <2> QED BY <2>1, <2>2
<1>2. CASE InnerKind(c, f) /\ f.kind # "member"
  <2>1. InnerValue(f, v) /\ InnerFits(f, v) /\ FilledField(c, f, v) = FilledInnerField(c, f, v)
    BY <1>2 DEF FieldValue, FieldFits, FilledField
  <2> QED BY <1>2, <2>1, InnerFieldSame DEF FieldWell
<1>3. PlainField(c, f) => f.kind # "member"
  BY DEF PlainField
<1> QED BY <1>1, <1>2, <1>3 DEF OuterKind, InnerKind

LEMMA MessageSame ==
  ASSUME NEW c, Highest(c), NEW v, ClassObject(c, v),
         \A n \in FieldNames(c) : FieldFits(Field(c, n), v[n])
  PROVE  Filled(c, v) = v /\ Well(c, v)
<1>1. Known(c) /\ DOMAIN Written[c] = 1 .. Len(Written[c])
  BY DEF Highest, Known
<1>2. ASSUME NEW i \in 1 .. Len(Written[c])
      PROVE  LET n == Written[c][i].name
             IN  /\ Field(c, n) = Written[c][i]
                 /\ FilledField(c, Written[c][i], v[n]) = v[n]
                 /\ FieldWell(Written[c][i], v[n])
  <2>1. PICK f : f = Written[c][i]
    OBVIOUS
  <2>2. Field(c, f.name) = f /\ f.name \in FieldNames(c)
    BY <1>1, <2>1, FieldIs
  <2>3. OuterKind(c, f) /\ FieldValue(f, v[f.name])
    BY <1>1, <2>1 DEF Highest, ClassObject, OuterKind
  <2>4. FieldFits(f, v[f.name])
    BY <2>2
  <2> QED BY <2>1, <2>2, <2>3, <2>4, FieldSame
<1>3. ASSUME NEW n \in FieldNames(c)
      PROVE  FilledField(c, Field(c, n), v[n]) = v[n]
  <2>1. PICK i \in 1 .. Len(Written[c]) : Field(c, n) = Written[c][i] /\ Written[c][i].name = n
    BY <1>1, FieldIs
  <2> QED BY <1>2, <2>1
<1>4. v = [n \in FieldNames(c) |-> v[n]]
  BY DEF ClassObject
<1>5. Filled(c, v) = v
  BY <1>3, <1>4 DEF Filled
<1> QED BY <1>2, <1>4, <1>5 DEF Well

\* A class of numbers and texts is filled in well whatever is given.
LEMMA LowestFilled ==
  ASSUME NEW c, Lowest(c), NEW v, ClassObject(c, v)
  PROVE  PlainWell(c, Filled(c, v))
<1>1. Known(c) /\ DOMAIN Written[c] = 1 .. Len(Written[c])
  BY DEF Lowest, Known
<1>2. ASSUME NEW i \in 1 .. Len(Written[c])
      PROVE  /\ Written[c][i].kind \in {"fixed", "text"}
             /\ PlainValue(Written[c][i], v[Written[c][i].name])
  <2>1. PICK f : f = Written[c][i]
    OBVIOUS
  <2>2. PlainField(c, f) /\ FieldValue(f, v[f.name])
    BY <1>1, <2>1 DEF Lowest, ClassObject
  <2>3. f.kind \in {"fixed", "text"}
    BY <2>2 DEF PlainField
  <2> QED BY <2>1, <2>2, <2>3 DEF FieldValue, InnerValue
<1>3. PlainObject(c, v)
  BY <1>1, <1>2 DEF PlainObject, ClassObject
<1>4. ASSUME NEW n \in FieldNames(c)
      PROVE  FilledField(c, Field(c, n), v[n]) = FilledText(c, Field(c, n), v[n])
  <2>1. PICK i \in 1 .. Len(Written[c]) : Field(c, n) = Written[c][i] /\ Written[c][i].name = n
    BY <1>1, FieldIs
  <2>2. Field(c, n).kind \in {"fixed", "text"}
    BY <1>2, <2>1
  <2> QED BY <2>2 DEF FilledField, FilledInnerField
<1>5. Filled(c, v) = FilledPlain(c, v)
  BY <1>4 DEF Filled, FilledPlain
<1> QED BY <1>3, <1>5, FilledPlainWell

LEMMA LevelsUp ==
  ASSUME NEW c
  PROVE  (Lowest(c) => Middle(c)) /\ (Middle(c) => Highest(c))
<1>1. Lowest(c) => Middle(c)
  BY DEF Lowest, Middle
<1>2. \A d : Lowest(d) => Middle(d)
  BY DEF Lowest, Middle
<1>3. Middle(c) => Highest(c)
  BY <1>2 DEF Middle, Highest
<1> QED BY <1>1, <1>3
--------------------------------------------------------------------------------
(* The two messages that lay out their bytes themselves.                   *)

\* r stands behind the first a bytes of q.
Has(q, a, r) ==
  /\ q \in Seq(Byte) /\ r \in Seq(Byte) /\ a \in Nat /\ a + Len(r) <= Len(q)
  /\ SubSeq(q, a + 1, a + Len(r)) = r

LEMMA HasNew ==
  ASSUME NEW q \in Seq(Byte), NEW r \in Seq(Byte)
  PROVE  /\ Has(q \o r, Len(q), r) /\ Len(q \o r) = Len(q) + Len(r)
         /\ q \o r \in Seq(Byte)
<1>1. /\ q \o r \in Seq(Byte) /\ Len(q \o r) = Len(q) + Len(r)
      /\ SubSeq(q \o r, Len(q) + 1, Len(q) + Len(r)) = r
  BY Joined
<1>2. Len(q) \in Nat /\ Len(q) + Len(r) <= Len(q) + Len(r)
  OBVIOUS
<1> QED BY <1>1, <1>2 DEF Has

LEMMA HasOn ==
  ASSUME NEW q, NEW a, NEW r, NEW w \in Seq(Byte), Has(q, a, r)
  PROVE  Has(q \o w, a, r)
<1>1. PICK b \in Nat : b = a + Len(r) /\ a <= b /\ b <= Len(q)
  <2>1. a + Len(r) \in Nat /\ a <= a + Len(r)
    BY DEF Has
  <2> QED BY <2>1 DEF Has
<1>2. q \in Seq(Byte) /\ a \in Nat
  BY DEF Has
<1>3. SubSeq(q \o w, a + 1, b) = SubSeq(q, a + 1, b)
  BY <1>1, <1>2, PartOfJoined
<1>4. q \o w \in Seq(Byte) /\ Len(q \o w) = Len(q) + Len(w) /\ Len(w) \in Nat
  BY <1>2, Joined
<1>5. b <= Len(q \o w)
  BY <1>1, <1>2, <1>4
<1> QED BY <1>1, <1>3, <1>4, <1>5 DEF Has

LEMMA HasJoined ==
  ASSUME NEW q \in Seq(Byte), NEW r \in Seq(Byte)
  PROVE  \E p \in Seq(Byte) : /\ p = q \o r /\ Len(p) = Len(q) + Len(r)
                              /\ Has(p, Len(q), r)
                              /\ \A a, w : Has(q, a, w) => Has(p, a, w)
<1>1. /\ Has(q \o r, Len(q), r) /\ Len(q \o r) = Len(q) + Len(r)
      /\ q \o r \in Seq(Byte)
  BY HasNew
<1>2. \A a, w : Has(q, a, w) => Has(q \o r, a, w)
  BY HasOn
<1> QED BY <1>1, <1>2, Zenon

LEMMA HasBehind ==
  ASSUME NEW h \in Seq(Byte), NEW q, NEW a, NEW r, Has(q, a, r)
  PROVE  Has(h \o q, Len(h) + a, r)
<1>1. /\ q \in Seq(Byte) /\ r \in Seq(Byte) /\ a \in Nat /\ a + Len(r) <= Len(q)
      /\ SubSeq(q, a + 1, a + Len(r)) = r
  BY DEF Has
<1>2. PICK n \in Nat, k \in Nat, z \in Nat : n = Len(r) /\ k = Len(h) /\ z = Len(q)
  <2>1. Len(r) \in Nat /\ Len(h) \in Nat /\ Len(q) \in Nat
    BY <1>1
  <2> QED BY <2>1, Zenon
<1>3. PICK p \in Seq(Byte) : /\ p = h \o q /\ Len(p) = k + z
                             /\ \A i \in 1 .. z : p[k + i] = q[i]
  <2>1. /\ h \o q \in Seq(Byte) /\ Len(h \o q) = Len(h) + Len(q)
        /\ \A i \in 1 .. Len(q) : (h \o q)[Len(h) + i] = q[i]
    BY <1>1, Joined, Zenon
  <2> QED BY <1>2, <2>1, Zenon
<1>4. /\ SubSeq(q, a + 1, a + n) \in Seq(Byte)
      /\ \A i \in 1 .. n : SubSeq(q, a + 1, a + n)[i] = q[a + i]
  <2>1. PICK b \in Nat : b = a + n /\ a <= b /\ b - a = n /\ b <= Len(q)
    BY <1>1, <1>2
  <2> QED BY <1>1, <2>1, Part
<1>5. /\ SubSeq(p, (k + a) + 1, (k + a) + n) \in Seq(Byte)
      /\ Len(SubSeq(p, (k + a) + 1, (k + a) + n)) = n
      /\ \A i \in 1 .. n : SubSeq(p, (k + a) + 1, (k + a) + n)[i] = p[(k + a) + i]
  <2>1. PICK g \in Nat : g = k + a
    BY <1>1
  <2>2. /\ g + n \in Nat /\ g <= g + n /\ (g + n) - g = n
        /\ g + n <= Len(p)
    BY <1>1, <1>2, <1>3, <2>1
  <2>3. PICK b \in Nat : b = g + n /\ g <= b /\ b - g = n /\ b <= Len(p)
    BY <2>2, Zenon
  <2>4. /\ SubSeq(p, g + 1, b) \in Seq(Byte) /\ Len(SubSeq(p, g + 1, b)) = b - g
        /\ \A i \in 1 .. b - g : SubSeq(p, g + 1, b)[i] = p[g + i]
    BY <2>3, Part
  <2> QED BY <2>1, <2>3, <2>4, Zenon
<1>6. ASSUME NEW i \in 1 .. n
      PROVE  SubSeq(p, (k + a) + 1, (k + a) + n)[i] = r[i]
  <2>1. a + i \in 1 .. z /\ (k + a) + i = k + (a + i)
    BY <1>1, <1>2
  <2>2. p[k + (a + i)] = q[a + i]
    BY <1>3, <2>1
  <2>3. r[i] = q[a + i]
    BY <1>1, <1>2, <1>4
  <2> QED BY <1>5, <2>1, <2>2, <2>3
<1>7. SubSeq(p, (k + a) + 1, (k + a) + n) = r
  BY <1>1, <1>2, <1>5, <1>6, SameSequence
<1>8. k + a \in Nat /\ (k + a) + n <= Len(p)
  BY <1>1, <1>2, <1>3
<1> QED BY <1>1, <1>2, <1>3, <1>7, <1>8 DEF Has

LEMMA RouteRead ==
  ASSUME NEW o \in Route, RouteFits(o)
  PROVE  /\ RouteBytes(o) \in Seq(Byte) /\ Len(RouteBytes(o)) >= 10
         /\ LoadRoute(RouteBytes(o))
              = [pos |-> Len(RouteBytes(o)), count |-> 0, ok |-> TRUE, obj |-> o]
<1>1. PICK c \in Seq(Byte), s \in Seq(Byte), l \in Seq(Byte), n \in Seq(Byte),
           p \in Seq(Byte), y \in Seq(Byte) :
        /\ c = o.commandId /\ Len(c) = 2 /\ s = o.sequenceNo /\ Len(s) = 4
        /\ l = o.linkType /\ Len(l) = 1 /\ n = o.serverNo /\ Len(n) = 2
        /\ p = o.platform /\ y = o.payload
  <2>1. \A k \in Nat : \A x \in [1 .. k -> Byte] : x \in Seq(Byte) /\ Len(x) = k
    OBVIOUS
  <2> QED BY <2>1 DEF Route
<1>2. o = [commandId |-> c, sequenceNo |-> s, linkType |-> l, serverNo |-> n,
           platform |-> p, payload |-> y]
  BY <1>1 DEF Route
<1>3. PICK z \in Byte : z = Len(p)
  BY <1>1, ByteBaseAssumption DEF RouteFits, Byte
<1>4. <<z>> \in Seq(Byte) /\ Len(<<z>>) = 1 /\ <<z>>[1] = z /\ z \in Nat
  BY DEF Byte
<1>5. PICK a \in Seq(Byte) :
        /\ a = c \o s /\ Len(a) = 6 /\ Has(a, 0, c) /\ Has(a, 2, s)
  <2>1. PICK w \in Seq(Byte) : /\ w = c \o s /\ Len(w) = Len(c) + Len(s)
                               /\ Has(w, Len(c), s)
                               /\ \A x, v : Has(c, x, v) => Has(w, x, v)
    BY HasJoined
  <2>2. Has(c, 0, c)
    BY <1>1 DEF Has
  <2>3. Len(w) = 6
    BY <1>1, <2>1
  <2> QED BY <1>1, <2>1, <2>2, <2>3, Zenon
<1>6. PICK b \in Seq(Byte) :
        /\ b = a \o l /\ Len(b) = 7 /\ Has(b, 0, c) /\ Has(b, 2, s) /\ Has(b, 6, l)
  <2>1. PICK w \in Seq(Byte) : /\ w = a \o l /\ Len(w) = Len(a) + Len(l)
                               /\ Has(w, Len(a), l)
                               /\ \A x, v : Has(a, x, v) => Has(w, x, v)
    BY HasJoined
  <2>3. Len(w) = 7
    BY <1>1, <1>5, <2>1
  <2> QED BY <1>5, <2>1, <2>3, Zenon
<1>7. PICK d \in Seq(Byte) :
        /\ d = b \o n /\ Len(d) = 9 /\ Has(d, 0, c) /\ Has(d, 2, s) /\ Has(d, 6, l)
        /\ Has(d, 7, n)
  <2>1. PICK w \in Seq(Byte) : /\ w = b \o n /\ Len(w) = Len(b) + Len(n)
                               /\ Has(w, Len(b), n)
                               /\ \A x, v : Has(b, x, v) => Has(w, x, v)
    BY HasJoined
  <2>3. Len(w) = 9
    BY <1>1, <1>6, <2>1
  <2> QED BY <1>6, <2>1, <2>3, Zenon
<1>8. PICK e \in Seq(Byte) :
        /\ e = d \o <<z>> /\ Len(e) = 10 /\ Has(e, 0, c) /\ Has(e, 2, s)
        /\ Has(e, 6, l) /\ Has(e, 7, n) /\ Has(e, 9, <<z>>)
  <2>1. PICK w \in Seq(Byte) : /\ w = d \o <<z>> /\ Len(w) = Len(d) + Len(<<z>>)
                               /\ Has(w, Len(d), <<z>>)
                               /\ \A x, v : Has(d, x, v) => Has(w, x, v)
    BY <1>4, HasJoined
  <2>3. Len(w) = 10
    BY <1>4, <1>7, <2>1
  <2> QED BY <1>7, <2>1, <2>3, Zenon
<1>9. PICK f \in Seq(Byte) :
        /\ f = e \o p /\ Len(f) = 10 + z /\ Has(f, 0, c) /\ Has(f, 2, s)
        /\ Has(f, 6, l) /\ Has(f, 7, n) /\ Has(f, 9, <<z>>) /\ Has(f, 10, p)
  <2>1. PICK w \in Seq(Byte) : /\ w = e \o p /\ Len(w) = Len(e) + Len(p)
                               /\ Has(w, Len(e), p)
                               /\ \A x, v : Has(e, x, v) => Has(w, x, v)
    BY HasJoined
  <2>3. Len(w) = 10 + z
    BY <1>3, <1>8, <2>1
  <2> QED BY <1>8, <2>1, <2>3, Zenon
<1>10. PICK q \in Seq(Byte) :
        /\ q = f \o y /\ Len(q) = (10 + z) + Len(y) /\ Has(q, 0, c) /\ Has(q, 2, s)
        /\ Has(q, 6, l) /\ Has(q, 7, n) /\ Has(q, 9, <<z>>) /\ Has(q, 10, p)
        /\ Has(q, 10 + z, y)
  <2>1. PICK w \in Seq(Byte) : /\ w = f \o y /\ Len(w) = Len(f) + Len(y)
                               /\ Has(w, Len(f), y)
                               /\ \A x, v : Has(f, x, v) => Has(w, x, v)
    BY HasJoined
  <2> QED BY <1>9, <2>1
<1>11. q = RouteBytes(o)
  <2>1. RouteBytes(o) = (((((c \o s) \o l) \o n) \o <<z>>) \o p) \o y
    BY <1>1, <1>3, Zenon DEF RouteBytes, HeaderBytes
  <2> QED BY <1>5, <1>6, <1>7, <1>8, <1>9, <1>10, <2>1, Zenon
<1>12. q[10] = z
  <2>1. SubSeq(q, 9 + 1, 9 + 1) = <<z>> /\ 9 + 1 = 10
    BY <1>4, <1>10 DEF Has
  <2>2. SubSeq(q, 9 + 1, 10)[1] = q[9 + 1]
    <3>1. 9 \in Nat /\ 10 \in Nat /\ 9 <= 10 /\ 10 <= Len(q) /\ 1 \in 1 .. 10 - 9
      BY <1>4, <1>10
    <3> QED BY <3>1, Part
  <2> QED BY <1>4, <2>1, <2>2, Zenon
<1>13. /\ SubSeq(q, 1, 2) = c /\ SubSeq(q, 3, 6) = s /\ SubSeq(q, 7, 7) = l
       /\ SubSeq(q, 8, 9) = n
  <2>1. /\ SubSeq(q, 0 + 1, 0 + Len(c)) = c /\ SubSeq(q, 2 + 1, 2 + Len(s)) = s
        /\ SubSeq(q, 6 + 1, 6 + Len(l)) = l /\ SubSeq(q, 7 + 1, 7 + Len(n)) = n
    BY <1>10 DEF Has
  <2>2. /\ 0 + 1 = 1 /\ 0 + Len(c) = 2 /\ 2 + 1 = 3 /\ 2 + Len(s) = 6
        /\ 6 + 1 = 7 /\ 6 + Len(l) = 7 /\ 7 + 1 = 8 /\ 7 + Len(n) = 9
    BY <1>1
  <2> QED BY <2>1, <2>2, Zenon
<1>14. /\ SubSeq(q, 11, 10 + z) = p /\ SubSeq(q, 11 + z, Len(q)) = y
  <2>1. SubSeq(q, 10 + 1, 10 + z) = p
    BY <1>3, <1>10 DEF Has
  <2>2. SubSeq(q, (10 + z) + 1, (10 + z) + Len(y)) = y
    BY <1>10 DEF Has
  <2>3. 10 + 1 = 11 /\ (10 + z) + 1 = 11 + z
    BY <1>4
  <2> QED BY <1>10, <2>1, <2>2, <2>3
<1>15. ~(Len(q) < 10) /\ ~(Len(q) - 10 < z) /\ Len(q) >= 10
  <2>1. Len(y) \in Nat /\ Len(q) = (10 + z) + Len(y) /\ z \in Nat
    BY <1>4, <1>10
  <2> QED BY <2>1
<1>16. LoadRoute(q)
         = [pos |-> Len(q), count |-> 0, ok |-> TRUE,
            obj |-> [commandId |-> c, sequenceNo |-> s, linkType |-> l, serverNo |-> n,
                     platform |-> p, payload |-> y]]
  BY <1>12, <1>13, <1>14, <1>15, Zenon DEF LoadRoute
<1> QED BY <1>2, <1>11, <1>15, <1>16, Zenon

\* The members of a bulk message, two bytes each.
LEMMA MembersBytes ==
  ASSUME NEW n \in Nat, NEW ms, ms \in [1 .. n -> Seq(Byte)], Len(ms) = n,
         \A i \in 1 .. n : Len(ms[i]) = 2
  PROVE  /\ FlattenSeq(ms) \in Seq(Byte) /\ Len(FlattenSeq(ms)) = 2 * n
         /\ \A j \in 1 .. n : Has(FlattenSeq(ms), 2 * (j - 1), ms[j])
<1>1. PICK joined : Joins(ms, n, joined) /\ FlattenSeq(ms) = joined[n]
  <2>1. \E joined : Joins(ms, n, joined) /\ FlattenSeq(ms) = joined[n]
    BY Flattened
  <2> QED BY <2>1
<1>2. /\ joined \in [0 .. n -> Seq(Byte)] /\ joined[0] = <<>>
      /\ \A i \in 1 .. n : joined[i] = joined[i - 1] \o ms[i]
  BY <1>1 DEF Joins
<1> DEFINE P == {i \in 0 .. n : /\ Len(joined[i]) = 2 * i
                                /\ \A j \in 1 .. i : Has(joined[i], 2 * (j - 1), ms[j])}
<1>3. 0 \in P
  BY <1>2
<1>4. ASSUME NEW i \in 1 .. n, i - 1 \in P PROVE i \in P
  <2>1. i - 1 \in 0 .. n /\ i \in 0 .. n
    OBVIOUS
  <2>2. PICK q \in Seq(Byte), r \in Seq(Byte) : q = joined[i - 1] /\ r = ms[i]
    BY <1>2, <2>1
  <2>3. PICK w \in Seq(Byte) : /\ w = q \o r /\ Len(w) = Len(q) + Len(r)
                               /\ Has(w, Len(q), r)
                               /\ \A a, v : Has(q, a, v) => Has(w, a, v)
    BY HasJoined
  <2>4. Len(q) = 2 * (i - 1) /\ \A j \in 1 .. i - 1 : Has(q, 2 * (j - 1), ms[j])
    BY <1>4, <2>2
  <2>5. joined[i] = w
    BY <1>2, <2>2, <2>3
  <2>6. Len(w) = 2 * i
    <3>1. Len(r) = 2
      BY <2>2
    <3> QED BY <2>3, <2>4, <3>1
  <2>7. ASSUME NEW j \in 1 .. i
        PROVE  Has(w, 2 * (j - 1), ms[j])
    <3>1. CASE j = i
      BY <2>2, <2>3, <2>4, <3>1, Zenon
    <3>2. CASE j # i
      <4>1. j \in 1 .. i - 1
        BY <3>2
      <4> QED BY <2>3, <2>4, <4>1
    <3> QED BY <3>1, <3>2
  <2> QED BY <2>1, <2>5, <2>6, <2>7
<1>5. 0 .. n \subseteq P
  <2> HIDE DEF P
  <2> QED BY <1>3, <1>4, Climbing
<1>6. n \in P
  <2>1. n \in 0 .. n
    OBVIOUS
  <2> HIDE DEF P
  <2> QED BY <1>5, <2>1
<1>7. joined[n] \in Seq(Byte)
  <2>1. n \in 0 .. n
    OBVIOUS
  <2> QED BY <1>2, <2>1
<1> QED BY <1>1, <1>6, <1>7, Zenon

LEMMA FixedLength ==
  ASSUME NEW k \in Nat, NEW x \in [1 .. k -> Byte]
  PROVE  x \in Seq(Byte) /\ Len(x) = k
OBVIOUS

LEMMA BulkRead ==
  ASSUME NEW o \in Bulk, Len(o.members) <= NoLength, o.members # <<>>
  PROVE  /\ BulkBytes(o) \in Seq(Byte) /\ Len(BulkBytes(o)) >= 3
         /\ LoadBulk(BulkBytes(o))
              = [pos |-> Len(BulkBytes(o)), count |-> 0, ok |-> TRUE, obj |-> o]
<1>1. PICK t \in Byte, ms \in Seq([1 .. 2 -> Byte]), y \in Seq(Byte) :
        t = o.memberType /\ ms = o.members /\ y = o.payload
  BY DEF Bulk
<1>2. o = [memberType |-> t, members |-> ms, payload |-> y]
  BY <1>1 DEF Bulk
<1>3. PICK n \in Nat \ {0} : n = Len(ms) /\ n \in 0 .. NoLength
  <2>1. Len(ms) \in Nat /\ Len(ms) # 0 /\ Len(ms) <= NoLength
    BY <1>1
  <2> QED BY <2>1, LengthsFit
<1>4. /\ ms \in [1 .. n -> Seq(Byte)] /\ \A i \in 1 .. n : Len(ms[i]) = 2
      /\ ms = [i \in 1 .. n |-> ms[i]] /\ Len(ms) = n
  <2>1. \A x \in [1 .. 2 -> Byte] : x \in Seq(Byte) /\ Len(x) = 2
    <3>1. 2 \in Nat
      OBVIOUS
    <3> QED BY <3>1, FixedLength
  <2>2. \A i \in 1 .. n : ms[i] \in [1 .. 2 -> Byte]
    BY <1>3
  <2>3. ms = [i \in 1 .. n |-> ms[i]]
    BY <1>3
  <2> QED BY <1>3, <2>1, <2>2, <2>3
<1>5. PICK f \in Seq(Byte) : /\ f = FlattenSeq(ms) /\ Len(f) = 2 * n
                             /\ \A j \in 1 .. n : Has(f, 2 * (j - 1), ms[j])
  <2>1. /\ FlattenSeq(ms) \in Seq(Byte) /\ Len(FlattenSeq(ms)) = 2 * n
        /\ \A j \in 1 .. n : Has(FlattenSeq(ms), 2 * (j - 1), ms[j])
    BY <1>4, MembersBytes
  <2> QED BY <2>1, Zenon
<1>6. PICK b \in Seq(Byte) : b = TwoBytes(n) /\ Len(b) = 2 /\ Number(b) = n
  BY <1>3, TwoBytesNumber
<1>7. <<t>> \in Seq(Byte) /\ Len(<<t>>) = 1 /\ <<t>>[1] = t
  OBVIOUS
<1>8. PICK h \in Seq(Byte) : h = <<t>> \o b /\ Len(h) = 3 /\ Has(h, 0, <<t>>) /\ Has(h, 1, b)
  <2>1. PICK w \in Seq(Byte) : /\ w = <<t>> \o b /\ Len(w) = Len(<<t>>) + Len(b)
                               /\ Has(w, Len(<<t>>), b)
                               /\ \A a, v : Has(<<t>>, a, v) => Has(w, a, v)
    BY <1>7, HasJoined
  <2>2. Has(<<t>>, 0, <<t>>)
    <3>1. PICK z \in Seq(Byte) : z = <<t>> /\ Len(z) = 1
      BY <1>7
    <3>2. SubSeq(z, 1, Len(z)) = z
      BY SubSeqFull
    <3>3. 0 + 1 = 1 /\ 0 + Len(z) = Len(z) /\ 0 + Len(z) <= Len(z) /\ 0 \in Nat
      BY <3>1
    <3>4. Has(z, 0, z)
      BY <3>2, <3>3, Zenon DEF Has
    <3> QED BY <3>1, <3>4
  <2>3. Len(w) = 3
    BY <1>6, <1>7, <2>1
  <2> QED BY <1>7, <2>1, <2>2, <2>3, Zenon
<1>9. PICK g \in Seq(Byte) :
        /\ g = h \o f /\ Len(g) = 3 + 2 * n /\ Has(g, 0, <<t>>) /\ Has(g, 1, b)
        /\ \A j \in 1 .. n : Has(g, 3 + 2 * (j - 1), ms[j])
  <2>1. PICK w \in Seq(Byte) : /\ w = h \o f /\ Len(w) = Len(h) + Len(f)
                               /\ Has(w, Len(h), f)
                               /\ \A a, v : Has(h, a, v) => Has(w, a, v)
    BY HasJoined
  <2>2. Len(w) = 3 + 2 * n
    BY <1>5, <1>8, <2>1
  <2>3. ASSUME NEW j \in 1 .. n
        PROVE  Has(h \o f, Len(h) + 2 * (j - 1), ms[j])
    BY <1>5, HasBehind
  <2> QED BY <1>8, <2>1, <2>2, <2>3, Zenon
<1>10. PICK q \in Seq(Byte) :
        /\ q = g \o y /\ Len(q) = (3 + 2 * n) + Len(y) /\ Has(q, 0, <<t>>) /\ Has(q, 1, b)
        /\ (\A j \in 1 .. n : Has(q, 3 + 2 * (j - 1), ms[j])) /\ Has(q, 3 + 2 * n, y)
  <2>1. PICK w \in Seq(Byte) : /\ w = g \o y /\ Len(w) = Len(g) + Len(y)
                               /\ Has(w, Len(g), y)
                               /\ \A a, v : Has(g, a, v) => Has(w, a, v)
    BY HasJoined
  <2> QED BY <1>9, <2>1, Zenon
<1>11. q = BulkBytes(o)
  <2>1. BulkBytes(o) = ((<<t>> \o b) \o f) \o y
    BY <1>1, <1>3, <1>5, <1>6, Zenon DEF BulkBytes
  <2> QED BY <1>8, <1>9, <1>10, <2>1, Zenon
<1>12. q[1] = t
  <2>1. SubSeq(q, 0 + 1, 0 + 1) = <<t>> /\ 0 + 1 = 1
    BY <1>7, <1>10 DEF Has
  <2>2. SubSeq(q, 0 + 1, 1)[1] = q[0 + 1]
    <3>1. 0 \in Nat /\ 1 \in Nat /\ 0 <= 1 /\ 1 <= Len(q) /\ 1 \in 1 .. 1 - 0
      BY <1>10
    <3> QED BY <3>1, Part
  <2> QED BY <1>7, <2>1, <2>2, Zenon
<1>13. Number(SubSeq(q, 2, 3)) = n
  <2>1. SubSeq(q, 1 + 1, 1 + Len(b)) = b
    BY <1>10 DEF Has
  <2>2. 1 + 1 = 2 /\ 1 + Len(b) = 3
    BY <1>6
  <2> QED BY <1>6, <2>1, <2>2, Zenon
<1>14. ASSUME NEW i \in 1 .. n
       PROVE  SubSeq(q, 2 + 2 * i, 3 + 2 * i) = ms[i]
  <2>1. SubSeq(q, (3 + 2 * (i - 1)) + 1, (3 + 2 * (i - 1)) + Len(ms[i])) = ms[i]
    BY <1>10 DEF Has
  <2>2. (3 + 2 * (i - 1)) + 1 = 2 + 2 * i /\ (3 + 2 * (i - 1)) + 2 = 3 + 2 * i
    OBVIOUS
  <2> QED BY <1>4, <2>1, <2>2, Zenon
<1>15. [i \in 1 .. n |-> SubSeq(q, 2 + 2 * i, 3 + 2 * i)] = ms
  BY <1>4, <1>14, Zenon
<1>16. SubSeq(q, (3 + 2 * n) + 1, Len(q)) = y
  BY <1>10, Zenon DEF Has
<1>17. Len(q) >= 3 /\ ~(Len(q) < 3) /\ n # 0 /\ ~(3 + 2 * n > Len(q))
  <2>1. Len(y) \in Nat /\ Len(q) = (3 + 2 * n) + Len(y)
    BY <1>10
  <2> QED BY <2>1
<1>18. LoadBulk(q)
         = [pos |-> Len(q), count |-> 0, ok |-> TRUE,
            obj |-> [memberType |-> t, members |-> ms, payload |-> y]]
  BY <1>12, <1>13, <1>15, <1>16, <1>17, Zenon DEF LoadBulk
<1> QED BY <1>2, <1>11, <1>17, <1>18, Zenon
--------------------------------------------------------------------------------
(* A message on its way.                                                   *)

\* What is known of the message in each of its phases.
FilledAgrees ==
  phase \in {"filled", "sent", "arrived", "read"} =>
    /\ class \in Classes \cup {"BulkManyMessage", "Transitroute"}
    /\ given \in Inputs(class)
    /\ object = IF IsFormatted(class) THEN Filled(class, given) ELSE given
WireAgrees ==
  phase \in {"sent", "arrived", "read"} =>
    wire = Bytes(class, object) /\ (class = "Transitroute" => RouteFits(object))
MemoryAgrees ==
  phase \in {"arrived", "read"} =>
    \E n \in 0 .. Len(wire), b \in Beyond :
      memory = [bytes |-> SubSeq(wire, 1, n), beyond |-> b]
ReadAgrees == phase = "read" => got = Read(class, memory)
MessageIInv == FilledAgrees /\ WireAgrees /\ MemoryAgrees /\ ReadAgrees

LEMMA MessageStarts == WireInit => MessageIInv
BY DEF WireInit, MessageInit, NoMessage, MessageIInv, FilledAgrees, WireAgrees,
       MemoryAgrees, ReadAgrees

LEMMA FillStep == MessageIInv /\ Fill => MessageIInv'
<1> SUFFICES ASSUME Fill PROVE MessageIInv'
  OBVIOUS
<1>1. phase' = "filled"
  BY DEF Fill
<1>2. PICK c \in Classes \cup {"BulkManyMessage", "Transitroute"} : \E v \in Inputs(c) :
        /\ class' = c /\ given' = v
        /\ object' = IF IsFormatted(c) THEN Filled(c, v) ELSE v
  BY DEF Fill
<1>3. FilledAgrees'
  BY <1>1, <1>2 DEF FilledAgrees
<1>4. WireAgrees' /\ MemoryAgrees' /\ ReadAgrees'
  BY <1>1 DEF WireAgrees, MemoryAgrees, ReadAgrees
<1> QED BY <1>3, <1>4 DEF MessageIInv

LEMMA SendStep == MessageIInv /\ (Send \/ NotSent) => MessageIInv'
<1> SUFFICES ASSUME MessageIInv, Send \/ NotSent PROVE MessageIInv'
  OBVIOUS
<1>1. CASE Send
  <2>1. /\ phase = "filled" /\ phase' = "sent" /\ wire' = Bytes(class, object)
        /\ class = "Transitroute" => RouteFits(object)
        /\ class' = class /\ given' = given /\ object' = object
    BY <1>1 DEF Send
  <2>2. FilledAgrees'
    BY <2>1 DEF MessageIInv, FilledAgrees
  <2>3. WireAgrees'
    BY <2>1, Zenon DEF WireAgrees
  <2>4. MemoryAgrees' /\ ReadAgrees'
    BY <2>1 DEF MemoryAgrees, ReadAgrees
  <2> QED BY <2>2, <2>3, <2>4 DEF MessageIInv
<1>2. CASE NotSent
  <2>1. phase' = "new"
    BY <1>2 DEF NotSent
  <2> QED BY <2>1 DEF MessageIInv, FilledAgrees, WireAgrees, MemoryAgrees, ReadAgrees
<1> QED BY <1>1, <1>2

LEMMA ArriveStep == MessageIInv /\ (Arrive \/ Receive) => MessageIInv'
<1> SUFFICES ASSUME MessageIInv, Arrive \/ Receive PROVE MessageIInv'
  OBVIOUS
<1>1. CASE Arrive
  <2>1. /\ phase = "sent" /\ phase' = "arrived" /\ wire' = wire
        /\ class' = class /\ given' = given /\ object' = object
    BY <1>1 DEF Arrive
  <2>2. \E n \in 0 .. Len(wire), b \in Beyond :
          memory' = [bytes |-> SubSeq(wire, 1, n), beyond |-> b]
    BY <1>1 DEF Arrive
  <2>3. FilledAgrees'
    BY <2>1 DEF MessageIInv, FilledAgrees
  <2>4. WireAgrees'
    <3>1. wire = Bytes(class, object) /\ (class = "Transitroute" => RouteFits(object))
      BY <2>1 DEF MessageIInv, WireAgrees
    <3> QED BY <2>1, <3>1, Zenon DEF WireAgrees
  <2>5. MemoryAgrees' /\ ReadAgrees'
    BY <2>1, <2>2 DEF MemoryAgrees, ReadAgrees
  <2> QED BY <2>3, <2>4, <2>5 DEF MessageIInv
<1>2. CASE Receive
  <2>1. /\ phase = "arrived" /\ phase' = "read" /\ wire' = wire /\ memory' = memory
        /\ class' = class /\ given' = given /\ object' = object
        /\ got' = Read(class, memory)
    BY <1>2 DEF Receive
  <2>2. FilledAgrees'
    BY <2>1 DEF MessageIInv, FilledAgrees
  <2>3. WireAgrees'
    <3>1. wire = Bytes(class, object) /\ (class = "Transitroute" => RouteFits(object))
      BY <2>1 DEF MessageIInv, WireAgrees
    <3> QED BY <2>1, <3>1, Zenon DEF WireAgrees
  <2>4. MemoryAgrees'
    BY <2>1 DEF MessageIInv, MemoryAgrees
  <2>5. ReadAgrees'
    BY <2>1, Zenon DEF ReadAgrees
  <2> QED BY <2>2, <2>3, <2>4, <2>5 DEF MessageIInv
<1> QED BY <1>1, <1>2

LEMMA MessageInvariance == WireSpec => []MessageIInv
<1>1. MessageIInv /\ [WireNext]_<<messageVars, streamVars>> => MessageIInv'
  <2> SUFFICES ASSUME MessageIInv, [WireNext]_<<messageVars, streamVars>>
               PROVE MessageIInv'
    OBVIOUS
  <2>1. CASE MessageNext
    BY <2>1, FillStep, SendStep, ArriveStep DEF MessageNext
  <2>2. CASE UNCHANGED messageVars
    BY <2>2 DEF messageVars, MessageIInv, FilledAgrees, WireAgrees, MemoryAgrees,
                ReadAgrees
  <2> QED BY <2>1, <2>2 DEF WireNext
<1> QED BY <1>1, MessageStarts, PTL DEF WireSpec

\* What arrived of a message, and what was made of it.
LEMMA Arrived ==
  ASSUME MessageIInv, phase = "read", NEW q \in Seq(Byte), q = wire
  PROVE  /\ memory \in Memories /\ Agrees(memory, 0, q) /\ Len(memory.bytes) <= Len(q)
         /\ Whole => memory.bytes = q
         /\ got = Read(class, memory) /\ wire = Bytes(class, object)
         /\ class = "Transitroute" => RouteFits(object)
         /\ class \in Classes \cup {"BulkManyMessage", "Transitroute"}
         /\ given \in Inputs(class)
         /\ object = IF IsFormatted(class) THEN Filled(class, given) ELSE given
<1>1. PICK n \in 0 .. Len(q), b \in Beyond :
        memory = [bytes |-> SubSeq(q, 1, n), beyond |-> b]
  BY DEF MessageIInv, MemoryAgrees
<1>2. /\ SubSeq(q, 1, n) \in Seq(Byte) /\ Len(SubSeq(q, 1, n)) = n
      /\ \A i \in 1 .. n : SubSeq(q, 1, n)[i] = q[i]
  OBVIOUS
<1>3. PICK w \in Seq(Byte) : /\ w = SubSeq(q, 1, n) /\ Len(w) = n
                             /\ \A i \in 1 .. n : w[i] = q[i]
  BY <1>2, Zenon
<1>4. memory.bytes = w /\ memory.beyond = b /\ memory = [bytes |-> w, beyond |-> b]
  BY <1>1, <1>3
<1>5. memory \in Memories
  BY <1>4, BeyondAssumption DEF Memories
<1>6. Agrees(memory, 0, q)
  BY <1>3, <1>4 DEF Agrees
<1>7. Len(memory.bytes) <= Len(q)
  BY <1>3, <1>4
<1>8. Whole => memory.bytes = q
  <2> SUFFICES ASSUME Whole PROVE w = q
    BY <1>4
  <2>1. Len(w) = Len(q)
    BY <1>4 DEF Whole
  <2> QED BY <1>3, <2>1, SameSequence
<1>9. got = Read(class, memory)
  BY DEF MessageIInv, ReadAgrees
<1>10. wire = Bytes(class, object) /\ (class = "Transitroute" => RouteFits(object))
  BY DEF MessageIInv, WireAgrees
<1>11. /\ class \in Classes \cup {"BulkManyMessage", "Transitroute"}
       /\ given \in Inputs(class)
       /\ object = IF IsFormatted(class) THEN Filled(class, given) ELSE given
  BY DEF MessageIInv, FilledAgrees
<1> QED BY <1>5, <1>6, <1>7, <1>8, <1>9, <1>10, <1>11

\* The two messages that lay out their bytes themselves are of no class.
LEMMA NoClasses == "BulkManyMessage" \notin Classes /\ "Transitroute" \notin Classes
BY DEF Classes, Written

\* A message of a class that arrives whole.
LEMMA ClassTrip ==
  ASSUME MessageIInv, phase = "read", Whole, Fits, class \in Classes,
         class # "GenericDouble"
  PROVE  got.ok /\ got.obj = given /\ got.pos = Len(wire)
<1>1. Highest(class)
  <2>1. Lowest(class) \/ Middle(class) \/ Highest(class)
    BY Levels
  <2> QED BY <2>1, LevelsUp
<1>2. given \in Inputs(class) /\ object = Filled(class, given)
  BY DEF MessageIInv, FilledAgrees, IsFormatted
<1>3. ClassObject(class, given)
  BY <1>2, InputsAssumption
<1>4. Filled(class, given) = given /\ Well(class, given)
  <2>1. \A n \in FieldNames(class) : FieldFits(Field(class, n), given[n])
    BY DEF Fits, IsFormatted
  <2> QED BY <1>1, <1>3, <2>1, MessageSame
<1>5. PICK q : q = Serialize(class, given)
  OBVIOUS
<1>6. wire = q
  <2>1. wire = Bytes(class, object)
    BY DEF MessageIInv, WireAgrees
  <2>2. Bytes(class, object) = Serialize(class, object)
    BY NoClasses, Zenon DEF Bytes, IsFormatted
  <2> QED BY <1>2, <1>4, <1>5, <2>1, <2>2, Zenon
<1>7. q \in Seq(Byte) /\ Len(q) >= 1
  <2>1. PICK w : w = [bytes |-> <<>>, beyond |-> 0]
    OBVIOUS
  <2>2. w \in Memories /\ 0 \in Nat /\ 0 \in Int
    BY <2>1, ByteBaseAssumption, EmptyOne DEF Memories, Byte
  <2> QED BY <1>1, <1>4, <1>5, <2>2, MessageRead
<1>8. PICK m \in Memories : /\ m = memory /\ Agrees(m, 0, q) /\ m.bytes = q
                            /\ got = Read(class, m)
  BY <1>6, <1>7, Arrived
<1>9. Read(class, m) = Deserialize(m, class, 0, Len(m.bytes))
  <2>1. Len(m.bytes) # 0 /\ Len(m.bytes) > 0
    BY <1>7, <1>8
  <2> QED BY <2>1, NoClasses, Zenon DEF Read, IsFormatted
<1>10. PICK k \in Nat : k = Len(q) /\ k = Len(m.bytes)
  BY <1>7, <1>8
<1>11. Done(Deserialize(m, class, 0, k), 0, k, k, given)
  <2>1. 0 \in Nat /\ k \in Int /\ k >= Len(q) /\ 0 + Len(q) <= Len(m.bytes)
    BY <1>10
  <2>2. Done(Deserialize(m, class, 0, k), 0, k, Len(q), given)
    BY <1>1, <1>4, <1>5, <1>8, <2>1, MessageRead
  <2> QED BY <1>10, <2>2, Zenon
<1>12. got = Deserialize(m, class, 0, k)
  BY <1>8, <1>9, <1>10, Zenon
<1>13. got.ok /\ got.obj = given /\ got.pos = 0 + k
  BY <1>11, <1>12 DEF Done
<1> QED BY <1>6, <1>10, <1>13

\* One of those two that arrives whole.
LEMMA BulkTrip ==
  ASSUME MessageIInv, phase = "read", Whole, class = "BulkManyMessage",
         given.members # <<>>
  PROVE  got.ok /\ got.obj = given /\ got.pos = Len(wire)
<1>1. given \in Inputs("BulkManyMessage") /\ object = given
  BY NoClasses DEF MessageIInv, FilledAgrees, IsFormatted
<1>2. given \in Bulk /\ Len(given.members) <= NoLength
  BY <1>1, InputsAssumption
<1>3. PICK q : q = BulkBytes(given)
  OBVIOUS
<1>4. /\ q \in Seq(Byte) /\ Len(q) >= 3
      /\ LoadBulk(q) = [pos |-> Len(q), count |-> 0, ok |-> TRUE, obj |-> given]
  BY <1>2, <1>3, BulkRead
<1>5. wire = q
  <2>1. wire = Bytes(class, object)
    BY DEF MessageIInv, WireAgrees
  <2> QED BY <1>1, <1>3, <2>1, NoClasses, Zenon DEF Bytes, IsFormatted
<1>6. memory.bytes = q /\ got = Read(class, memory)
  BY <1>4, <1>5, Arrived
<1>7. Read(class, memory) = LoadBulk(q)
  <2>1. Len(q) # 0 /\ Len(q) > 0
    BY <1>4
  <2> QED BY <1>6, <2>1, NoClasses, Zenon DEF Read, IsFormatted
<1>8. got = [pos |-> Len(q), count |-> 0, ok |-> TRUE, obj |-> given]
  BY <1>4, <1>6, <1>7, Zenon
<1> QED BY <1>5, <1>8

LEMMA RouteTrip ==
  ASSUME MessageIInv, phase = "read", Whole, class = "Transitroute"
  PROVE  got.ok /\ got.obj = given /\ got.pos = Len(wire)
<1>1. given \in Inputs("Transitroute") /\ object = given
  BY NoClasses DEF MessageIInv, FilledAgrees, IsFormatted
<1>2. given \in Route /\ RouteFits(given)
  BY <1>1, InputsAssumption DEF MessageIInv, WireAgrees
<1>3. PICK q : q = RouteBytes(given)
  OBVIOUS
<1>4. /\ q \in Seq(Byte) /\ Len(q) >= 10
      /\ LoadRoute(q) = [pos |-> Len(q), count |-> 0, ok |-> TRUE, obj |-> given]
  BY <1>2, <1>3, RouteRead
<1>5. wire = q
  <2>1. wire = Bytes(class, object)
    BY DEF MessageIInv, WireAgrees
  <2>2. class # "BulkManyMessage"
    OBVIOUS
  <2> QED BY <1>1, <1>3, <2>1, <2>2, NoClasses, Zenon DEF Bytes, IsFormatted
<1>6. memory.bytes = q /\ got = Read(class, memory)
  BY <1>4, <1>5, Arrived
<1>7. Read(class, memory) = LoadRoute(q)
  <2>1. Len(q) # 0 /\ class # "BulkManyMessage"
    BY <1>4
  <2> QED BY <1>6, <2>1, NoClasses, Zenon DEF Read, IsFormatted
<1>8. got = [pos |-> Len(q), count |-> 0, ok |-> TRUE, obj |-> given]
  BY <1>4, <1>6, <1>7, Zenon
<1> QED BY <1>5, <1>8

LEMMA CutTrip ==
  ASSUME MessageIInv, phase = "read", ~Whole, class \in Classes,
         class # "GenericDouble", ~HoldsMember(class)
  PROVE  ~got.ok /\ got.pos <= Len(memory.bytes)
<1>1. Lowest(class)
  BY Levels
<1>2. given \in Inputs(class) /\ object = Filled(class, given)
  BY DEF MessageIInv, FilledAgrees, IsFormatted
<1>3. ClassObject(class, given)
  BY <1>2, InputsAssumption
<1>4. PICK o : o = object /\ PlainWell(class, o)
  BY <1>1, <1>2, <1>3, LowestFilled
<1>5. PICK q : q = Serialize(class, o)
  OBVIOUS
<1>6. wire = q
  <2>1. wire = Bytes(class, object)
    BY DEF MessageIInv, WireAgrees
  <2> QED BY <1>4, <1>5, <2>1, NoClasses, Zenon DEF Bytes, IsFormatted
<1>7. q \in Seq(Byte)
  BY <1>1, <1>4, <1>5, LowestBytes
<1>8. PICK m \in Memories : /\ m = memory /\ Agrees(m, 0, q) /\ Len(m.bytes) <= Len(q)
                            /\ got = Read(class, m)
  BY <1>6, <1>7, Arrived
<1>9. Len(m.bytes) \in Nat /\ Len(q) \in Nat /\ Len(m.bytes) < Len(q)
  <2>1. Len(m.bytes) \in Nat /\ Len(q) \in Nat
    BY <1>7, <1>8 DEF Memories
  <2>2. Len(m.bytes) # Len(q)
    BY <1>6, <1>8 DEF Whole
  <2> QED BY <1>8, <2>1, <2>2
<1>10. CASE Len(m.bytes) = 0
  <2>1. got = Nothing
    <3>1. ~(Len(m.bytes) > 0)
      BY <1>10
    <3> QED BY <1>8, <1>10, <3>1, Zenon DEF Read
  <2>2. Nothing.pos = 0 /\ ~Nothing.ok
    BY DEF Nothing
  <2> QED BY <1>8, <1>10, <2>1, <2>2
<1>11. CASE Len(m.bytes) # 0
  <2>1. Len(m.bytes) >= 1 /\ Len(m.bytes) > 0
    BY <1>9, <1>11
  <2>2. got = Deserialize(m, class, 0, Len(m.bytes))
    BY <1>8, <1>11, <2>1, NoClasses, Zenon DEF Read, IsFormatted
  <2>3. /\ ~Deserialize(m, class, 0, Len(m.bytes)).ok
        /\ Deserialize(m, class, 0, Len(m.bytes)).pos <= Len(m.bytes)
    BY <1>1, <1>4, <1>5, <1>8, <1>9, <2>1, CutRead
  <2> QED BY <1>8, <2>2, <2>3, Zenon
<1> QED BY <1>10, <1>11

LEMMA WholeMessage == MessageIInv => WholeOrRefused
<1> SUFFICES ASSUME MessageIInv PROVE WholeOrRefused
  OBVIOUS
<1>1. RoundTrip
  <2> SUFFICES ASSUME phase = "read", Whole, Fits, class # "GenericDouble",
                      class = "BulkManyMessage" => given.members # <<>>
               PROVE  got.ok /\ got.obj = given /\ got.pos = Len(wire)
    BY DEF RoundTrip
  <2>1. class \in Classes \/ class = "BulkManyMessage" \/ class = "Transitroute"
    BY DEF MessageIInv, FilledAgrees
  <2> QED BY <2>1, ClassTrip, BulkTrip, RouteTrip
<1>2. CutRefused
  BY CutTrip DEF CutRefused, IsFormatted
<1> QED BY <1>1, <1>2 DEF WholeOrRefused

\* Of a message that arrives whole, the application at the other end reads what
\* was filled in, whatever it is, as long as the texts and the vectors fit their
\* lengths; a class of numbers and texts cut short is refused, and nothing
\* behind what arrived is read.
THEOREM MessagesWhole == WireSpec => []WholeOrRefused
<1>1. WireSpec => []MessageIInv
  BY MessageInvariance
<1> QED BY <1>1, WholeMessage, PTL
=============================================================================
