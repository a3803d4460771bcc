------------------------ MODULE XiYouSdkClientProofs ------------------------
(***************************************************************************)
(* Typing of the SDK client, one outcome for each call, and disposal for   *)
(* good, for every set of calls, number of retries, length of time and set *)
(* of faults.                                                              *)
(***************************************************************************)
EXTENDS XiYouSdkClient, TLAPS

\* A disposed client measures no silence, unless its times were set after it was
\* disposed.
Rested(l) == l.state = "CleanUp" => l.activity = Never \/ l.event = "gone"

Linked == link \in Link /\ Rested(link)

\* A call that has not been made is unknown to the service.
Tabled ==
  /\ calls \in [Calls -> Call] /\ asked \in [Calls -> Nat] /\ told \in [Calls -> Nat]
  /\ \A c \in Calls :
       /\ calls[c].tried <= RetryCount[c] /\ asked[c] <= calls[c].tried + 1
       /\ told[c] <= 1 /\ (told[c] = 1 => calls[c].status = "done")
       /\ calls[c].status = "new" => asked[c] = 0

Timed == swept \in 0..TimeoutInterval /\ pc \in {"table", "silence", "socket"}

IInv == Linked /\ Tabled /\ Timed

-----------------------------------------------------------------------------
(* Links.                                                                  *)

LEMMA Limits ==
  /\ CountLimit \in Nat \ {0}
  /\ 0 \in 0..CountLimit /\ CountLimit \in 0..CountLimit
  /\ 0 \in 0..MaxSilence /\ MaxSilence \in 0..MaxSilence
  /\ 0 \in 0..HeartbeatInterval /\ HeartbeatInterval \in 0..HeartbeatInterval
  /\ 0 \in 0..TimeoutInterval /\ TimeoutInterval \in 0..TimeoutInterval
  /\ 0 \in 0..CallTimeout /\ CallTimeout \in 0..CallTimeout
<1>1. \A n \in Nat : 0 \in 0..n /\ n \in 0..n
  OBVIOUS
<1>2. CountLimit \in Nat \ {0}
  BY SdkAssumption DEF CountLimit
<1>3. /\ MaxSilence \in Nat /\ HeartbeatInterval \in Nat /\ TimeoutInterval \in Nat
      /\ CallTimeout \in Nat /\ CountLimit \in Nat
  BY SdkAssumption, <1>2
<1> QED BY <1>1, <1>2, <1>3, Zenon

LEMMA ClosedLink ==
  ASSUME NEW l \in Link
  PROVE  Closed(l) \in Link /\ Closed(l).state = "Disconnect"
<1>1. CASE HasSocket(l)
  <2>1. Closed(l) = [l EXCEPT !.state = "Disconnect", !.counted = 0,
                       !.activity = Never, !.heartbeat = Never, !.event = "closed"]
    BY <1>1 DEF Closed
  <2> QED BY <2>1, Limits DEF Link
<1>2. CASE ~HasSocket(l)
  <2>1. Closed(l) = [l EXCEPT !.state = "Disconnect", !.counted = 0]
    BY <1>2 DEF Closed
  <2> QED BY <2>1, Limits DEF Link
<1> QED BY <1>1, <1>2

LEMMA ClosedTimes ==
  ASSUME NEW l \in Link
  PROVE  Closed(l).activity \in {l.activity, Never}
<1>1. l = [state |-> l.state, counted |-> l.counted, activity |-> l.activity,
           heartbeat |-> l.heartbeat, event |-> l.event]
  BY DEF Link
<1>2. CASE HasSocket(l)
  <2>1. Closed(l) = [l EXCEPT !.state = "Disconnect", !.counted = 0,
                       !.activity = Never, !.heartbeat = Never, !.event = "closed"]
    BY <1>2 DEF Closed
  <2> QED BY <1>1, <2>1
<1>3. CASE ~HasSocket(l)
  <2>1. Closed(l) = [l EXCEPT !.state = "Disconnect", !.counted = 0]
    BY <1>3 DEF Closed
  <2> QED BY <1>1, <2>1
<1> QED BY <1>2, <1>3

LEMMA CleanedUpLink ==
  ASSUME NEW l \in Link
  PROVE  /\ CleanedUp(l) \in Link
         /\ CleanedUp(l).state = "CleanUp" /\ CleanedUp(l).activity = Never
<1> DEFINE k == [l EXCEPT !.activity = Never, !.heartbeat = Never]
<1>1. k \in Link /\ k.activity = Never
  BY DEF Link
<1>2. CleanedUp(l) = [Closed(k) EXCEPT !.state = "CleanUp"]
  BY DEF CleanedUp
<1> HIDE DEF k
<1>3. Closed(k) \in Link /\ Closed(k).activity = Never
  BY <1>1, ClosedLink, ClosedTimes
<1> QED BY <1>2, <1>3 DEF Link

LEMMA LostLinks ==
  ASSUME NEW l \in Link, NEW k \in Lost(l)
  PROVE  k \in Link /\ Rested(k) /\ (k.state = "CleanUp" => k.activity = Never)
<1>1. Closed(l) \in Link /\ Closed(l).state = "Disconnect"
  BY ClosedLink
<1>2. /\ CleanedUp(Closed(l)) \in Link
      /\ CleanedUp(Closed(l)).state = "CleanUp" /\ CleanedUp(Closed(l)).activity = Never
  BY <1>1, CleanedUpLink
<1> QED BY <1>1, <1>2 DEF Lost, Rested

\* Opening a link leaves one that is typed and whose times rest if it is disposed.
LEMMA OpenedLinks ==
  ASSUME link \in Link
  PROVE  /\ \A l \in Opened : l \in Link /\ Rested(l)
         /\ Connecting(link) \in Link /\ Rested(Connecting(link))
         /\ FailedToOpen(link) \in Link /\ Rested(FailedToOpen(link))
<1>1. OpenedWell(link) \in Link /\ Rested(OpenedWell(link))
  BY Limits DEF OpenedWell, Link, Rested
<1>2. ASSUME NEW l \in OpenedLate(link) PROVE l \in Link /\ Rested(l)
  <2>1. PICK k \in Lost([link EXCEPT !.state = "Connected"]) : l = Late(k)
    BY <1>2 DEF OpenedLate
  <2>2. [link EXCEPT !.state = "Connected"] \in Link
    BY DEF Link
  <2>3. k \in Link
    BY <2>2, LostLinks
  <2>4. 0 \in 0..MaxSilence \cup {Never} /\ 0 \in 0..HeartbeatInterval \cup {Never}
    BY Limits
  <2> DEFINE e == IF k.state = "CleanUp" THEN "gone" ELSE "late"
  <2>5. l = [k EXCEPT !.activity = 0, !.heartbeat = 0, !.event = e]
    BY <2>1 DEF Late
  <2>6. e \in {"gone", "late"} /\ (k.state = "CleanUp" => e = "gone")
    OBVIOUS
  <2> HIDE DEF e
  <2> QED BY <2>3, <2>4, <2>5, <2>6 DEF Link, Rested
<1>3. Connecting(link) \in Link /\ Rested(Connecting(link))
  BY Limits DEF Connecting, Link, Rested
<1>4. FailedToOpen(link) \in Link /\ Rested(FailedToOpen(link))
  <2>1. [link EXCEPT !.state = "Default"] \in Link
    BY DEF Link
  <2> QED BY <2>1, ClosedLink DEF FailedToOpen, Rested
<1>5. \A l \in Opened : l = OpenedWell(link) \/ l \in OpenedLate(link)
  BY DEF Opened
<1> QED BY <1>1, <1>2, <1>3, <1>4, <1>5

LEMMA AgedTime ==
  ASSUME NEW limit \in Nat, NEW n \in 0..limit \cup {Never}
  PROVE  /\ Aged(n, limit) \in 0..limit \cup {Never}
         /\ n # Never => Aged(n, limit) \in 0..limit
         /\ n = Never => Aged(n, limit) = Never
BY DEF Aged, Never

-----------------------------------------------------------------------------
(* Steps.                                                                  *)

\* A step that leaves the calls alone may only lose what the service knows.
LEMMA CallsKept ==
  ASSUME Tabled, UNCHANGED <<calls, told>>,
         asked' \in [Calls -> Nat], \A c \in Calls : asked'[c] <= asked[c]
  PROVE  Tabled'
<1> SUFFICES ASSUME NEW c \in Calls
             PROVE  /\ asked'[c] <= calls[c].tried + 1
                    /\ calls[c].status = "new" => asked'[c] = 0
  BY DEF Tabled
<1>1. /\ asked'[c] \in Nat /\ asked[c] \in Nat /\ calls[c].tried \in Nat
      /\ asked'[c] <= asked[c] /\ asked[c] <= calls[c].tried + 1
      /\ calls[c].status = "new" => asked[c] = 0
  BY DEF Tabled, Call
<1> QED BY <1>1

LEMMA BecomesLink ==
  ASSUME NEW l \in Link, Rested(l), Tabled, Become(l)
  PROVE  /\ Linked'
         /\ asked' \in [Calls -> Nat] /\ \A c \in Calls : asked'[c] <= asked[c]
<1>1. Linked'
  BY DEF Become, Linked
<1>2. CASE l.state = "Connected"
  <2>1. asked' = asked
    BY <1>2 DEF Become
  <2>2. \A c \in Calls : asked[c] \in Nat
    BY DEF Tabled
  <2> QED BY <1>1, <2>1, <2>2 DEF Tabled
<1>3. CASE l.state # "Connected"
  <2>1. asked' = [c \in Calls |-> 0]
    BY <1>3 DEF Become
  <2>2. \A c \in Calls : asked[c] \in Nat
    BY DEF Tabled
  <2> QED BY <1>1, <2>1, <2>2
<1> QED BY <1>2, <1>3

\* Calls whose status changes from pending to done, or whose age changes.
LEMMA CallsMove ==
  ASSUME Tabled, UNCHANGED told,
         asked' \in [Calls -> Nat], \A c \in Calls : asked'[c] <= asked[c],
         DOMAIN calls' = Calls, calls' = [c \in Calls |-> calls'[c]],
         \A c \in Calls :
           \/ calls'[c] = calls[c]
           \/ /\ calls'[c] \in Call /\ calls'[c].tried = calls[c].tried
              /\ calls[c].status = "pending" /\ calls'[c].status \in {"pending", "done"}
  PROVE  Tabled'
<1>1. ASSUME NEW c \in Calls
      PROVE  /\ calls'[c] \in Call
             /\ calls'[c].tried <= RetryCount[c] /\ asked'[c] <= calls'[c].tried + 1
             /\ told[c] <= 1 /\ (told[c] = 1 => calls'[c].status = "done")
             /\ calls'[c].status = "new" => asked'[c] = 0
  <2>1. /\ calls[c] \in Call /\ asked[c] \in Nat /\ told[c] \in Nat
        /\ calls[c].tried <= RetryCount[c] /\ asked[c] <= calls[c].tried + 1
        /\ told[c] <= 1 /\ (told[c] = 1 => calls[c].status = "done")
        /\ calls[c].status = "new" => asked[c] = 0
        /\ asked'[c] \in Nat /\ calls[c].tried \in Nat /\ asked'[c] <= asked[c]
    BY DEF Tabled, Call
  <2>2. asked'[c] <= calls[c].tried + 1 /\ (calls[c].status = "new" => asked'[c] = 0)
    BY <2>1
  <2>3. CASE calls'[c] = calls[c]
    BY <2>1, <2>2, <2>3, Zenon
  <2>4. CASE /\ calls'[c] \in Call /\ calls'[c].tried = calls[c].tried
             /\ calls[c].status = "pending" /\ calls'[c].status \in {"pending", "done"}
    BY <2>1, <2>2, <2>4
  <2> QED BY <2>3, <2>4
<1>2. calls' \in [Calls -> Call]
  BY <1>1
<1> QED BY <1>1, <1>2 DEF Tabled

LEMMA DroppedCalls ==
  ASSUME Tabled
  PROVE  /\ DOMAIN Dropped = Calls /\ Dropped = [c \in Calls |-> Dropped[c]]
         /\ \A c \in Calls :
              \/ Dropped[c] = calls[c]
              \/ /\ Dropped[c] \in Call /\ Dropped[c].tried = calls[c].tried
                 /\ calls[c].status = "pending" /\ Dropped[c].status = "done"
<1>1. /\ DOMAIN Dropped = Calls
      /\ Dropped = [c \in Calls |-> Dropped[c]]
  BY DEF Dropped
<1>2. ASSUME NEW c \in Calls, Dropped[c] # calls[c]
      PROVE  /\ Dropped[c] \in Call /\ Dropped[c].tried = calls[c].tried
             /\ calls[c].status = "pending" /\ Dropped[c].status = "done"
  <2>1. calls[c] \in Call /\ calls[c].status = "pending"
    BY <1>2 DEF Dropped, Tabled, Pending
  <2>2. Dropped[c] = [calls[c] EXCEPT !.status = "done"]
    BY <1>2 DEF Dropped
  <2> QED BY <2>1, <2>2 DEF Call
<1> QED BY <1>1, <1>2

\* A step that changes the link, and with it the table if it disposes the client.
LEMMA TableStep ==
  ASSUME IInv, TableKept, pc' \in {"table", "silence", "socket"}, Linked',
         asked' \in [Calls -> Nat], \A c \in Calls : asked'[c] <= asked[c]
  PROVE  IInv'
<1> USE DEF IInv
<1>1. Timed'
  BY Limits DEF TableKept, Timed
<1>2. CASE Disposing
  <2>1. calls' = Dropped /\ UNCHANGED told
    BY <1>2 DEF TableKept
  <2>2. /\ DOMAIN calls' = Calls /\ calls' = [c \in Calls |-> calls'[c]]
        /\ \A c \in Calls :
             \/ calls'[c] = calls[c]
             \/ /\ calls'[c] \in Call /\ calls'[c].tried = calls[c].tried
                /\ calls[c].status = "pending" /\ calls'[c].status \in {"pending", "done"}
    <3>1. /\ DOMAIN Dropped = Calls /\ Dropped = [c \in Calls |-> Dropped[c]]
          /\ \A c \in Calls :
               \/ Dropped[c] = calls[c]
               \/ /\ Dropped[c] \in Call /\ Dropped[c].tried = calls[c].tried
                  /\ calls[c].status = "pending" /\ Dropped[c].status = "done"
      BY DroppedCalls
    <3> HIDE DEF IInv
    <3> QED BY <2>1, <3>1
  <2> QED BY <1>1, <2>1, <2>2, CallsMove
<1>3. CASE ~Disposing
  <2>1. UNCHANGED <<calls, told>>
    BY <1>3 DEF TableKept
  <2> QED BY <1>1, <2>1, CallsKept
<1> QED BY <1>2, <1>3

LEMMA LinkKept ==
  ASSUME Linked, Tabled, UNCHANGED <<link, asked>>
  PROVE  /\ Linked'
         /\ asked' \in [Calls -> Nat] /\ \A c \in Calls : asked'[c] <= asked[c]
<1>1. \A c \in Calls : asked[c] \in Nat
  BY DEF Tabled
<1> QED BY <1>1 DEF Linked, Rested, Tabled

LEMMA RetriedCall ==
  ASSUME NEW k \in Call
  PROVE  LET r == [k EXCEPT !.age = 0, !.tried = @ + 1]
         IN  r \in Call /\ r.status = k.status /\ r.tried = k.tried + 1
<1> DEFINE n == k.tried + 1
<1>1. n \in Nat
  BY DEF Call
<1>2. [k EXCEPT !.age = 0, !.tried = @ + 1] = [k EXCEPT !.age = 0, !.tried = n]
  OBVIOUS
<1> HIDE DEF n
<1>3. LET r == [k EXCEPT !.age = 0, !.tried = n]
      IN  r \in Call /\ r.status = k.status /\ r.tried = n
  BY <1>1, Limits DEF Call
<1> QED BY <1>2, <1>3 DEF n

LEMMA Initial == Init => IInv
<1> SUFFICES ASSUME Init PROVE IInv
  OBVIOUS
<1>1. Linked
  BY Limits DEF Init, Linked, Link, Rested
<1>2. Tabled
  <2>1. \A c \in Calls : RetryCount[c] \in Nat
    BY SdkAssumption
  <2> QED BY <2>1, Limits DEF Init, Tabled, Call
<1>3. Timed
  BY Limits DEF Init, Timed
<1> QED BY <1>1, <1>2, <1>3 DEF IInv

LEMMA TimeoutStep ==
  ASSUME IInv, ProcessTimeout PROVE IInv'
<1> USE DEF IInv
<1>1. Timed'
  BY Limits DEF ProcessTimeout, Timed
<1>2. CASE swept < TimeoutInterval
  BY <1>1, <1>2 DEF ProcessTimeout, Linked, Tabled, Rested
<1>3. CASE ~(swept < TimeoutInterval)
  <2> DEFINE failed == Again # {} /\ SendMayFail /\ Become(Closed(link))
             counted == asked' = [c \in Calls |->
                  IF c \in Again /\ Connected THEN asked[c] + 1 ELSE asked[c]]
  <2>1. /\ told' = [c \in Calls |-> IF c \in Over THEN told[c] + 1 ELSE told[c]]
        /\ calls' = [c \in Calls |->
             IF c \in Over THEN [calls[c] EXCEPT !.status = "done"]
             ELSE IF c \in Again THEN [calls[c] EXCEPT !.age = 0, !.tried = @ + 1]
             ELSE calls[c]]
        /\ (counted /\ UNCHANGED link) \/ failed
    BY <1>3 DEF ProcessTimeout
  <2>2. /\ Linked'
        /\ asked' \in [Calls -> Nat]
        /\ \A c \in Calls : asked'[c] <= IF c \in Again THEN asked[c] + 1 ELSE asked[c]
    <3>1. \A c \in Calls : asked[c] \in Nat
      BY DEF Tabled
    <3>2. CASE counted /\ UNCHANGED link
      BY <3>1, <3>2 DEF Linked, Rested
    <3>3. CASE failed
      <4>1. Closed(link) \in Link /\ Rested(Closed(link))
        BY ClosedLink DEF Linked, Rested
      <4>2. /\ Linked' /\ asked' \in [Calls -> Nat]
            /\ \A c \in Calls : asked'[c] <= asked[c]
        BY <3>3, <4>1, BecomesLink
      <4>3. \A c \in Calls : asked'[c] \in Nat
        BY <4>2
      <4> QED BY <3>1, <4>2, <4>3
    <3> QED BY <2>1, <3>2, <3>3
  <2>3. ASSUME NEW c \in Calls
        PROVE  /\ calls'[c] \in Call /\ told'[c] \in Nat
               /\ calls'[c].tried <= RetryCount[c] /\ asked'[c] <= calls'[c].tried + 1
               /\ told'[c] <= 1 /\ (told'[c] = 1 => calls'[c].status = "done")
               /\ calls'[c].status = "new" => asked'[c] = 0
    <3>1. /\ calls[c] \in Call /\ asked[c] \in Nat /\ told[c] \in Nat
          /\ calls[c].tried <= RetryCount[c] /\ asked[c] <= calls[c].tried + 1
          /\ told[c] <= 1 /\ (told[c] = 1 => calls[c].status = "done")
          /\ calls[c].status = "new" => asked[c] = 0
          /\ asked'[c] \in Nat /\ RetryCount[c] \in Nat
      BY <2>2, SdkAssumption DEF Tabled
    <3>2. CASE c \in Over
      <4>1. /\ told'[c] = told[c] + 1 /\ calls'[c] = [calls[c] EXCEPT !.status = "done"]
            /\ asked'[c] <= asked[c] /\ calls[c].status = "pending"
        BY <2>1, <2>2, <3>2 DEF Over, Expired, Pending
      <4> QED BY <3>1, <4>1 DEF Call
    <3>3. CASE c \in Again
      <4>1. /\ told'[c] = told[c]
            /\ calls'[c] = [calls[c] EXCEPT !.age = 0, !.tried = @ + 1]
            /\ asked'[c] <= asked[c] + 1 /\ calls[c].status = "pending"
            /\ RetryCount[c] > calls[c].tried
        BY <2>1, <2>2, <3>3 DEF Over, Again, Expired, Pending
      <4>2. /\ calls'[c] \in Call /\ calls'[c].status = calls[c].status
            /\ calls'[c].tried = calls[c].tried + 1
        BY <3>1, <4>1, RetriedCall
      <4>3. calls[c].tried \in Nat
        BY <3>1 DEF Call
      <4> QED BY <3>1, <4>1, <4>2, <4>3, SMTT(20)
    <3>4. CASE c \notin Over /\ c \notin Again
      <4>1. told'[c] = told[c] /\ calls'[c] = calls[c] /\ asked'[c] <= asked[c]
        BY <2>1, <2>2, <3>4
      <4> QED BY <3>1, <4>1 DEF Call
    <3> QED BY <3>2, <3>3, <3>4
  <2>4. Tabled'
    BY <2>1, <2>2, <2>3 DEF Tabled
  <2> QED BY <1>1, <2>2, <2>4
<1> QED BY <1>2, <1>3

\* A call that is made, whether or not its failure disposed the client.
LEMMA KeptCall ==
  ASSUME Tabled, NEW c \in Calls, calls[c].status = "new",
         NEW sent \in BOOLEAN, Kept(c, sent), UNCHANGED told,
         asked' \in [Calls -> Nat],
         \A d \in Calls : asked'[d] <= IF d = c THEN 1 ELSE asked[d]
  PROVE  Tabled'
<1> DEFINE before == IF Disposing THEN Dropped ELSE calls
           s == IF sent \/ RetryCount[c] > 0 THEN "pending" ELSE "refused"
<1>1. calls' = [before EXCEPT ![c].status = s] /\ s \in {"pending", "refused"}
  BY DEF Kept
<1>2. /\ before = [d \in Calls |-> before[d]]
      /\ \A d \in Calls :
           \/ before[d] = calls[d]
           \/ /\ before[d] \in Call /\ before[d].tried = calls[d].tried
              /\ calls[d].status = "pending" /\ before[d].status = "done"
  <2>1. CASE Disposing
    <3>1. before = Dropped
      BY <2>1
    <3> HIDE DEF before
    <3> QED BY <3>1, DroppedCalls
  <2>2. CASE ~Disposing
    <3>1. before = calls
      BY <2>2
    <3> HIDE DEF before
    <3> QED BY <3>1 DEF Tabled
  <2> QED BY <2>1, <2>2
<1> HIDE DEF before, s
<1>3. ASSUME NEW d \in Calls
      PROVE  /\ calls'[d] \in Call
             /\ calls'[d].tried <= RetryCount[d] /\ asked'[d] <= calls'[d].tried + 1
             /\ told[d] <= 1 /\ (told[d] = 1 => calls'[d].status = "done")
             /\ calls'[d].status = "new" => asked'[d] = 0
  <2>1. /\ calls[d] \in Call /\ asked[d] \in Nat /\ told[d] \in Nat
        /\ calls[d].tried <= RetryCount[d] /\ asked[d] <= calls[d].tried + 1
        /\ told[d] <= 1 /\ (told[d] = 1 => calls[d].status = "done")
        /\ calls[d].status = "new" => asked[d] = 0
        /\ asked'[d] \in Nat /\ calls[d].tried \in Nat
    BY DEF Tabled, Call
  <2>2. CASE d = c
    <3>1. before[d] = calls[d]
      BY <1>2, <2>2
    <3>2. calls'[d] = [calls[d] EXCEPT !.status = s]
      BY <1>1, <1>2, <2>2, <3>1
    <3>3. calls'[d] \in Call /\ calls'[d].tried = calls[d].tried /\ calls'[d].status = s
      BY <1>1, <2>1, <3>2 DEF Call
    <3>4. asked'[d] <= 1 /\ told[d] # 1
      BY <2>1, <2>2
    <3>5. asked'[d] <= calls[d].tried + 1
      BY <2>1, <3>4
    <3> QED BY <1>1, <2>1, <3>3, <3>4, <3>5
  <2>3. CASE d # c
    <3>1. calls'[d] = before[d] /\ asked'[d] <= asked[d]
      BY <1>1, <1>2, <2>3
    <3>2. /\ asked'[d] <= calls[d].tried + 1
          /\ calls[d].status = "new" => asked'[d] = 0
      BY <2>1, <3>1
    <3>3. CASE before[d] = calls[d]
      <4>1. calls'[d] = calls[d]
        BY <3>1, <3>3
      <4> QED BY <2>1, <4>1, <3>2, Zenon
    <3>4. CASE /\ before[d] \in Call /\ before[d].tried = calls[d].tried
               /\ calls[d].status = "pending" /\ before[d].status = "done"
      BY <2>1, <3>1, <3>2, <3>4
    <3> QED BY <1>2, <3>3, <3>4
  <2> QED BY <2>2, <2>3
<1>4. calls' \in [Calls -> Call]
  <2>1. calls' = [d \in Calls |-> calls'[d]]
    BY <1>1, <1>2
  <2> QED BY <1>3, <2>1
<1> QED BY <1>3, <1>4 DEF Tabled

LEMMA InvokeStep ==
  ASSUME IInv, NEW c \in Calls, InvokeAsync(c) PROVE IInv'
<1> USE DEF IInv
<1>1. calls[c].status = "new" /\ UNCHANGED <<told, pc>>
  BY DEF InvokeAsync
<1>2. \A d \in Calls : asked[d] \in Nat
  BY DEF Tabled
<1>3. asked[c] = 0
  BY <1>1 DEF Tabled
<1>5. PICK sent \in BOOLEAN : Kept(c, sent)
  BY Zenon DEF InvokeAsync
<1>4. /\ Linked'
      /\ asked' \in [Calls -> Nat]
      /\ \A d \in Calls : asked'[d] <= IF d = c THEN 1 ELSE asked[d]
  <2>1. CASE asked' = [asked EXCEPT ![c] = @ + 1] /\ UNCHANGED link
    BY <1>2, <1>3, <2>1 DEF Linked, Rested, Tabled
  <2>2. CASE \E l \in Lost(link) : Become(l)
    <3>1. PICK l \in Lost(link) : Become(l)
      BY <2>2
    <3>2. l \in Link /\ Rested(l)
      BY LostLinks DEF Linked
    <3>3. /\ Linked' /\ asked' \in [Calls -> Nat]
          /\ \A d \in Calls : asked'[d] <= asked[d]
      BY <3>1, <3>2, BecomesLink
    <3>4. \A d \in Calls : asked'[d] \in Nat
      BY <3>3
    <3> QED BY <1>2, <1>3, <3>3, <3>4
  <2>3. CASE UNCHANGED <<asked, link>>
    BY <1>2, <1>3, <2>3 DEF Linked, Rested, Tabled
  <2> QED BY <2>1, <2>2, <2>3, Zenon DEF InvokeAsync
<1>6. Tabled'
  BY <1>1, <1>4, <1>5, KeptCall
<1>7. Timed'
  BY <1>1, <1>5, Limits DEF Kept, Timed
<1> QED BY <1>4, <1>6, <1>7

LEMMA SilenceStep ==
  ASSUME IInv, CheckSilence PROVE IInv'
<1> USE DEF IInv
<1>1. pc' \in {"table", "silence", "socket"} /\ TableKept
  BY DEF CheckSilence
<1>2. \/ \E l \in Link : Rested(l) /\ Become(l)
      \/ UNCHANGED <<link, asked>>
  <2>1. CASE Silent /\ Become(Closed(link))
    BY <2>1, ClosedLink DEF Linked, Rested
  <2>2. CASE Become([link EXCEPT !.heartbeat = 0])
    <3>1. [link EXCEPT !.heartbeat = 0] \in Link /\ Rested([link EXCEPT !.heartbeat = 0])
      BY Limits DEF Linked, Link, Rested
    <3> QED BY <2>2, <3>1
  <2>3. CASE \E l \in Lost(link) : Become([l EXCEPT !.heartbeat = 0])
    <3>1. PICK l \in Lost(link) : Become([l EXCEPT !.heartbeat = 0])
      BY <2>3
    <3>2. l \in Link /\ Rested(l)
      BY LostLinks DEF Linked
    <3>3. [l EXCEPT !.heartbeat = 0] \in Link /\ Rested([l EXCEPT !.heartbeat = 0])
      BY <3>2, Limits DEF Link, Rested
    <3> QED BY <3>1, <3>3
  <2> QED BY <2>1, <2>2, <2>3 DEF CheckSilence
<1>3. /\ Linked'
      /\ asked' \in [Calls -> Nat] /\ \A c \in Calls : asked'[c] <= asked[c]
  BY <1>2, BecomesLink, LinkKept
<1> QED BY <1>1, <1>3, TableStep

\* What a step that opens, closes or watches the link makes of it.
LEMMA SocketLink ==
  ASSUME Linked, Connects \/ ConnectFails \/ StillConnecting \/ ReadsEnd \/ Reconnect
                   \/ NothingToDo \/ OpenSocket
  PROVE  \/ \E l \in Link : Rested(l) /\ Become(l)
         \/ UNCHANGED <<link, asked>>
<1>1. Closed(link) \in Link /\ Rested(Closed(link))
  BY ClosedLink DEF Linked, Rested
<1>2. CASE OpenSocket \/ Reconnect
  <2>1. PICK l \in {Connecting(link), FailedToOpen(link)} \cup Opened : Become(l)
    BY <1>2 DEF OpenSocket, Reconnect
  <2>2. l \in Link /\ Rested(l)
    BY OpenedLinks DEF Linked
  <2> QED BY <2>1, <2>2
<1>3. CASE Connects
  <2>1. PICK l \in Opened : Become(l)
    BY <1>3 DEF Connects
  <2>2. l \in Link /\ Rested(l)
    BY OpenedLinks DEF Linked
  <2> QED BY <2>1, <2>2
<1>4. CASE ConnectFails \/ ReadsEnd
  BY <1>1, <1>4 DEF ConnectFails, ReadsEnd
<1>5. CASE StillConnecting \/ NothingToDo
  BY <1>5 DEF StillConnecting, NothingToDo
<1> QED BY <1>2, <1>3, <1>4, <1>5

LEMMA LinkStep ==
  ASSUME IInv, SocketEvents \/ Open PROVE IInv'
<1> USE DEF IInv
<1>1. pc' \in {"table", "silence", "socket"} /\ TableKept
  BY DEF SocketEvents, Open, Timed
<1>2. \/ \E l \in Link : Rested(l) /\ Become(l)
      \/ UNCHANGED <<link, asked>>
  BY SocketLink DEF SocketEvents, Open
<1>3. /\ Linked'
      /\ asked' \in [Calls -> Nat] /\ \A c \in Calls : asked'[c] <= asked[c]
  BY <1>2, BecomesLink, LinkKept
<1> QED BY <1>1, <1>3, TableStep

LEMMA AbortStep ==
  ASSUME IInv, Abort PROVE IInv'
<1> USE DEF IInv
<1>1. Timed' /\ UNCHANGED <<calls, told>>
  BY DEF Abort, Timed
<1>2. Closed(link) \in Link /\ Rested(Closed(link))
  BY ClosedLink DEF Linked, Rested
<1>3. Linked' /\ Tabled'
  BY <1>1, <1>2, BecomesLink, CallsKept DEF Abort
<1> QED BY <1>1, <1>3

LEMMA HeardLink ==
  ASSUME Linked, link.state = "Connected", link' = Heard PROVE Linked'
BY Limits DEF Linked, Link, Heard, Rested

LEMMA OtherStep ==
  ASSUME IInv, ReceiveOther PROVE IInv'
BY HeardLink DEF IInv, ReceiveOther, InSocket, Tabled, Timed

LEMMA AnswerStep ==
  ASSUME IInv, NEW c \in Calls, ReceiveAnswer(c) PROVE IInv'
<1> USE DEF IInv
<1>1. Linked' /\ Timed' /\ asked[c] > 0 /\ asked' = [asked EXCEPT ![c] = @ - 1]
  BY HeardLink DEF ReceiveAnswer, InSocket, Timed
<1>2. asked' \in [Calls -> Nat] /\ \A d \in Calls : asked'[d] <= asked[d]
  <2>1. asked[c] - 1 \in Nat /\ asked[c] - 1 <= asked[c]
    BY <1>1 DEF Tabled
  <2>2. \A d \in Calls : asked[d] \in Nat
    BY DEF Tabled
  <2> QED BY <1>1, <2>1, <2>2 DEF Tabled
<1>3. CASE c \in Pending
  <2>1. /\ told' = [told EXCEPT ![c] = @ + 1]
        /\ calls' = [calls EXCEPT ![c].status = "done"]
    BY <1>3 DEF ReceiveAnswer, FetchInvokeInfo
  <2>2. ASSUME NEW d \in Calls
        PROVE  /\ calls'[d] \in Call /\ told'[d] \in Nat
               /\ calls'[d].tried <= RetryCount[d] /\ asked'[d] <= calls'[d].tried + 1
               /\ told'[d] <= 1 /\ (told'[d] = 1 => calls'[d].status = "done")
               /\ calls'[d].status = "new" => asked'[d] = 0
    <3>1. /\ calls[d] \in Call /\ asked[d] \in Nat /\ told[d] \in Nat
          /\ calls[d].tried <= RetryCount[d] /\ asked[d] <= calls[d].tried + 1
          /\ told[d] <= 1 /\ (told[d] = 1 => calls[d].status = "done")
          /\ calls[d].status = "new" => asked[d] = 0
          /\ asked'[d] \in Nat /\ calls[d].tried \in Nat /\ asked'[d] <= asked[d]
      BY <1>2 DEF Tabled, Call
    <3>2. asked'[d] <= calls[d].tried + 1 /\ (calls[d].status = "new" => asked'[d] = 0)
      BY <3>1
    <3>3. CASE d = c
      <4>1. told[d] = 0
        BY <1>3, <3>1, <3>3 DEF Pending
      <4>2. calls'[d] = [calls[d] EXCEPT !.status = "done"] /\ told'[d] = 1
        BY <2>1, <3>3, <4>1 DEF Tabled
      <4>3. /\ calls'[d] \in Call /\ calls'[d].tried = calls[d].tried
            /\ calls'[d].status = "done"
        BY <3>1, <4>2 DEF Call
      <4> QED BY <3>1, <3>2, <4>2, <4>3
    <3>4. CASE d # c
      <4>1. calls'[d] = calls[d] /\ told'[d] = told[d]
        BY <2>1, <3>4 DEF Tabled
      <4> QED BY <3>1, <3>2, <4>1, Zenon
    <3> QED BY <3>3, <3>4
  <2>3. calls' \in [Calls -> Call] /\ told' \in [Calls -> Nat]
    <3>1. /\ DOMAIN calls' = Calls /\ calls' = [d \in Calls |-> calls'[d]]
          /\ DOMAIN told' = Calls /\ told' = [d \in Calls |-> told'[d]]
      BY <2>1 DEF Tabled
    <3> QED BY <2>2, <3>1
  <2>4. Tabled'
    BY <1>2, <2>2, <2>3 DEF Tabled
  <2> QED BY <1>1, <2>4
<1>4. CASE c \notin Pending
  <2>1. UNCHANGED <<calls, told>>
    BY <1>4 DEF ReceiveAnswer, FetchInvokeInfo
  <2> QED BY <1>1, <1>2, <2>1, CallsKept
<1> QED BY <1>3, <1>4

LEMMA DisposeStep ==
  ASSUME IInv, Dispose PROVE IInv'
<1>1. CleanedUp(link) \in Link /\ Rested(CleanedUp(link))
  BY CleanedUpLink DEF IInv, Linked, Rested
<1>2. /\ Linked'
      /\ asked' \in [Calls -> Nat] /\ \A c \in Calls : asked'[c] <= asked[c]
  BY <1>1, BecomesLink DEF Dispose, IInv
<1> QED BY <1>2, TableStep DEF Dispose, IInv, Timed

\* Time passes, or goes back.
LEMMA TimeStep ==
  ASSUME IInv, Elapse \/ ClockBack PROVE IInv'
<1> USE DEF IInv
<1>1. Linked'
  <2>1. CASE Elapse
    <3> DEFINE n == IF link.counted < CountLimit
                         /\ link.state \in {"Connecting", "Disconnect"}
                      THEN link.counted + 1 ELSE link.counted
               a == Aged(link.activity, MaxSilence)
               h == Aged(link.heartbeat, HeartbeatInterval)
    <3>1. n \in 0..CountLimit
      BY Limits DEF Linked, Link
    <3>2. /\ a \in 0..MaxSilence \cup {Never} /\ h \in 0..HeartbeatInterval \cup {Never}
          /\ link.activity = Never => a = Never
      BY AgedTime, SdkAssumption DEF Linked, Link
    <3>3. link' = [link EXCEPT !.counted = n, !.activity = a, !.heartbeat = h]
      BY <2>1 DEF Elapse
    <3> HIDE DEF n, a, h
    <3> QED BY <3>1, <3>2, <3>3 DEF Linked, Link, Rested
  <2>2. CASE ClockBack
    <3> DEFINE n == IF link.state \in {"Connecting", "Disconnect"} THEN CountLimit
                      ELSE link.counted
               a == IF link.activity = Never THEN Never ELSE MaxSilence
               h == IF link.heartbeat = Never THEN Never ELSE HeartbeatInterval
    <3>1. n \in 0..CountLimit
      BY Limits DEF Linked, Link
    <3>2. /\ a \in 0..MaxSilence \cup {Never} /\ h \in 0..HeartbeatInterval \cup {Never}
          /\ link.activity = Never => a = Never
      BY Limits
    <3>3. link' = [link EXCEPT !.counted = n, !.activity = a, !.heartbeat = h]
      BY <2>2 DEF ClockBack
    <3> HIDE DEF n, a, h
    <3> QED BY <3>1, <3>2, <3>3 DEF Linked, Link, Rested
  <2> QED BY <2>1, <2>2
<1>2. Timed' /\ UNCHANGED <<asked, told>>
  <2>1. swept \in 0..TimeoutInterval /\ swept # Never /\ TimeoutInterval \in Nat
    BY SdkAssumption DEF Timed, Never
  <2> QED BY <2>1, AgedTime, Limits DEF Elapse, ClockBack, Timed
<1>3. ASSUME NEW c \in Calls, calls'[c] # calls[c]
      PROVE  /\ calls'[c] \in Call /\ calls'[c].tried = calls[c].tried
             /\ calls[c].status = "pending" /\ calls'[c].status \in {"pending", "done"}
  <2>1. calls[c] \in Call /\ calls[c].status = "pending"
    BY <1>3 DEF Elapse, ClockBack, Tabled, Pending
  <2>2. \E g \in 0..CallTimeout : calls'[c] = [calls[c] EXCEPT !.age = g]
    <3>1. CASE Elapse
      <4> DEFINE g == calls[c].age
      <4>1. calls'[c] = [calls[c] EXCEPT !.age = Aged(g, CallTimeout)]
        BY <1>3, <3>1 DEF Elapse
      <4>2. g \in 0..CallTimeout /\ g # Never /\ CallTimeout \in Nat
        BY <2>1, SdkAssumption DEF Call, Never
      <4>3. Aged(g, CallTimeout) \in 0..CallTimeout
        <5> HIDE DEF g
        <5> QED BY <4>2, AgedTime
      <4> QED BY <4>1, <4>3
    <3>2. CASE ClockBack
      BY <1>3, <3>2, Limits DEF ClockBack
    <3> QED BY <3>1, <3>2
  <2> QED BY <2>1, <2>2 DEF Call
<1>4. DOMAIN calls' = Calls /\ calls' = [c \in Calls |-> calls'[c]]
  BY DEF Elapse, ClockBack
<1>5. asked' \in [Calls -> Nat] /\ \A c \in Calls : asked'[c] <= asked[c]
  BY <1>2 DEF Tabled
<1>6. Tabled'
  BY <1>2, <1>3, <1>4, <1>5, CallsMove
<1> QED BY <1>1, <1>2, <1>6

-----------------------------------------------------------------------------
(* Theorems.                                                               *)

LEMMA Step ==
  ASSUME IInv, [Next]_vars PROVE IInv'
<1>1. CASE UNCHANGED vars
  BY <1>1 DEF vars, IInv, Linked, Tabled, Timed, Rested
<1>2. CASE ProcessTimeout
  BY <1>2, TimeoutStep
<1>3. CASE CheckSilence
  BY <1>3, SilenceStep
<1>4. CASE SocketEvents \/ Open
  BY <1>4, LinkStep
<1>10. CASE Abort
  BY <1>10, AbortStep
<1>5. CASE \E c \in Calls : InvokeAsync(c)
  BY <1>5, InvokeStep
<1>6. CASE \E c \in Calls : ReceiveAnswer(c)
  BY <1>6, AnswerStep
<1>7. CASE ReceiveOther
  BY <1>7, OtherStep
<1>8. CASE Dispose
  BY <1>8, DisposeStep
<1>9. CASE Elapse \/ ClockBack
  BY <1>9, TimeStep
<1> QED BY <1>1, <1>2, <1>3, <1>4, <1>5, <1>6, <1>7, <1>8, <1>9, <1>10 DEF Next

LEMMA Invariance == Spec => []IInv
<1>1. IInv /\ [Next]_vars => IInv'
  BY Step
<1> QED BY Initial, <1>1, PTL DEF Spec, Safe

LEMMA Consequences == IInv => TypeOK /\ OneOutcome
BY DEF IInv, Linked, Tabled, Timed, TypeOK, OneOutcome

\* The client's fields and the table of calls keep their types; no call is sent
\* more often than its handler allows, and none is answered more often.
THEOREM Typing == Spec => []TypeOK
BY Invariance, Consequences, PTL

\* The callback of a call runs once at most, and when it has run the table
\* knows nothing of the call any more (FetchInvokeInfo, ProcessTimeout).
THEOREM Outcome == Spec => []OneOutcome
BY Invariance, Consequences, PTL

LEMMA StaysDisposed ==
  ASSUME IInv, [Next]_vars, link.state = "CleanUp", link.event # "gone", ~Abort
  PROVE  link'.state = "CleanUp"
<1>1. ~Connected /\ ~Silent /\ ~HasSocket(link)
  BY DEF IInv, Linked, Rested, Connected, Silent, HasSocket
<1>2. CASE UNCHANGED link
  BY <1>2
<1>3. CASE ProcessTimeout
  BY <1>1, <1>3 DEF ProcessTimeout, SendMayFail
<1>4. CASE CheckSilence
  <2>1. link' \in {link, [link EXCEPT !.heartbeat = 0]}
    BY <1>1, <1>4 DEF CheckSilence, SendMayFail, Become
  <2> QED BY <2>1 DEF IInv, Linked, Link
<1>5. CASE SocketEvents
  BY <1>5 DEF SocketEvents, Connects, ConnectFails, StillConnecting, ReadsEnd,
              Reconnect, ReconnectDue, NothingToDo, InSocket
<1>6. CASE Elapse \/ ClockBack
  BY <1>6 DEF Elapse, ClockBack, IInv, Linked, Link
<1> QED
  BY <1>1, <1>2, <1>3, <1>4, <1>5, <1>6
  DEF Next, vars, InvokeAsync, ReceiveAnswer, ReceiveOther, InSocket, Open, Dispose

\* A client that has been disposed connects again only if the application aborts
\* it or OnOpen set its times after it was disposed: neither silence nor a
\* heartbeat, a call or a late answer brings it back.
THEOREM Disposal == Spec => DisposedForGood
<1>1. IInv /\ [Next]_vars =>
        [link.state = "CleanUp" /\ link'.state # "CleanUp"
           => Abort \/ link.event = "gone"]_vars
  BY StaysDisposed
<1> QED BY Invariance, <1>1, PTL DEF Spec, Safe, DisposedForGood

=============================================================================
