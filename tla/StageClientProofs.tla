-------------------------- MODULE StageClientProofs --------------------------
(* Theorems about the client's end of the link, for every number of nodes, *)
(* channels, virtual sockets and calls.                                    *)
EXTENDS StageClient, FiniteSetTheorems, TLAPS

Phases == {"connecting", "open", "closed"}
Labels == {"idle", "release", "lost", "virtual", "servers", "closing", "notify",
           "next", "send", "cache", "destroy"} \cup Holding

\* The part of the type invariant the nodes depend on.
NodeTypes ==
  /\ phase \in [Channels -> Phases]
  /\ free \in Int /\ working \subseteq Channels
  /\ pc \in [Threads -> Labels]
  /\ DOMAIN who = Threads

\* A socket that is not closed has a node, and so has one whose abort has
\* not released it yet, which only one thread processes.
Held ==
  /\ \A c \in Channels : phase[c] # "closed" => c \in working
  /\ \A t \in Drivers :
       At(t, "release") => who[t] \in working /\ phase[who[t]] = "closed"
  /\ \A t, u \in Drivers : t # u /\ At(t, "release") /\ At(u, "release")
                             => who[t] # who[u]

IInv == NodeTypes /\ Held /\ NodesConserved

LEMMA InitIInv == Init => IInv
<1> SUFFICES ASSUME Init PROVE IInv
  OBVIOUS
<1>1. NodeTypes
  BY ClientAssumption DEF Init, NodeTypes, Phases, Labels, Threads
<1>2. Held
  BY DEF Init, Held, At, Threads, Drivers
<1>3. NodesConserved
  BY FS_EmptySet, ClientAssumption DEF Init, NodesConserved
<1> QED BY <1>1, <1>2, <1>3 DEF IInv

\* Sockets are put to work: each takes a node it did not have.
LEMMA OpenReleasedIInv ==
  ASSUME IInv, ~disposed, UNCHANGED <<disposed, pc, who>>,
         NEW new \in SUBSET Channels, NEW failed \in SUBSET new,
         OpenReleased(new, failed)
  PROVE  IInv'
<1> DEFINE used == new \ failed
<1>1. /\ phase' = [c \in Channels |-> IF c \in used THEN "connecting" ELSE phase[c]]
      /\ working' = working \cup used /\ free' = free - Cardinality(used)
      /\ \A c \in new : phase[c] = "closed" /\ c \notin working
  BY DEF OpenReleased, FreeAfter, Fresh
<1>2. IsFiniteSet(working) /\ IsFiniteSet(used) /\ working \cap used = {}
  BY <1>1, ClientAssumption, FS_Subset DEF IInv, NodeTypes
<1>3. Cardinality(working') = Cardinality(working) + Cardinality(used)
  <2>1. Cardinality(working \cup used)
          = Cardinality(working) + Cardinality(used) - Cardinality(working \cap used)
    BY <1>2, FS_Union
  <2>2. Cardinality(working \cap used) = 0
    BY <1>2, FS_EmptySet
  <2>3. Cardinality(working) \in Nat /\ Cardinality(used) \in Nat
    BY <1>2, FS_CardinalityType
  <2>4. working' = working \cup used
    BY <1>1
  <2> QED BY <2>1, <2>2, <2>3, <2>4
<1>4. Cardinality(used) \in Nat /\ Cardinality(working) \in Nat
  BY <1>2, FS_CardinalityType
<1>5. NodeTypes'
  BY <1>1, <1>4 DEF IInv, NodeTypes, Phases
<1>6. Held'
  BY <1>1 DEF IInv, NodeTypes, Held, At, Drivers
<1>7. NodesConserved'
  BY <1>1, <1>3, <1>4, ClientAssumption DEF IInv, NodeTypes, NodesConserved
<1> QED BY <1>5, <1>6, <1>7 DEF IInv

\* A closed socket gives its node back.
LEMMA ReleaseIInv ==
  ASSUME IInv, NEW t \in Drivers, Release(t) PROVE IInv'
<1> DEFINE c == who[t]
<1>1. /\ working' = working \ {c} /\ free' = free + 1
      /\ disposed' = disposed /\ phase' = phase /\ At(t, "release")
      /\ c \in working /\ c \in Channels
  BY DEF Release, IInv, Held, NodeTypes
<1>2. /\ \/ pc' = [pc EXCEPT ![t] = "lost"] /\ who' = who
         \/ pc' = [pc EXCEPT ![t] = "idle"]
            /\ who' = [who EXCEPT ![t] = NoChannel]
  BY DEF Release, Goto
<1>3. Cardinality(working') = Cardinality(working) - 1
      /\ Cardinality(working) \in Nat
  <2>1. IsFiniteSet(working)
    BY ClientAssumption, FS_Subset DEF IInv, NodeTypes
  <2> QED BY <1>1, <2>1, FS_RemoveElement, FS_CardinalityType
<1>4. NodeTypes'
  BY <1>1, <1>2 DEF IInv, NodeTypes, Labels, Threads, Drivers
<1>5. Held'
  <2>1. \A u \in Drivers : u # t /\ At(u, "release") => who[u] # c
    BY <1>1 DEF IInv, Held
  <2>2. phase[c] = "closed"
    BY <1>1 DEF IInv, Held
  <2> QED BY <1>1, <1>2, <2>1, <2>2 DEF IInv, NodeTypes, Held, At, Threads, Drivers
<1>6. NodesConserved'
  BY <1>1, <1>3, ClientAssumption DEF IInv, NodeTypes, NodesConserved
<1> QED BY <1>4, <1>5, <1>6 DEF IInv

\* A step that leaves sockets and nodes alone, and no thread to release one.
LEMMA QuietStepIInv ==
  ASSUME IInv, UNCHANGED <<phase, free, working, disposed>>,
         pc' \in [Threads -> Labels],
         DOMAIN who' = Threads,
         \A t \in Drivers : pc'[t] = "release" => pc[t] = "release" /\ who'[t] = who[t]
  PROVE  IInv'
<1>1. NodeTypes'
  BY DEF IInv, NodeTypes
<1>2. Held'
  BY DEF IInv, Held, At
<1>3. NodesConserved'
  BY DEF IInv, NodesConserved
<1> QED BY <1>1, <1>2, <1>3 DEF IInv

LEMMA NextIInv == IInv /\ [Next]_vars => IInv'
<1> SUFFICES ASSUME IInv, [Next]_vars PROVE IInv'
  OBVIOUS
<1> USE DEF Threads, Drivers, At, Goto
<1>1. ASSUME Listen PROVE IInv'
  <2>1. PICK new \in SUBSET Channels : \E failed \in SUBSET new : OpenReleased(new, failed)
    BY <1>1 DEF Listen
  <2>2. PICK failed \in SUBSET new : OpenReleased(new, failed)
    BY <2>1
  <2>3. ~disposed /\ UNCHANGED <<disposed, pc, who>>
    BY <1>1 DEF Listen
  <2> QED BY <2>2, <2>3, OpenReleasedIInv
<1>2. ASSUME NEW new \in SUBSET Channels, NEW failed \in SUBSET new, Tick(new, failed)
      PROVE  IInv'
  <2>1. ~disposed /\ UNCHANGED <<disposed, pc, who>> /\ OpenReleased(new, failed)
    BY <1>2 DEF Tick
  <2> QED BY <2>1, OpenReleasedIInv
<1>3. ASSUME NEW t \in Drivers, Release(t) PROVE IInv'
  BY <1>3, ReleaseIInv
<1>4. ASSUME NEW t \in Drivers, NEW c \in Channels, AbortBegin(t, c) PROVE IInv'
  <2>1. /\ phase[c] # "closed" /\ phase' = [phase EXCEPT ![c] = "closed"]
        /\ pc' = [pc EXCEPT ![t] = "release"] /\ who' = [who EXCEPT ![t] = c]
        /\ UNCHANGED <<free, working, disposed>>
        /\ \A u \in Drivers \ {t} : who[u] # c
    BY <1>4 DEF AbortBegin, FreeFor, tables
  <2>2. NodeTypes'
    BY <2>1 DEF IInv, NodeTypes, Phases, Labels
  <2>3. Held'
    BY <2>1 DEF IInv, NodeTypes, Held
  <2>4. NodesConserved'
    BY <2>1 DEF IInv, NodesConserved
  <2> QED BY <2>2, <2>3, <2>4 DEF IInv
<1>5. ASSUME NEW c \in Channels, Opened(c) PROVE IInv'
  <2>1. /\ phase[c] = "connecting" /\ phase' = [phase EXCEPT ![c] = "open"]
        /\ UNCHANGED <<free, working, disposed, pc, who>>
    BY <1>5 DEF Opened
  <2>2. NodeTypes'
    BY <2>1 DEF IInv, NodeTypes, Phases
  <2>3. Held'
    BY <2>1 DEF IInv, NodeTypes, Held
  <2>4. NodesConserved'
    BY <2>1 DEF IInv, NodesConserved
  <2> QED BY <2>2, <2>3, <2>4 DEF IInv
<1>6. ASSUME Dispose PROVE IInv'
  <2>1. /\ phase' = [c \in Channels |-> IF c \in working THEN "closed" ELSE phase[c]]
        /\ free' = 0 /\ working' = {} /\ disposed' = TRUE /\ UNCHANGED <<pc, who>>
        /\ \A t \in Drivers : who[t] \notin working
    BY <1>6 DEF Dispose
  <2>2. NodeTypes'
    BY <2>1 DEF IInv, NodeTypes, Phases
  <2>3. Held'
    BY <2>1 DEF IInv, NodeTypes, Held
  <2>4. NodesConserved'
    BY <2>1 DEF NodesConserved
  <2> QED BY <2>2, <2>3, <2>4 DEF IInv
<1>7. ASSUME NEW t \in Drivers,
             LinkLost(t) \/ AbortingVirtualSockets(t) \/ AbortAllVirtualSockets(t)
               \/ AbortAllServerSockets(t) \/ CloseServerSocket(t) \/ OnAbort(t)
      PROVE  IInv'
  <2>1. UNCHANGED <<phase, free, working, disposed>>
    BY <1>7 DEF LinkLost, AbortingVirtualSockets, AbortAllVirtualSockets,
                AbortAllServerSockets, CloseServerSocket, OnAbort, tables
  <2>2. \/ who' = who /\ pc' = pc
        \/ who' = who /\ \E l \in {"virtual", "aborting", "servers", "closing", "notify"} :
                             pc' = [pc EXCEPT ![t] = l]
        \/ pc' = [pc EXCEPT ![t] = "idle"] /\ who' = [who EXCEPT ![t] = NoChannel]
    BY <1>7 DEF LinkLost, AbortingVirtualSockets, AbortAllVirtualSockets,
                AbortAllServerSockets, CloseServerSocket, OnAbort
  <2> QED BY <2>1, <2>2, QuietStepIInv DEF IInv, NodeTypes, Labels, Holding
<1>8. ASSUME NEW c \in Channels, Message(c) PROVE IInv'
  <2>1. UNCHANGED <<phase, free, working, disposed>>
    BY <1>8 DEF Message, AcceptClients, AbortClient, ServerAnnounced, Receives, tables
  <2>2. \/ UNCHANGED <<pc, who>>
        \/ /\ \E l \in {"outside", "prevented"} : pc' = [pc EXCEPT !["strand"] = l]
           /\ who' = [who EXCEPT !["strand"] = c]
    BY <1>8 DEF Message, AcceptClients, AbortClient, ServerAnnounced, Aborting
  <2> QED BY <2>1, <2>2, QuietStepIInv DEF IInv, NodeTypes, Labels, Holding
<1>9. ASSUME AbortVirtualSockets PROVE IInv'
  <2>1. /\ UNCHANGED <<phase, free, working, disposed>>
        /\ pc' = [pc EXCEPT !["strand"] = "idle"]
        /\ who' = [who EXCEPT !["strand"] = NoChannel]
    BY <1>9 DEF AbortVirtualSockets
  <2> QED BY <2>1, QuietStepIInv DEF IInv, NodeTypes, Labels
<1>10. ASSUME Elapse PROVE IInv'
  <2>1. UNCHANGED <<phase, free, working, disposed, pc, who>>
    BY <1>10 DEF Elapse, tables
  <2> QED BY <2>1, QuietStepIInv DEF IInv, NodeTypes
<1>11. ASSUME Send \/ AllowAccept \/ Sending PROVE IInv'
  <2>1. UNCHANGED <<phase, free, working, disposed>>
    BY <1>11 DEF Send, AllowAccept, Sending, RawSendNext, RawSend, Cache,
                 DestroyObject, AllowAcceptSend, tables
  <2>2. /\ \/ pc' = pc
           \/ \E l \in {"next", "cache", "send", "idle", "destroy", "accept"} :
                pc' = [pc EXCEPT !["app"] = l]
        /\ \/ who' = who
           \/ \E c : who' = [who EXCEPT !["app"] = c]
    BY <1>11 DEF Send, AllowAccept, Sending, RawSendNext, RawSend, Cache, Sent,
                 DestroyObject, AllowAcceptSend
  <2> QED BY <2>1, <2>2, QuietStepIInv DEF IInv, NodeTypes, Labels, Holding
<1>12. ASSUME UNCHANGED vars PROVE IInv'
  <2>1. UNCHANGED <<phase, free, working, disposed, pc, who>>
    BY <1>12 DEF vars, tables
  <2> QED BY <2>1, QuietStepIInv DEF IInv, NodeTypes
<1> QED
  BY <1>1, <1>2, <1>3, <1>4, <1>5, <1>6, <1>7, <1>8, <1>9, <1>10, <1>11, <1>12
  DEF Next, Losing

\* No list node is lost and none is counted twice: the nodes that are free
\* and those that work for a socket (AddChannel, ReleaseChannel) always make
\* up the number the client was created with, until it is disposed.
LEMMA Nodes == Safe => []NodesConserved
<1>1. IInv => NodesConserved
  BY DEF IInv
<1> QED BY InitIInv, NextIInv, <1>1, PTL DEF Safe

-----------------------------------------------------------------------------
LEMMA InAppend ==
  ASSUME NEW S, NEW s \in Seq(S), NEW x \in S, x \notin In(s),
         \A i, j \in 1..Len(s) : s[i] = s[j] => i = j
  PROVE  /\ Append(s, x) \in Seq(S) /\ Append(s, x) # <<>>
         /\ In(Append(s, x)) = In(s) \cup {x}
         /\ \A i, j \in 1..Len(Append(s, x)) :
              Append(s, x)[i] = Append(s, x)[j] => i = j
<1> DEFINE a == Append(s, x)
<1>1. /\ a \in Seq(S) /\ Len(a) = Len(s) + 1 /\ Len(s) \in Nat
      /\ \A i \in 1..Len(s) : a[i] = s[i]
      /\ a[Len(s) + 1] = x /\ a # <<>>
  OBVIOUS
<1>2. 1..Len(a) = (1..Len(s)) \cup {Len(s) + 1}
  BY <1>1
<1>3. In(a) = In(s) \cup {x}
  <2>1. In(a) = {a[i] : i \in 1..Len(s)} \cup {a[Len(s) + 1]}
    BY <1>2 DEF In
  <2> QED BY <2>1, <1>1 DEF In
<1>4. \A i \in 1..Len(s) : s[i] # x
  BY DEF In
<1>5. ASSUME NEW i \in 1..Len(a), NEW j \in 1..Len(a), a[i] = a[j] PROVE i = j
  BY <1>5, <1>1, <1>2, <1>4
<1> QED BY <1>1, <1>3, <1>5

\* Two lists put together.
LEMMA Concatenated ==
  ASSUME NEW S, NEW p \in Seq(S), NEW q \in Seq(S)
  PROVE  /\ p \o q \in Seq(S) /\ Len(p \o q) = Len(p) + Len(q)
         /\ \A i \in 1..Len(p \o q) :
              (p \o q)[i] = IF i <= Len(p) THEN p[i] ELSE q[i - Len(p)]
OBVIOUS

\* Taking an element out of a list without repetitions.
LEMMA InRemoveAt ==
  ASSUME NEW S, NEW s \in Seq(S), NEW k \in 1..Len(s),
         \A i, j \in 1..Len(s) : s[i] = s[j] => i = j
  PROVE  /\ RemoveAt(s, k) \in Seq(S)
         /\ In(RemoveAt(s, k)) = In(s) \ {s[k]}
         /\ \A i, j \in 1..Len(RemoveAt(s, k)) :
              RemoveAt(s, k)[i] = RemoveAt(s, k)[j] => i = j
<1> DEFINE r == RemoveAt(s, k)
           pos(i) == IF i < k THEN i ELSE i + 1
<1>1. /\ Len(s) \in Nat /\ k \in Int /\ 1 <= k /\ k <= Len(s)
  OBVIOUS
<1> DEFINE p == SubSeq(s, 1, k - 1)
           q == SubSeq(s, k + 1, Len(s))
<1>2. /\ p \in Seq(S) /\ Len(p) = k - 1 /\ \A i \in 1..(k - 1) : p[i] = s[i]
  BY <1>1
<1>3. /\ q \in Seq(S) /\ Len(q) = Len(s) - k
      /\ \A i \in 1..(Len(s) - k) : q[i] = s[k + i]
  BY <1>1
<1> HIDE DEF pos
<1>4. /\ r \in Seq(S) /\ Len(r) = Len(s) - 1
      /\ \A i \in 1..Len(r) : r[i] = IF i < k THEN p[i] ELSE q[i - (k - 1)]
  <2>1. r = p \o q
    BY DEF RemoveAt
  <2> HIDE DEF p, q, r
  <2>2. r \in Seq(S) /\ Len(r) = Len(p) + Len(q)
    <3>1. p \in Seq(S) /\ q \in Seq(S)
      BY <1>2, <1>3
    <3> QED BY <3>1, <2>1, Concatenated
  <2>3. \A i \in 1..Len(r) : r[i] = IF i <= Len(p) THEN p[i] ELSE q[i - Len(p)]
    <3>1. p \in Seq(S) /\ q \in Seq(S)
      BY <1>2, <1>3
    <3>2. \A i \in 1..Len(p \o q) :
            (p \o q)[i] = IF i <= Len(p) THEN p[i] ELSE q[i - Len(p)]
      BY <3>1, Concatenated
    <3> QED BY <3>2, <2>1
  <2>4. Len(p) = k - 1 /\ Len(q) = Len(s) - k
    BY <1>2, <1>3
  <2>5. Len(r) = Len(s) - 1
    BY <2>2, <2>4, <1>1
  <2>6. \A i \in 1..Len(r) : i <= k - 1 <=> i < k
    BY <1>1
  <2> QED BY <2>2, <2>3, <2>4, <2>5, <2>6
<1> USE DEF pos
<1> HIDE DEF p, q, r
<1>5. \A i \in 1..Len(r) : r[i] = s[pos(i)] /\ pos(i) \in 1..Len(s) /\ pos(i) # k
  <2> SUFFICES ASSUME NEW i \in 1..Len(r)
               PROVE  r[i] = s[pos(i)] /\ pos(i) \in 1..Len(s) /\ pos(i) # k
    OBVIOUS
  <2>1. r[i] = IF i < k THEN p[i] ELSE q[i - (k - 1)]
    BY <1>4
  <2>2. CASE i < k
    <3>1. i \in 1..(k - 1) /\ i \in 1..Len(s)
      BY <2>2, <1>1, <1>4
    <3> QED BY <3>1, <2>1, <2>2, <1>2, <1>1
  <2>3. CASE i >= k
    <3>1. i - (k - 1) \in 1..(Len(s) - k) /\ i + 1 \in 1..Len(s)
      BY <2>3, <1>1, <1>4
    <3>2. q[i - (k - 1)] = s[k + (i - (k - 1))] /\ k + (i - (k - 1)) = i + 1
      BY <3>1, <1>3, <1>1
    <3> QED BY <3>1, <3>2, <2>1, <2>3, <1>1
  <2> QED BY <2>2, <2>3, <1>1
<1>6. ASSUME NEW i \in 1..Len(r), NEW j \in 1..Len(r), r[i] = r[j] PROVE i = j
  <2>1. pos(i) = pos(j)
    BY <1>5, <1>6
  <2> QED BY <2>1, <1>1, <1>4
<1>7. In(r) \subseteq In(s) \ {s[k]}
  BY <1>5 DEF In
<1>8. ASSUME NEW j \in 1..Len(s), s[j] # s[k] PROVE s[j] \in In(r)
  <2>1. \E i \in 1..Len(r) : pos(i) = j
    <3>1. CASE j < k
      <4>1. j \in 1..Len(r) /\ pos(j) = j
        BY <3>1, <1>1, <1>4
      <4> QED BY <4>1
    <3>2. CASE j > k
      <4>1. j - 1 \in 1..Len(r) /\ pos(j - 1) = j
        BY <3>2, <1>1, <1>4
      <4> QED BY <4>1
    <3> QED BY <3>1, <3>2, <1>1, <1>8
  <2> QED BY <2>1, <1>5 DEF In
<1>9. In(r) = In(s) \ {s[k]}
  <2>1. ASSUME NEW x \in In(s), x # s[k] PROVE x \in In(r)
    <3>1. PICK j \in 1..Len(s) : x = s[j]
      BY DEF In
    <3> QED BY <3>1, <2>1, <1>8
  <2> QED BY <2>1, <1>7
<1> QED BY <1>4, <1>6, <1>9 DEF r

-----------------------------------------------------------------------------
\* A channel in the list has authenticated; the list is sound, and a client
\* accepts only over an open link.
LInv ==
  /\ available \in Seq(Channels)
  /\ \A c \in In(available) : phase[c] # "connecting"
  /\ ListSound /\ AcceptNeedsLink

\* The cursor stays in the list when it is moved to the current channel.
LEMMA CurrentListed ==
  ASSUME LInv PROVE /\ Current \in In(available) \cup {NoChannel}
                    /\ Current # NoChannel => available # <<>>
<1>1. CASE available = <<>>
  BY <1>1 DEF Current
<1>2. CASE available # <<>>
  <2>1. 1 \in 1..Len(available) /\ Head(available) = available[1]
    BY <1>2 DEF LInv
  <2>2. Head(available) \in In(available)
    BY <2>1 DEF In
  <2> QED BY <1>2, <2>2 DEF Current, LInv, ListSound
<1> QED BY <1>1, <1>2

\* A step that leaves the list alone.
LEMMA SameList ==
  ASSUME LInv, available' = available, working \subseteq working',
         cursor' \in {cursor, Current}, allowAccept' => allowAccept \/ available # <<>>,
         \A c \in In(available) : phase'[c] # "connecting"
  PROVE  LInv'
<1>1. cursor' \in In(available) \cup {NoChannel}
  BY CurrentListed DEF LInv, ListSound
<1>2. In(available)' = In(available)
  BY DEF In
<1> QED BY <1>1, <1>2 DEF LInv, ListSound, AcceptNeedsLink

LEMMA InitLInv == Init => LInv
<1> SUFFICES ASSUME Init PROVE LInv
  OBVIOUS
<1>1. <<>> \in Seq(Channels) /\ In(<<>>) = {}
  BY DEF In
<1> QED BY <1>1 DEF Init, LInv, ListSound, AcceptNeedsLink

LEMMA OpenReleasedLInv ==
  ASSUME IInv, LInv, NEW new \in SUBSET Channels, NEW failed \in SUBSET new,
         OpenReleased(new, failed)
  PROVE  LInv'
<1>1. /\ phase' = [c \in Channels |-> IF c \in new \ failed THEN "connecting" ELSE phase[c]]
      /\ working' = working \cup (new \ failed)
      /\ UNCHANGED <<available, cursor, allowAccept>>
      /\ \A c \in new : c \notin working
  BY DEF OpenReleased, Fresh, flags
<1>2. \A c \in In(available) : c \in Channels /\ c \notin new /\ phase[c] # "connecting"
  BY <1>1 DEF LInv, ListSound, IInv, NodeTypes
<1>3. \A c \in In(available) : phase'[c] # "connecting"
  BY <1>1, <1>2
<1> QED BY <1>1, <1>3, SameList

LEMMA NextOfListed ==
  ASSUME NEW k \in 1..Len(available),
         \A i, j \in 1..Len(available) : available[i] = available[j] => i = j
  PROVE  NextOf(available[k])
           = IF k < Len(available) THEN available[k + 1] ELSE NoChannel
<1> DEFINE i == CHOOSE i \in 1..Len(available) : available[i] = available[k]
<1>1. i = k
  OBVIOUS
<1>2. NextOf(available[k]) = IF i < Len(available) THEN available[i + 1] ELSE NoChannel
  BY DEF NextOf
<1> HIDE DEF i
<1> QED BY <1>1, <1>2

\* The released socket, and no other, leaves the list.
LEMMA ReleaseList ==
  ASSUME LInv, NEW t \in Drivers, Release(t)
  PROVE  /\ available' \in Seq(Channels) /\ In(available') = In(available) \ {who[t]}
         /\ \A i, j \in 1..Len(available') : available'[i] = available'[j] => i = j
         /\ cursor' \in In(available') \cup {NoChannel}
<1> DEFINE c == who[t]
<1>1. CASE c \notin In(available)
  <2>1. UNCHANGED <<available, cursor>>
    BY <1>1 DEF Release
  <2> QED BY <2>1, <1>1 DEF LInv, ListSound
<1>2. CASE c \in In(available)
  <2>1. Unlist(c)
    BY <1>2 DEF Release
  <2>2. PICK k \in 1..Len(available) :
          available[k] = c /\ available' = RemoveAt(available, k)
    BY <2>1 DEF Unlist
  <2>0. /\ available \in Seq(Channels)
        /\ \A i, j \in 1..Len(available) : available[i] = available[j] => i = j
    BY DEF LInv, ListSound
  <2>3. /\ available' \in Seq(Channels) /\ In(available') = In(available) \ {c}
        /\ \A i, j \in 1..Len(available') : available'[i] = available'[j] => i = j
    <3> HIDE DEF c
    <3> QED BY <2>0, <2>2, InRemoveAt
  <2>4. NextOf(c) \in In(available') \cup {NoChannel}
    <3>3. NextOf(c) = IF k < Len(available) THEN available[k + 1] ELSE NoChannel
      BY <2>2, NextOfListed DEF LInv, ListSound
    <3>4. CASE k < Len(available)
      <4>1. k + 1 \in 1..Len(available) /\ k + 1 # k
        BY <3>4 DEF LInv
      <4>2. available[k + 1] # c
        BY <4>1, <2>2 DEF LInv, ListSound
      <4>3. available[k + 1] \in In(available)
        BY <4>1 DEF In
      <4> QED BY <4>2, <4>3, <3>3, <3>4, <2>3
    <3> QED BY <3>3, <3>4
  <2>5. cursor' = IF cursor = c THEN NextOf(c) ELSE cursor
    BY <2>1 DEF Unlist
  <2> QED BY <2>3, <2>4, <2>5 DEF LInv, ListSound
<1> QED BY <1>1, <1>2

LEMMA ReleaseLInv ==
  ASSUME IInv, LInv, NEW t \in Drivers, Release(t) PROVE LInv'
<1> DEFINE c == who[t]
<1>1. working' = working \ {c} /\ phase' = phase
  BY DEF Release
<1>2. /\ available' \in Seq(Channels) /\ In(available') = In(available) \ {c}
      /\ \A i, j \in 1..Len(available') : available'[i] = available'[j] => i = j
      /\ cursor' \in In(available') \cup {NoChannel}
  BY ReleaseList
<1>3. allowAccept' => available' # <<>>
  BY DEF Release, CloseLink
<1> QED BY <1>1, <1>2, <1>3 DEF LInv, ListSound, AcceptNeedsLink, In

LEMMA NextLInv == IInv /\ LInv /\ [Next]_vars => LInv'
<1> SUFFICES ASSUME IInv, LInv, [Next]_vars PROVE LInv'
  OBVIOUS
<1>0. Drivers \subseteq Threads
  BY DEF Drivers, Threads
<1>1. ASSUME Listen PROVE LInv'
  BY <1>1, OpenReleasedLInv DEF Listen
<1>2. ASSUME NEW new \in SUBSET Channels, NEW failed \in SUBSET new, Tick(new, failed)
      PROVE  LInv'
  BY <1>2, OpenReleasedLInv DEF Tick
<1>3. ASSUME NEW t \in Drivers, Release(t) PROVE LInv'
  BY <1>3, ReleaseLInv
<1>4. ASSUME NEW t \in Drivers, NEW c \in Channels, AbortBegin(t, c) PROVE LInv'
  <2>1. /\ phase' = [phase EXCEPT ![c] = "closed"]
        /\ UNCHANGED <<available, working, cursor, allowAccept>>
    BY <1>4 DEF AbortBegin, tables, flags
  <2>2. \A d \in In(available) : phase'[d] # "connecting"
    BY <2>1 DEF LInv, IInv, NodeTypes
  <2> QED BY <2>1, <2>2, SameList
<1>5. ASSUME NEW c \in Channels, Opened(c) PROVE LInv'
  <2>1. /\ phase[c] = "connecting" /\ phase' = [phase EXCEPT ![c] = "open"]
        /\ available' = Append(available, c)
        /\ UNCHANGED <<working, cursor, allowAccept>>
    BY <1>5 DEF Opened
  <2>2. c \in working /\ c \notin In(available)
    BY <2>1 DEF IInv, Held, LInv
  <2>3. /\ available' \in Seq(Channels) /\ available' # <<>>
        /\ In(available') = In(available) \cup {c}
        /\ \A i, j \in 1..Len(available') : available'[i] = available'[j] => i = j
    BY <2>1, <2>2, InAppend DEF LInv, ListSound
  <2>4. \A d \in In(available') : phase'[d] # "connecting"
    BY <2>1, <2>3 DEF LInv, IInv, NodeTypes
  <2>5. In(available)' = In(available')
    BY DEF In
  <2> QED BY <2>1, <2>2, <2>3, <2>4, <2>5 DEF LInv, ListSound, AcceptNeedsLink
<1>6. ASSUME Dispose PROVE LInv'
  <2>1. available' = <<>> /\ cursor' = NoChannel /\ allowAccept' = FALSE
    BY <1>6 DEF Dispose
  <2>2. <<>> \in Seq(Channels) /\ In(<<>>) = {} /\ In(available)' = In(available')
    BY DEF In
  <2> QED BY <2>1, <2>2 DEF LInv, ListSound, AcceptNeedsLink
<1>7. ASSUME NEW t \in Drivers,
             LinkLost(t) \/ AbortingVirtualSockets(t) \/ AbortAllVirtualSockets(t)
               \/ AbortAllServerSockets(t) \/ CloseServerSocket(t) \/ OnAbort(t)
      PROVE  LInv'
  <2>1. /\ UNCHANGED <<phase, available, working, allowAccept>>
        /\ cursor' \in {cursor, Current}
    BY <1>7 DEF LinkLost, AbortingVirtualSockets, AbortAllVirtualSockets,
                AbortAllServerSockets, CloseServerSocket, OnAbort, tables, flags
  <2> QED BY <2>1, SameList DEF LInv
<1>8. ASSUME NEW c \in Channels, Message(c) PROVE LInv'
  <2>1. UNCHANGED <<phase, available, working, allowAccept, cursor>>
    BY <1>8 DEF Message, AcceptClients, AbortClient, ServerAnnounced, Receives, tables
  <2> QED BY <2>1, SameList DEF LInv
<1>9. ASSUME AbortVirtualSockets PROVE LInv'
  <2>1. /\ UNCHANGED <<phase, available, working, allowAccept>>
        /\ cursor' \in {cursor, Current}
    BY <1>9 DEF AbortVirtualSockets, flags
  <2> QED BY <2>1, SameList DEF LInv
<1>10. ASSUME Elapse \/ UNCHANGED vars PROVE LInv'
  <2>1. UNCHANGED <<phase, available, working, allowAccept, cursor>>
    BY <1>10 DEF Elapse, vars, tables, flags
  <2> QED BY <2>1, SameList DEF LInv
<1>11. ASSUME Send \/ AllowAccept \/ Sending PROVE LInv'
  <2>1. /\ UNCHANGED <<phase, available, working>>
        /\ cursor' \in {cursor, Current}
    BY <1>11 DEF Send, AllowAccept, Sending, RawSendNext, RawSend, Cache, Sent,
                 DestroyObject, AllowAcceptSend, tables
  <2>2. allowAccept' => allowAccept \/ Current # NoChannel
    BY <1>11 DEF Send, AllowAccept, Sending, RawSendNext, RawSend, Cache, Sent,
                 DestroyObject, AllowAcceptSend, Sendable, flags
  <2> QED BY <2>1, <2>2, CurrentListed, SameList DEF LInv
<1> QED
  BY <1>1, <1>2, <1>3, <1>4, <1>5, <1>6, <1>7, <1>8, <1>9, <1>10, <1>11
  DEF Next, Losing

\* The list of available channels (MarkAvailableChannel, ReleaseChannel)
\* holds working sockets without repetition and its bare cursor stays inside.
LEMMA List == Safe => []ListSound
<1>1. LInv => ListSound
  BY DEF LInv
<1> QED BY InitIInv, NextIInv, InitLInv, NextLInv, <1>1, PTL DEF Safe

\* Nodes, list and cursor stay in step (AddChannel, MarkAvailableChannel and
\* ReleaseChannel), whatever fails, opens or is aborted.
THEOREM Soundness == Safe => []NodesSound
<1>1. NodesConserved /\ ListSound => NodesSound
  BY DEF NodesSound
<1> QED BY Nodes, List, <1>1, PTL

\* _allowAccept is never TRUE while the link is down (ProcessAbort).
THEOREM Acceptance == Safe => []AcceptNeedsLink
<1>1. LInv => AcceptNeedsLink
  BY DEF LInv
<1> QED BY InitIInv, NextIInv, InitLInv, NextLInv, <1>1, PTL DEF Safe

-----------------------------------------------------------------------------
(* The loss of the link.  While no channel is available, what the link has *)
(* left behind is still to be aborted by a thread that processes the loss, *)
(* and the application to be told by one.                                  *)

LossTypes ==
  /\ absOpened \in BOOLEAN /\ told \in BOOLEAN /\ crossed \in BOOLEAN
  /\ events \in [Drivers -> BOOLEAN]

OpenListed == \A c \in Channels : phase[c] = "open" => c \in In(available)

\* Threads that have not aborted the virtual sockets yet, or the server sockets.
Clearing(t) == pc[t] \in {"lost", "virtual", "aborting"}
Leaving(t) == pc[t] \in {"lost", "virtual", "aborting", "servers"}

LeftBehind ==
  available = <<>> =>
    /\ virtual = {} \/ \E t \in Drivers : Clearing(t)
    /\ servers = {} \/ \E t \in Drivers : Leaving(t)

Telling ==
  ~crossed =>
    /\ available # <<>> => told /\ \A t \in Drivers : ~Announcing(t)
    /\ available = <<>> /\ told => \E t \in Drivers : Announcing(t) /\ events[t]

SInv ==
  /\ LossTypes /\ OpenListed /\ LeftBehind /\ Telling
  /\ available # <<>> => absOpened

\* Once the client is disposed no channel works and no server socket is left,
\* and no thread is to announce a loss unless it was caught doing so.
GInv ==
  disposed => /\ working = {} /\ servers = {}
              /\ ~crossed => \A t \in Drivers : Announcing(t) => ~events[t]

LEMMA InitGInv == Init => GInv
  BY DEF Init, GInv

\* A step of a client that is not disposed and does not become so, or one that
\* tells no more threads to announce.
LEMMA SameGone ==
  ASSUME GInv, disposed' = disposed,
         disposed => /\ working' = working /\ servers' = servers
                     /\ UNCHANGED <<events, crossed>>
                     /\ \A t \in Drivers : Announcing(t)' => Announcing(t)
  PROVE  GInv'
  BY DEF GInv

LEMMA NextGInv == IInv /\ SInv /\ GInv /\ [Next]_vars => GInv'
<1> SUFFICES ASSUME IInv, SInv, GInv, [Next]_vars PROVE GInv'
  OBVIOUS
<1>0. /\ pc \in [Threads -> Labels] /\ "strand" \in Threads /\ "app" \in Threads
      /\ Drivers \subseteq Threads /\ "app" \notin Drivers
      /\ \A c \in Channels : phase[c] # "closed" => c \in working
      /\ \A t \in Drivers : At(t, "release") => who[t] \in working
  BY DEF IInv, NodeTypes, Held, Drivers, Threads
<1>1. ASSUME Listen \/ \E new \in SUBSET Channels : \E failed \in SUBSET new : Tick(new, failed)
      PROVE  GInv'
  <2>1. ~disposed /\ disposed' = disposed
    BY <1>1, Zenon DEF Listen, Tick
  <2> QED BY <2>1, SameGone
<1>2. ASSUME NEW t \in Drivers, Release(t) PROVE GInv'
  <2>1. disposed' = disposed /\ working # {}
    BY <1>0, <1>2 DEF Release
  <2> QED BY <2>1, SameGone DEF GInv
<1>3. ASSUME NEW t \in Drivers, NEW c \in Channels, AbortBegin(t, c) PROVE GInv'
  <2>1. disposed' = disposed /\ working # {}
    BY <1>0, <1>3 DEF AbortBegin
  <2> QED BY <2>1, SameGone DEF GInv
<1>4. ASSUME NEW c \in Channels, Opened(c) \/ Message(c) PROVE GInv'
  <2>1. disposed' = disposed /\ working # {}
    BY <1>0, <1>4 DEF Opened, Message, AcceptClients, AbortClient, ServerAnnounced,
                      Receives
  <2> QED BY <2>1, SameGone DEF GInv
<1>5. ASSUME Dispose PROVE GInv'
  <2>1. /\ working' = {} /\ servers' = {} /\ UNCHANGED <<pc, events>>
        /\ crossed' = (crossed \/ \E t \in Drivers : Announcing(t) /\ events[t])
    BY <1>5 DEF Dispose, losing
  <2>2. \A t \in Drivers : Announcing(t)' <=> Announcing(t)
    BY <2>1 DEF Announcing
  <2> QED BY <2>1, <2>2 DEF GInv
<1>6. ASSUME NEW t \in Drivers,
             LinkLost(t) \/ AbortingVirtualSockets(t) \/ AbortAllVirtualSockets(t)
               \/ AbortAllServerSockets(t) \/ CloseServerSocket(t) \/ OnAbort(t)
      PROVE  GInv'
  <2>1. /\ UNCHANGED <<disposed, working, crossed>> /\ servers' \subseteq servers
        /\ events' = events \/ events' = [events EXCEPT ![t] = FALSE]
    BY <1>6 DEF LinkLost, AbortingVirtualSockets, AbortAllVirtualSockets, tables,
                AbortAllServerSockets, CloseServerSocket, OnAbort, remote, losing
  <2>2. \A u \in Drivers : u # t => pc'[u] = pc[u]
    BY <1>0, <1>6 DEF LinkLost, AbortingVirtualSockets, AbortAllVirtualSockets,
                      AbortAllServerSockets, CloseServerSocket, OnAbort, Goto
  <2>3. Announcing(t)
    BY <1>6 DEF LinkLost, AbortingVirtualSockets, AbortAllVirtualSockets,
                AbortAllServerSockets, CloseServerSocket, OnAbort, At, Announcing
  <2>4. \A u \in Drivers : Announcing(u)' => Announcing(u)
    BY <2>2, <2>3 DEF Announcing
  <2>5. \A u \in Drivers : ~events[u] => ~events'[u]
    BY <2>1 DEF SInv, LossTypes
  <2> QED BY <2>1, <2>4, <2>5 DEF GInv
<1>7. ASSUME AbortVirtualSockets PROVE GInv'
  <2>1. /\ UNCHANGED <<disposed, working, servers, events, crossed>>
        /\ pc' = [pc EXCEPT !["strand"] = "idle"]
    BY <1>7 DEF AbortVirtualSockets, losing, Goto
  <2>2. \A u \in Drivers : Announcing(u)' => Announcing(u)
    BY <1>0, <2>1 DEF Announcing
  <2> QED BY <2>1, <2>2, SameGone
<1>8. ASSUME Elapse \/ UNCHANGED vars PROVE GInv'
  <2>1. UNCHANGED <<disposed, working, servers, events, crossed, pc>>
    BY <1>8 DEF Elapse, vars, tables, remote, losing
  <2> QED BY <2>1, SameGone DEF Announcing
<1>9. ASSUME Send \/ AllowAccept \/ Sending PROVE GInv'
  <2>1. UNCHANGED <<disposed, working, servers, events, crossed>>
    BY <1>9 DEF Send, AllowAccept, Sending, RawSendNext, RawSend, Cache, Sent,
                DestroyObject, AllowAcceptSend, tables, remote, losing
  <2>2. \A u \in Drivers : pc'[u] = pc[u]
    <3>1. ASSUME NEW u \in Drivers, NEW l, pc' = [pc EXCEPT !["app"] = l]
          PROVE  pc'[u] = pc[u]
      BY <1>0, <3>1
    <3>2. \E l : pc' = [pc EXCEPT !["app"] = l]
      <4>1. pc = [pc EXCEPT !["app"] = pc["app"]]
        BY <1>0
      <4>2. CASE RawSendNext
        BY <4>1, <4>2, Zenon DEF RawSendNext, Goto
      <4>3. CASE Send \/ AllowAccept \/ RawSend \/ Cache \/ DestroyObject \/ AllowAcceptSend
        BY <4>3, Zenon DEF Send, AllowAccept, RawSend, Cache, Sent, DestroyObject,
                           AllowAcceptSend, Goto
      <4> QED BY <1>9, <4>2, <4>3 DEF Sending
    <3> QED BY <3>1, <3>2
  <2> QED BY <2>1, <2>2, SameGone DEF Announcing
<1> QED
  BY <1>1, <1>2, <1>3, <1>4, <1>5, <1>6, <1>7, <1>8, <1>9
  DEF Next, Losing

LEMMA SInvInit == Init => SInv
<1> SUFFICES ASSUME Init PROVE SInv
  OBVIOUS
<1>1. LossTypes
  BY DEF Init, LossTypes
<1>2. OpenListed
  BY DEF Init, OpenListed
<1>3. LeftBehind /\ Telling /\ (available # <<>> => absOpened)
  BY DEF Init, LeftBehind, Telling
<1> QED BY <1>1, <1>2, <1>3 DEF SInv

\* A step that keeps the list, the flags and what the drivers do about a loss,
\* and leaves nothing new behind without a channel.
LEMMA SameLoss ==
  ASSUME SInv, UNCHANGED <<available, absOpened, told, crossed, events>>,
         OpenListed',
         \A t \in Drivers : pc'[t] = pc[t] \/ (~Announcing(t) /\ ~Announcing(t)'),
         available = <<>> => /\ virtual = {} => virtual' = {}
                             /\ servers = {} => servers' = {}
  PROVE  SInv'
<1>1. \A t \in Drivers : /\ Announcing(t)' <=> Announcing(t)
                         /\ Clearing(t)' <=> Clearing(t)
                         /\ Leaving(t)' <=> Leaving(t)
  BY DEF Announcing, Clearing, Leaving
<1>2. LossTypes'
  BY DEF SInv, LossTypes
<1>3. LeftBehind'
  BY <1>1 DEF SInv, LeftBehind
<1>4. Telling'
  BY <1>1, Zenon DEF SInv, Telling
<1> QED BY <1>2, <1>3, <1>4 DEF SInv

LEMMA SameOpen ==
  ASSUME OpenListed, UNCHANGED <<phase, available>>
  PROVE  OpenListed'
  BY DEF OpenListed, In

LEMMA OpenReleasedSInv ==
  ASSUME SInv, NEW new \in SUBSET Channels, NEW failed \in SUBSET new,
         OpenReleased(new, failed), UNCHANGED <<pc, told, crossed, events>>
  PROVE  SInv'
<1>1. /\ phase' = [c \in Channels |-> IF c \in new \ failed THEN "connecting"
                                      ELSE phase[c]]
      /\ UNCHANGED <<available, absOpened>>
      /\ virtual' = {} \/ virtual' = virtual
      /\ servers' = {} \/ servers' = servers
  BY DEF OpenReleased, flags, remote
<1>2. \A c \in Channels : phase'[c] = "open" => phase[c] = "open"
  BY <1>1
<1>3. OpenListed'
  BY <1>1, <1>2 DEF SInv, OpenListed, In
<1> QED BY <1>1, <1>3, SameLoss

LEMMA ReleaseSInv ==
  ASSUME IInv, LInv, SInv, NEW t \in Drivers, Release(t)
  PROVE  SInv'
<1>1. /\ At(t, "release") /\ phase[who[t]] = "closed"
      /\ In(available') = In(available) \ {who[t]}
      /\ pc \in [Threads -> Labels] /\ t \in Threads
      /\ UNCHANGED <<phase, virtual, servers, told, crossed>>
  BY ReleaseList DEF Release, IInv, Held, NodeTypes, Drivers, Threads, remote
<1>2. OpenListed'
  <2>1. In(available)' = In(available')
    BY DEF In
  <2> QED BY <1>1, <2>1 DEF SInv, OpenListed
<1>3. \A u \in Drivers : u # t => pc'[u] = pc[u] /\ u \in Threads
  BY <1>1 DEF Release, Goto, Drivers, Threads
<1>4. pc[t] = "release" /\ ~Announcing(t)
  BY <1>1 DEF At, Announcing
<1>5. CASE available' = <<>>
  <2>1. pc'[t] = "lost" /\ absOpened' = FALSE /\ events' = [events EXCEPT ![t] = absOpened]
    BY <1>1, <1>5 DEF Release, CloseLink, Goto
  <2>2. LossTypes'
    BY <1>1, <2>1 DEF SInv, LossTypes
  <2>3. Clearing(t)' /\ Leaving(t)' /\ Announcing(t)'
    BY <2>1 DEF Clearing, Leaving, Announcing
  <2>4. LeftBehind'
    BY <2>3 DEF LeftBehind
  <2>5. Telling'
    <3> SUFFICES ASSUME ~crossed, told PROVE \E u \in Drivers : Announcing(u)' /\ events'[u]
      BY <1>1, <1>5 DEF Telling
    <3>1. CASE available # <<>>
      <4>1. events'[t]
        BY <2>1, <3>1 DEF SInv, LossTypes
      <4> QED BY <2>3, <4>1
    <3>2. CASE available = <<>>
      <4>1. PICK u \in Drivers : Announcing(u) /\ events[u]
        BY <3>2 DEF SInv, Telling
      <4>2. u # t
        BY <1>4, <4>1
      <4>3. Announcing(u)' /\ events'[u]
        BY <1>3, <2>1, <4>1, <4>2 DEF Announcing, SInv, LossTypes
      <4> QED BY <4>3
    <3> QED BY <3>1, <3>2
  <2> QED BY <1>2, <1>5, <2>2, <2>4, <2>5 DEF SInv
<1>6. CASE available' # <<>>
  <2>1. pc'[t] = "idle" /\ UNCHANGED <<absOpened, events>>
    BY <1>1, <1>6 DEF Release, Goto, flags
  <2>2. available # <<>>
    <3>1. available' = available \/ In(available) # {}
      BY DEF Release, Unlist
    <3>2. In(<<>>) = {}
      BY DEF In
    <3> QED BY <1>6, <3>1, <3>2
  <2>3. LossTypes'
    BY <1>1, <2>1 DEF SInv, LossTypes
  <2>4. \A u \in Drivers : Announcing(u)' => Announcing(u)
    BY <1>3, <2>1 DEF Announcing
  <2>5. Telling'
    BY <1>1, <1>6, <2>2, <2>4 DEF SInv, Telling
  <2>6. LeftBehind'
    BY <1>6 DEF LeftBehind
  <2> QED BY <1>2, <2>1, <2>2, <2>3, <2>5, <2>6 DEF SInv
<1> QED BY <1>5, <1>6

\* The rest of ProcessAbort, one duty after the other.
LEMMA LosingSInv ==
  ASSUME IInv, SInv, GInv, NEW t \in Drivers,
         LinkLost(t) \/ AbortingVirtualSockets(t) \/ AbortAllVirtualSockets(t)
           \/ AbortAllServerSockets(t) \/ CloseServerSocket(t) \/ OnAbort(t)
  PROVE  SInv'
<1>0. pc \in [Threads -> Labels] /\ t \in Threads /\ Drivers \subseteq Threads
  BY DEF IInv, NodeTypes, Drivers, Threads
<1>1. UNCHANGED <<phase, available, absOpened, crossed>>
  BY DEF LinkLost, AbortingVirtualSockets, AbortAllVirtualSockets,
         AbortAllServerSockets, CloseServerSocket, OnAbort, tables, flags
<1>2. OpenListed'
  BY <1>1, SameOpen DEF SInv
<1>3. \A u \in Drivers : u # t => pc'[u] = pc[u]
  BY <1>0 DEF LinkLost, AbortingVirtualSockets, AbortAllVirtualSockets,
              AbortAllServerSockets, CloseServerSocket, OnAbort, Goto
<1>4. \A u \in Drivers : u # t => /\ Announcing(u)' <=> Announcing(u)
                                  /\ Clearing(u)' <=> Clearing(u)
                                  /\ Leaving(u)' <=> Leaving(u)
  BY <1>3 DEF Announcing, Clearing, Leaving
<1>5. Announcing(t)
  BY DEF LinkLost, AbortingVirtualSockets, AbortAllVirtualSockets,
         AbortAllServerSockets, CloseServerSocket, OnAbort, At, Announcing
<1>6. /\ virtual' = virtual \/ virtual' = {}
      /\ servers' \subseteq servers
      /\ Clearing(t) => Clearing(t)' \/ virtual' = {}
      /\ Leaving(t) => Leaving(t)' \/ servers' = {}
  <2>1. CASE LinkLost(t)
    BY <1>0, <2>1 DEF LinkLost, At, Goto, Clearing, Leaving, remote
  <2>2. CASE AbortingVirtualSockets(t)
    BY <1>0, <2>2 DEF AbortingVirtualSockets, At, Goto, Clearing, Leaving, remote
  <2>3. CASE AbortAllVirtualSockets(t)
    BY <1>0, <2>3 DEF AbortAllVirtualSockets, At, Goto, Clearing, Leaving
  <2>4. CASE AbortAllServerSockets(t)
    BY <1>0, <2>4 DEF AbortAllServerSockets, At, Goto, Clearing, Leaving, GInv
  <2>5. CASE CloseServerSocket(t)
    BY <1>0, <2>5 DEF CloseServerSocket, At, Clearing, Leaving
  <2>6. CASE OnAbort(t)
    BY <1>0, <2>6 DEF OnAbort, At, Goto, Clearing, Leaving, remote
  <2> QED BY <2>1, <2>2, <2>3, <2>4, <2>5, <2>6
<1>7. LeftBehind'
  BY <1>1, <1>4, <1>6 DEF SInv, LeftBehind
<1>8. CASE OnAbort(t)
  <2>1. /\ told' = (told /\ (events[t] => disposed)) /\ events' = [events EXCEPT ![t] = FALSE]
        /\ pc'[t] = "idle"
    BY <1>0, <1>8 DEF OnAbort, Goto
  <2>2. LossTypes'
    BY <1>1, <2>1 DEF SInv, LossTypes
  <2>3. Telling'
    <3> SUFFICES ASSUME ~crossed PROVE /\ available = <<>>
                                       /\ told' => \E u \in Drivers : Announcing(u)' /\ events'[u]
      BY <1>1 DEF Telling
    <3>1. available = <<>>
      BY <1>5 DEF SInv, Telling
    <3>2. ASSUME told' PROVE \E u \in Drivers : Announcing(u)' /\ events'[u]
      <4>1. told /\ (events[t] => disposed)
        BY <2>1, <3>2
      <4>2. PICK u \in Drivers : Announcing(u) /\ events[u]
        BY <3>1, <4>1 DEF SInv, Telling
      <4>3. u # t
        BY <1>5, <4>1, <4>2 DEF GInv
      <4>4. Announcing(u)' /\ events'[u]
        BY <1>4, <2>1, <4>2, <4>3 DEF SInv, LossTypes
      <4> QED BY <4>4
    <3> QED BY <3>1, <3>2
  <2> QED BY <1>1, <1>2, <1>7, <2>2, <2>3 DEF SInv
<1>9. CASE ~OnAbort(t)
  <2>1. UNCHANGED <<told, events>>
    BY <1>9 DEF LinkLost, AbortingVirtualSockets, AbortAllVirtualSockets,
                AbortAllServerSockets, CloseServerSocket, losing
  <2>2. Announcing(t)'
    BY <1>0, <1>5, <1>9 DEF LinkLost, AbortingVirtualSockets, AbortAllVirtualSockets,
         AbortAllServerSockets, CloseServerSocket, Goto, Announcing
  <2>3. LossTypes'
    BY <1>1, <2>1 DEF SInv, LossTypes
  <2>4. Telling'
    BY <1>1, <1>4, <1>5, <2>1, <2>2, Zenon DEF SInv, Telling
  <2> QED BY <1>1, <1>2, <1>7, <2>3, <2>4 DEF SInv
<1> QED BY <1>8, <1>9

LEMMA NextSInv == IInv /\ LInv /\ SInv /\ GInv /\ [Next]_vars => SInv'
<1> SUFFICES ASSUME IInv, LInv, SInv, GInv, [Next]_vars PROVE SInv'
  OBVIOUS
<1>0. /\ pc \in [Threads -> Labels] /\ "strand" \in Threads /\ "app" \in Threads
      /\ Drivers \subseteq Threads /\ "app" \notin Drivers /\ OpenListed
  BY DEF IInv, SInv, NodeTypes, Drivers, Threads
<1>1. ASSUME Listen PROVE SInv'
  <2>1. PICK new \in SUBSET Channels : \E failed \in SUBSET new : OpenReleased(new, failed)
    BY <1>1 DEF Listen
  <2>2. UNCHANGED <<pc, told, crossed, events>>
    BY <1>1 DEF Listen, losing
  <2> QED BY <2>1, <2>2, OpenReleasedSInv
<1>2. ASSUME NEW new \in SUBSET Channels, NEW failed \in SUBSET new, Tick(new, failed)
      PROVE  SInv'
  BY <1>2, OpenReleasedSInv DEF Tick, losing
<1>3. ASSUME NEW t \in Drivers, Release(t) PROVE SInv'
  BY <1>3, ReleaseSInv
<1>4. ASSUME NEW t \in Drivers, NEW c \in Channels, AbortBegin(t, c) PROVE SInv'
  <2>1. /\ phase' = [phase EXCEPT ![c] = "closed"] /\ pc' = [pc EXCEPT ![t] = "release"]
        /\ pc[t] = "idle"
        /\ UNCHANGED <<available, absOpened, told, crossed, events, virtual, servers>>
    BY <1>4 DEF AbortBegin, tables, flags, remote, losing, At, Goto
  <2>2. OpenListed'
    <3>1. \A d \in Channels : phase'[d] = "open" => phase[d] = "open"
      BY <2>1 DEF IInv, NodeTypes
    <3> QED BY <1>0, <2>1, <3>1 DEF OpenListed, In
  <2>3. \A u \in Drivers : pc'[u] = pc[u] \/ (~Announcing(u) /\ ~Announcing(u)')
    BY <1>0, <2>1 DEF Announcing
  <2> QED BY <2>1, <2>2, <2>3, SameLoss
<1>5. ASSUME NEW c \in Channels, Opened(c) PROVE SInv'
  <2>1. /\ phase[c] = "connecting" /\ phase' = [phase EXCEPT ![c] = "open"]
        /\ available' = Append(available, c)
        /\ absOpened' = TRUE /\ UNCHANGED <<pc, events, virtual, servers>>
        /\ available = <<>> => told' = TRUE
        /\ available # <<>> => told' = told
        /\ crossed' = (crossed \/ \E t \in Drivers : Announcing(t))
    BY <1>5 DEF Opened, remote, adapter, losing
  <2>2. /\ available' # <<>> /\ In(available') = In(available) \cup {c}
    <3>1. c \notin In(available)
      BY <2>1 DEF IInv, Held, LInv
    <3> QED BY <2>1, <3>1, InAppend DEF LInv, ListSound
  <2>3. OpenListed'
    <3>1. In(available)' = In(available')
      BY DEF In
    <3>2. \A d \in Channels : phase'[d] = "open" => d = c \/ phase[d] = "open"
      BY <2>1 DEF IInv, NodeTypes
    <3> QED BY <1>0, <2>2, <3>1, <3>2 DEF OpenListed
  <2>4. LossTypes'
    BY <2>1 DEF SInv, LossTypes
  <2>5. \A t \in Drivers : Announcing(t)' <=> Announcing(t)
    BY <2>1 DEF Announcing
  <2>6. Telling'
    <3>1. SUFFICES ASSUME ~crossed'
                   PROVE  told' /\ \A t \in Drivers : ~Announcing(t)'
      BY <2>2 DEF Telling
    <3>2. ~crossed /\ \A t \in Drivers : ~Announcing(t)
      BY <2>1, <3>1
    <3>3. told'
      BY <2>1, <3>2 DEF SInv, Telling
    <3> QED BY <2>5, <3>2, <3>3
  <2>7. LeftBehind'
    BY <2>2 DEF LeftBehind
  <2> QED BY <2>1, <2>3, <2>4, <2>6, <2>7 DEF SInv
<1>6. ASSUME Dispose PROVE SInv'
  <2>1. /\ available' = <<>> /\ virtual' = {} /\ servers' = {}
        /\ told' = (told /\ available = <<>>)
        /\ absOpened' = FALSE /\ UNCHANGED <<events, pc>>
        /\ crossed' = (crossed \/ \E t \in Drivers : Announcing(t) /\ events[t])
        /\ phase' = [c \in Channels |-> IF c \in working THEN "closed" ELSE phase[c]]
    BY <1>6 DEF Dispose, TellDisposed, losing
  <2>2. OpenListed'
    BY <2>1 DEF IInv, Held, OpenListed
  <2>3. LossTypes'
    BY <2>1 DEF SInv, LossTypes
  <2>4. Telling'
    BY <2>1 DEF SInv, Telling
  <2> QED BY <2>1, <2>2, <2>3, <2>4 DEF SInv, LeftBehind
<1>7. ASSUME NEW t \in Drivers,
             LinkLost(t) \/ AbortingVirtualSockets(t) \/ AbortAllVirtualSockets(t)
               \/ AbortAllServerSockets(t) \/ CloseServerSocket(t) \/ OnAbort(t)
      PROVE  SInv'
  BY <1>7, LosingSInv
<1>8. ASSUME NEW c \in Channels, Message(c) PROVE SInv'
  <2>1. /\ UNCHANGED <<phase, available, absOpened, told, crossed, events>>
        /\ pc["strand"] = "idle" /\ phase[c] = "open"
    BY <1>8 DEF Message, AcceptClients, AbortClient, ServerAnnounced, Receives, tables, losing, At
  <2>2. pc' = pc \/ pc' = [pc EXCEPT !["strand"] = "outside"]
                 \/ pc' = [pc EXCEPT !["strand"] = "prevented"]
    BY <1>8, Zenon DEF Message, AcceptClients, AbortClient, ServerAnnounced, Aborting, Goto
  <2>3. available # <<>>
    <3>1. c \in In(available) /\ In(<<>>) = {}
      BY <1>0, <2>1 DEF OpenListed, In
    <3> QED BY <3>1
  <2>4. \A u \in Drivers : pc'[u] = pc[u] \/ (~Announcing(u) /\ ~Announcing(u)')
    BY <1>0, <2>1, <2>2 DEF Announcing
  <2>5. OpenListed'
    BY <1>0, <2>1, SameOpen
  <2> QED BY <2>1, <2>3, <2>4, <2>5, SameLoss
<1>9. ASSUME AbortVirtualSockets PROVE SInv'
  <2>1. /\ UNCHANGED <<phase, available, absOpened, told, crossed, events, servers>>
        /\ virtual' = virtual \ leaving
        /\ pc["strand"] \in {"outside", "prevented"}
        /\ pc' = [pc EXCEPT !["strand"] = "idle"]
    BY <1>9 DEF AbortVirtualSockets, flags, losing, Goto
  <2>2. \A u \in Drivers : pc'[u] = pc[u] \/ (~Announcing(u) /\ ~Announcing(u)')
    BY <1>0, <2>1 DEF Announcing
  <2>3. OpenListed'
    BY <1>0, <2>1, SameOpen
  <2> QED BY <2>1, <2>2, <2>3, SameLoss
<1>10. ASSUME Elapse \/ UNCHANGED vars PROVE SInv'
  <2>1. UNCHANGED <<phase, available, absOpened, told, crossed, events, virtual, servers, pc>>
    BY <1>10 DEF Elapse, vars, tables, flags, remote, losing
  <2>2. OpenListed'
    BY <1>0, <2>1, SameOpen
  <2> QED BY <2>1, <2>2, SameLoss
<1>11. ASSUME Send \/ AllowAccept \/ Sending PROVE SInv'
  <2>1. /\ UNCHANGED <<phase, available, absOpened, told, crossed, events, servers>>
        /\ virtual' \subseteq virtual
    BY <1>11 DEF Send, AllowAccept, Sending, RawSendNext, RawSend, Cache, Sent,
                 DestroyObject, AllowAcceptSend, tables, flags, remote, losing
  <2>2. \A u \in Drivers : pc'[u] = pc[u]
    <3>1. ASSUME NEW u \in Drivers, NEW l, pc' = [pc EXCEPT !["app"] = l]
          PROVE  pc'[u] = pc[u]
      BY <1>0, <3>1
    <3>2. \E l : pc' = [pc EXCEPT !["app"] = l]
      <4>1. pc = [pc EXCEPT !["app"] = pc["app"]]
        BY <1>0
      <4>2. CASE RawSendNext
        BY <4>1, <4>2, Zenon DEF RawSendNext, Goto
      <4>3. CASE Send \/ AllowAccept \/ RawSend \/ Cache \/ DestroyObject \/ AllowAcceptSend
        BY <4>3, Zenon DEF Send, AllowAccept, RawSend, Cache, Sent, DestroyObject,
                           AllowAcceptSend, Goto
      <4> QED BY <1>11, <4>2, <4>3 DEF Sending
    <3> QED BY <3>1, <3>2
  <2>3. OpenListed'
    BY <1>0, <2>1, SameOpen
  <2> QED BY <2>1, <2>2, <2>3, SameLoss
<1> QED
  BY <1>1, <1>2, <1>3, <1>4, <1>5, <1>6, <1>7, <1>8, <1>9, <1>10, <1>11
  DEF Next, Losing

\* When no loss is being processed, nothing of a lost link is left and the
\* application knows whether there is one (ProcessAbort, ProcessOpen), however
\* many channels come and go on both threads meanwhile.
THEOREM Settling == Safe => []LossSettled
<1>1. SInv => LossSettled
  BY DEF SInv, LeftBehind, Telling, LossSettled, Quiet, At, Clearing, Leaving, Announcing
<1> QED
  BY InitIInv, NextIInv, InitLInv, NextLInv, SInvInit, NextSInv, InitGInv, NextGInv,
     <1>1, PTL DEF Safe
=============================================================================
