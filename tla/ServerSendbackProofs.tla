------------------------- MODULE ServerSendbackProofs -------------------------
(* Theorems about the sendback controller, for every number of packets and *)
(* channels and all settings.                                              *)
EXTENDS ServerSendback, SequenceTheorems, TLAPS

\* What Append and Tail do to the members of a sequence.
LEMMA InAppend ==
  ASSUME NEW S, NEW s \in Seq(S), NEW x \in S
  PROVE  /\ Append(s, x) \in Seq(S)
         /\ In(Append(s, x)) = In(s) \cup {x}
         /\ Distinct(s) /\ x \notin In(s) => Distinct(Append(s, x))
<1> DEFINE a == Append(s, x)
<1>1. /\ a \in Seq(S) /\ Len(a) = Len(s) + 1 /\ Len(s) \in Nat
      /\ \A i \in 1..Len(s) : a[i] = s[i]
      /\ a[Len(s) + 1] = x
  OBVIOUS
<1>2. 1..Len(a) = (1..Len(s)) \cup {Len(s) + 1}
  BY <1>1
<1>3. In(a) = In(s) \cup {x}
  <2>1. In(a) = {a[i] : i \in 1..Len(s)} \cup {a[Len(s) + 1]}
    BY <1>2 DEF In
  <2> QED BY <2>1, <1>1 DEF In
<1>4. ASSUME Distinct(s), x \notin In(s) PROVE Distinct(a)
  <2> SUFFICES ASSUME NEW i \in 1..Len(a), NEW j \in 1..Len(a), a[i] = a[j]
               PROVE  i = j
    BY DEF Distinct
  <2>1. CASE i \in 1..Len(s) /\ j \in 1..Len(s)
    BY <2>1, <1>1, <1>4 DEF Distinct
  <2>2. CASE i \in 1..Len(s) /\ j = Len(s) + 1
    BY <2>2, <1>1, <1>4 DEF In
  <2>3. CASE i = Len(s) + 1 /\ j \in 1..Len(s)
    BY <2>3, <1>1, <1>4 DEF In
  <2> QED BY <2>1, <2>2, <2>3, <1>2
<1> QED BY <1>1, <1>3, <1>4

LEMMA InTail ==
  ASSUME NEW S, NEW s \in Seq(S), s # <<>>
  PROVE  /\ Tail(s) \in Seq(S) /\ Head(s) \in S
         /\ In(Tail(s)) \subseteq In(s) /\ Head(s) \in In(s)
         /\ Distinct(s) => Distinct(Tail(s)) /\ Head(s) \notin In(Tail(s))
<1> DEFINE r == Tail(s)
<1>1. /\ r \in Seq(S) /\ Len(s) \in Nat /\ Len(s) >= 1 /\ Len(r) = Len(s) - 1
      /\ \A i \in 1..Len(r) : r[i] = s[i + 1] /\ i + 1 \in 1..Len(s)
      /\ Head(s) = s[1] /\ 1 \in 1..Len(s) /\ s[1] \in S
  OBVIOUS
<1>2. In(r) \subseteq In(s) /\ Head(s) \in In(s)
  BY <1>1 DEF In
<1>3. ASSUME Distinct(s) PROVE Distinct(r) /\ Head(s) \notin In(r)
  <2>1. ASSUME NEW i \in 1..Len(r), NEW j \in 1..Len(r), r[i] = r[j]
        PROVE  i = j
    <3>1. s[i + 1] = s[j + 1] /\ i + 1 \in 1..Len(s) /\ j + 1 \in 1..Len(s)
      BY <2>1, <1>1
    <3>2. i + 1 = j + 1
      BY <3>1, <1>3 DEF Distinct
    <3> QED BY <3>2
  <2>2. ASSUME NEW i \in 1..Len(r), r[i] = Head(s) PROVE FALSE
    <3>1. s[i + 1] = s[1] /\ i + 1 \in 1..Len(s) /\ 1 \in 1..Len(s)
      BY <2>2, <1>1
    <3>2. i + 1 = 1
      BY <3>1, <1>3 DEF Distinct
    <3> QED BY <3>2, <1>1
  <2> QED BY <2>1, <2>2 DEF Distinct, In
<1> QED BY <1>1, <1>2, <1>3

LEMMA InType == \A s \in Seq(Packets) : In(s) \subseteq Nat
BY SendbackAssumption DEF In, Packets

LEMMA EmptyIn == In(<<>>) = {} /\ Distinct(<<>>) /\ <<>> \in Seq(Packets)
<1>1. <<>> \in Seq(Packets)
  OBVIOUS
<1> QED BY <1>1 DEF In, Distinct

\* The variables of the hub, and those of the packets.
HubOK ==
  /\ table \in Channels \cup {NoChannel}
  /\ members \in [Channels -> SUBSET Channels] /\ live \subseteq Channels
  /\ pc \in [Threads -> Labels]
  /\ who \in [Threads -> Channels \cup {NoChannel}]
  /\ vec \in [Threads -> Channels \cup {NoChannel}]
  /\ target \in Channels \cup {NoChannel}

CacheOK ==
  /\ known \in BOOLEAN /\ disposed \in BOOLEAN
  /\ age \in 0..MaxAge
  /\ cachedPacketSize \in Nat /\ cachedQueueCount \in Nat
  /\ cachedContexts \in Seq(Packets)
  /\ batch \in Seq(Packets) /\ delivered \in Seq(Packets)
  /\ next \in 1..(MaxPackets + 1) /\ late \subseteq Packets

\* A login has locked its channel, and a packet is on its way.
Busy ==
  /\ At("strand", "insert") => who["strand"] \in Channels
  /\ pc["strand"] \in {"send", "keep"} => next \in Packets

LEMMA TypeSplit == TypeOK <=> HubOK /\ CacheOK
BY Zenon DEF TypeOK, HubOK, CacheOK

LEMMA SettleTypes ==
  ASSUME NEW t, NEW in \in [Channels -> SUBSET Channels],
         NEW alive \in SUBSET Channels, Settle(t, in, alive)
  PROVE  /\ members' \in [Channels -> SUBSET Channels] /\ live' \subseteq Channels
         /\ \A v \in Channels : members'[v] \subseteq in[v]
BY DEF Settle

\* What the login and the loss of a channel change.
LoginStep == (\E c \in Channels : ServerAuth(c)) \/ ServerAuthInsert \/ ServerAuthDone
LosingStep(t) == Losing(t) \/ \E c \in Channels : ChannelLost(t, c)

\* A thread that goes on, returns or lets go of its vector stays well typed.
LEMMA GoneTypes ==
  ASSUME HubOK, NEW t \in Threads, Release(t), UNCHANGED <<table, target>>,
         \/ (\E l \in Labels : Goto(t, l)) /\ UNCHANGED who
         \/ Goto(t, "idle") /\ who' = [who EXCEPT ![t] = NoChannel]
  PROVE  HubOK'
<1>1. members' \in [Channels -> SUBSET Channels] /\ live' \subseteq Channels
  BY SettleTypes DEF Release, HubOK
<1>2. vec' \in [Threads -> Channels \cup {NoChannel}]
  BY DEF Release, HubOK
<1>3. pc' \in [Threads -> Labels] /\ who' \in [Threads -> Channels \cup {NoChannel}]
  BY DEF Goto, HubOK, Labels
<1> QED BY <1>1, <1>2, <1>3 DEF HubOK

LEMMA LosingTypes ==
  ASSUME HubOK, NEW t \in Threads, LosingStep(t) PROVE HubOK'
<1>r. ASSUME Return(t), UNCHANGED <<table, target>> PROVE HubOK'
  BY <1>r, GoneTypes DEF Return
<1>1. CASE AbortFind(t)
  <2>1. CASE table = NoChannel
    BY <1>1, <2>1, <1>r DEF AbortFind
  <2>2. CASE table # NoChannel
    BY <1>1, <2>2 DEF AbortFind, HubOK, Goto, Labels
  <2> QED BY <2>1, <2>2
<1>2. CASE AbortRemove(t)
  <2>1. CASE who[t] \notin members[vec[t]]
    BY <1>2, <2>1, <1>r DEF AbortRemove
  <2>2. CASE who[t] \in members[vec[t]]
    <3>1. members' = [members EXCEPT ![vec[t]] = @ \ {who[t]}]
      BY <1>2, <2>2 DEF AbortRemove
    <3>2. members' \in [Channels -> SUBSET Channels]
      BY <3>1 DEF HubOK
    <3> QED BY <1>2, <2>2, <3>2 DEF AbortRemove, HubOK, Goto, Labels
  <2> QED BY <2>1, <2>2
<1>3. CASE AbortErase(t)
  <2>1. members' \in [Channels -> SUBSET Channels] /\ live' \subseteq Channels
    BY <1>3, SettleTypes DEF AbortErase, HubOK
  <2>2. table' \in {table, NoChannel} /\ UNCHANGED <<who, vec, target>>
    BY <1>3 DEF AbortErase
  <2>3. pc' \in [Threads -> Labels]
    BY <1>3 DEF AbortErase, Goto, HubOK, Labels
  <2> QED BY <2>1, <2>2, <2>3 DEF HubOK
<1>4. CASE AbortRecheck(t)
  <2>1. CASE members[vec[t]] # {}
    BY <1>4, <2>1, <1>r DEF AbortRecheck
  <2>2. CASE members[vec[t]] = {}
    BY <1>4, <2>2, GoneTypes DEF AbortRecheck, Labels
  <2> QED BY <2>1, <2>2
<1>5. CASE OnOffline(t)
  BY <1>5, <1>r DEF OnOffline
<1>6. ASSUME NEW c \in Channels, ChannelLost(t, c) PROVE HubOK'
  BY <1>6 DEF ChannelLost, HubOK, Goto, Labels
<1> QED BY <1>1, <1>2, <1>3, <1>4, <1>5, <1>6 DEF LosingStep, Losing

LEMMA LoginTypes ==
  ASSUME HubOK, Busy, LoginStep PROVE HubOK'
<1>0. "strand" \in Threads
  BY DEF Threads
<1>1. ASSUME NEW c \in Channels, ServerAuth(c) PROVE HubOK'
  <2>1. /\ table' \in Channels \cup {NoChannel}
        /\ members' \in [Channels -> SUBSET Channels] /\ live' \subseteq Channels
    BY <1>1 DEF ServerAuth, HubOK
  <2>2. /\ who' \in [Threads -> Channels \cup {NoChannel}]
        /\ vec' \in [Threads -> Channels \cup {NoChannel}]
        /\ pc' \in [Threads -> Labels] /\ target' = target
    BY <1>0, <1>1, <2>1 DEF ServerAuth, HubOK, Goto, Labels
  <2> QED BY <2>1, <2>2 DEF HubOK
<1>2. CASE ServerAuthInsert
  <2>1. /\ members' = [members EXCEPT ![vec["strand"]] = @ \cup {who["strand"]}]
        /\ UNCHANGED <<table, live, who, vec, target>>
        /\ \/ pc' = [pc EXCEPT !["strand"] = "online"]
           \/ pc' = [pc EXCEPT !["strand"] = "done"]
    BY <1>2 DEF ServerAuthInsert, Goto
  <2>2. members' \in [Channels -> SUBSET Channels]
    <3>1. who["strand"] \in Channels
      BY <1>2 DEF ServerAuthInsert, Busy
    <3> QED BY <2>1, <3>1 DEF HubOK
  <2> QED BY <2>1, <2>2 DEF HubOK, Labels
<1>3. CASE ServerAuthDone
  BY <1>0, <1>3, GoneTypes DEF ServerAuthDone, Return
<1> QED BY <1>1, <1>2, <1>3 DEF LoginStep

\* Where the two leave the threads.
LEMMA LosingControl ==
  ASSUME HubOK, NEW t \in Threads, LosingStep(t)
  PROVE  /\ \A u \in Threads : u # t => pc'[u] = pc[u] /\ who'[u] = who[u]
         /\ pc[t] \in {"idle", "find", "remove", "erase", "recheck", "offline"}
         /\ pc'[t] \in {"idle", "find", "remove", "erase", "recheck", "offline"}
<1>1. \/ (\E l \in {"idle", "find", "remove", "erase", "recheck", "offline"} : Goto(t, l))
         /\ UNCHANGED who
      \/ Goto(t, "idle") /\ who' = [who EXCEPT ![t] = NoChannel]
      \/ \E c \in Channels : Goto(t, "find") /\ who' = [who EXCEPT ![t] = c]
  BY DEF LosingStep, Losing, AbortFind, AbortRemove, AbortErase, AbortRecheck,
         OnOffline, ChannelLost, Return
<1>2. pc[t] \in {"idle", "find", "remove", "erase", "recheck", "offline"}
  BY DEF LosingStep, Losing, AbortFind, AbortRemove, AbortErase, AbortRecheck,
         OnOffline, ChannelLost, At
<1> QED BY <1>1, <1>2 DEF HubOK, Goto

\* Every packet that is anywhere has been routed.
Routed == \A p \in In(cachedContexts) \cup In(batch) \cup In(delivered) : p < next

Counted == cachedQueueCount = Len(cachedContexts)

IInv == HubOK /\ CacheOK /\ Busy /\ Bounded /\ Counted /\ AtMostOnce /\ Routed

LEMMA InitIInv == Init => IInv
<1> SUFFICES ASSUME Init PROVE IInv
  OBVIOUS
<1>0. 0 \in 0..MaxAge /\ 1 \in 1..(MaxPackets + 1)
  BY SendbackAssumption DEF MaxAge
<1>1. CacheOK
  BY <1>0, EmptyIn DEF Init, CacheOK
<1>2. HubOK
  BY DEF Init, HubOK, Labels
<1>3. Busy
  BY DEF Init, Busy, At, Threads
<1>4. Bounded /\ Counted
  BY SendbackAssumption DEF Init, Bounded, Counted
<1>5. AtMostOnce /\ Routed
  BY EmptyIn DEF Init, AtMostOnce, Routed
<1> QED BY <1>1, <1>2, <1>3, <1>4, <1>5 DEF IInv

\* The entry keeps its shape, its bounds and its packets when it refuses or
\* accepts a packet that is new.
LEMMA Adding ==
  ASSUME CacheOK, Bounded, Counted, AtMostOnce, Routed, next \in Packets,
         RawAddSendback(next)
  PROVE  /\ known' \in BOOLEAN /\ age' \in 0..MaxAge
         /\ cachedPacketSize' \in Nat /\ cachedQueueCount' \in Nat
         /\ cachedContexts' \in Seq(Packets)
         /\ Bounded' /\ Counted'
         /\ Distinct(cachedContexts')
         /\ In(cachedContexts') \subseteq In(cachedContexts) \cup {next}
<1>1. KnownAge \in 0..MaxAge /\ MaxAge \in Nat
  BY SendbackAssumption DEF CacheOK, KnownAge, MaxAge
<1>2. PacketSize[next] \in Nat /\ MaxSendQueueSize \in Nat
      /\ MaxSendBufferSize \in Nat
  BY SendbackAssumption
<1>3. CASE UNCHANGED <<cachedPacketSize, cachedQueueCount, cachedContexts>>
  <2>1. known' \in BOOLEAN /\ age' \in 0..MaxAge
    BY <1>1 DEF CacheOK, RawAddSendback, entry
  <2> QED BY <2>1, <1>3 DEF CacheOK, Bounded, Counted, AtMostOnce
<1>4. CASE ~UNCHANGED <<cachedPacketSize, cachedQueueCount, cachedContexts>>
  <2>1. /\ HasRoom(next)
        /\ known' = TRUE /\ age' = KnownAge
        /\ cachedPacketSize' = cachedPacketSize + PacketSize[next]
        /\ cachedQueueCount' = cachedQueueCount + 1
        /\ cachedContexts' = Append(cachedContexts, next)
    BY <1>4 DEF RawAddSendback, entry
  <2>2. next \notin In(cachedContexts)
    BY DEF Routed, CacheOK
  <2>3. cachedContexts \in Seq(Packets) /\ Distinct(cachedContexts)
    BY DEF CacheOK, AtMostOnce
  <2>4. /\ cachedContexts' \in Seq(Packets) /\ Distinct(cachedContexts')
        /\ In(cachedContexts') = In(cachedContexts) \cup {next}
        /\ Len(cachedContexts') = Len(cachedContexts) + 1
        /\ Len(cachedContexts) \in Nat
    BY <2>1, <2>2, <2>3, InAppend
  <2>5. /\ cachedPacketSize' \in Nat /\ cachedQueueCount' \in Nat
        /\ Bounded' /\ Counted'
    BY <2>1, <2>4, <1>2 DEF HasRoom, Bounded, Counted, CacheOK
  <2> QED BY <2>1, <2>4, <2>5, <1>1
<1> QED BY <1>3, <1>4

\* A packet that was routed is the last to be delivered.
LEMMA Delivering ==
  ASSUME CacheOK, AtMostOnce, Routed, next \in Packets,
         delivered' = Append(delivered, next), next' = next + 1,
         UNCHANGED <<cachedContexts, batch>>
  PROVE  /\ delivered' \in Seq(Packets) /\ next' \in 1..(MaxPackets + 1)
         /\ AtMostOnce' /\ Routed'
<1>1. /\ next \notin In(cachedContexts) \cup In(batch) \cup In(delivered)
      /\ In(cachedContexts) \cup In(batch) \cup In(delivered) \subseteq Nat
      /\ next \in Nat /\ next' \in 1..(MaxPackets + 1)
  BY InType, SendbackAssumption DEF Routed, Packets, CacheOK
<1>2. /\ delivered' \in Seq(Packets) /\ Distinct(delivered')
      /\ In(delivered') = In(delivered) \cup {next}
  BY <1>1, InAppend DEF CacheOK, AtMostOnce
<1>3. AtMostOnce'
  BY <1>1, <1>2 DEF AtMostOnce
<1>4. Routed'
  BY <1>1, <1>2 DEF Routed
<1> QED BY <1>1, <1>2, <1>3, <1>4

LEMMA StepIInv == IInv /\ [Next]_vars => IInv'
<1> SUFFICES ASSUME IInv, [Next]_vars PROVE IInv'
  OBVIOUS
<1> USE DEF IInv
<1>m. /\ MaxAge \in Nat /\ MaxAge >= 1 /\ 0 \in 0..MaxAge
      /\ MaxSendQueueSize \in Nat /\ MaxSendBufferSize \in Nat
      /\ MaxPackets \in Nat /\ "strand" \in Threads
  BY SendbackAssumption DEF MaxAge, Threads
\* A step that empties the list, or leaves it, and moves no packet.
<1>e. ASSUME ResetSendback, UNCHANGED packets,
             known' \in BOOLEAN, age' \in 0..MaxAge, disposed' \in BOOLEAN,
             UNCHANGED <<vectors, control>>
      PROVE  IInv'
  <2>1. CacheOK'
    BY <1>e, EmptyIn DEF CacheOK, ResetSendback, packets
  <2>2. HubOK' /\ Busy'
    BY <1>e DEF HubOK, Busy, vectors, control, packets, At
  <2>3. Bounded' /\ Counted'
    BY <1>e, <1>m DEF ResetSendback, Bounded, Counted
  <2>4. AtMostOnce' /\ Routed'
    BY <1>e, EmptyIn DEF ResetSendback, AtMostOnce, Routed, packets
  <2> QED BY <2>1, <2>2, <2>3, <2>4
<1>k. ASSUME UNCHANGED <<cachedPacketSize, cachedQueueCount, cachedContexts, packets>>,
             known' \in BOOLEAN, age' \in 0..MaxAge, disposed' \in BOOLEAN, HubOK', Busy'
      PROVE  IInv'
  <2>1. CacheOK'
    BY <1>k DEF CacheOK, packets
  <2> QED BY <1>k, <2>1 DEF Bounded, Counted, AtMostOnce, Routed, packets
<1>1. CASE ProcessTickAlways
  BY <1>1, <1>e DEF ProcessTickAlways, CacheOK
<1>2. CASE Dispose
  BY <1>2, <1>e, <1>m DEF Dispose, CacheOK
<1>3. CASE Elapse
  <2>1. age' \in 0..MaxAge
    BY <1>3, <1>m DEF Elapse, CacheOK
  <2>2. HubOK' /\ Busy'
    BY <1>3 DEF Elapse, HubOK, Busy, vectors, control, packets, At
  <2> QED BY <1>3, <1>k, <2>1, <2>2 DEF Elapse, CacheOK
<1>4. CASE NextSocket
  <2>1. /\ UNCHANGED <<entry, disposed, vectors, who, packets>> /\ next \in Packets
        /\ vec' \in [Threads -> Channels \cup {NoChannel}]
        /\ target' \in Channels \cup {NoChannel}
    BY <1>4 DEF NextSocket, HubOK, Members
  <2>2. pc' = [pc EXCEPT !["strand"] = "keep"] \/ pc' = [pc EXCEPT !["strand"] = "send"]
    BY <1>4 DEF NextSocket, Goto
  <2>3. HubOK'
    BY <2>1, <2>2 DEF HubOK, Labels, vectors
  <2>4. Busy'
    BY <1>m, <2>1, <2>2 DEF HubOK, Busy, At, packets
  <2> QED BY <1>k, <2>1, <2>3, <2>4 DEF CacheOK, entry
<1>5. CASE SocketSend
  <2>1. /\ UNCHANGED <<entry, disposed, table, who, batch, late>> /\ Release("strand")
        /\ next \in Packets /\ target' = NoChannel
    BY <1>5 DEF SocketSend, Busy, At
  <2>2. /\ members' \in [Channels -> SUBSET Channels] /\ live' \subseteq Channels
        /\ vec' \in [Threads -> Channels \cup {NoChannel}]
    BY <2>1, SettleTypes DEF Release, HubOK
  <2>3. CASE Goto("strand", "keep") /\ UNCHANGED <<delivered, next>>
    <3>1. HubOK' /\ Busy'
      BY <1>m, <2>1, <2>2, <2>3 DEF HubOK, Busy, Goto, Labels, At
    <3> QED BY <1>k, <2>1, <2>3, <3>1 DEF CacheOK, entry, packets
  <2>4. CASE Goto("strand", "idle") /\ delivered' = Append(delivered, next)
             /\ next' = next + 1
    <3>1. HubOK' /\ Busy'
      BY <1>m, <2>1, <2>2, <2>4 DEF HubOK, Busy, Goto, Labels, At
    <3>2. /\ delivered' \in Seq(Packets) /\ next' \in 1..(MaxPackets + 1)
          /\ AtMostOnce' /\ Routed'
      BY <2>1, <2>4, Delivering DEF entry
    <3>3. CacheOK' /\ Bounded' /\ Counted'
      BY <2>1, <3>2 DEF CacheOK, entry, Bounded, Counted
    <3> QED BY <3>1, <3>2, <3>3
  <2> QED BY <1>5, <2>3, <2>4 DEF SocketSend
<1>6. CASE AddSendback
  <2>0. /\ RawAddSendback(next) /\ next' = next + 1 /\ next \in Packets
        /\ next' \in 1..(MaxPackets + 1) /\ late' \subseteq Packets
        /\ UNCHANGED <<disposed, vectors, who, vec, target, batch, delivered>>
        /\ pc' = [pc EXCEPT !["strand"] = "idle"]
    <3>1. next \in Packets
      BY <1>6 DEF AddSendback, Busy, At
    <3>2. late' \subseteq Packets
      BY <1>6, <3>1 DEF AddSendback, CacheOK
    <3> QED BY <1>6, <1>m, <3>1, <3>2 DEF AddSendback, Packets, Goto
  <2>n. /\ next \notin In(cachedContexts) \cup In(batch) \cup In(delivered)
        /\ In(cachedContexts) \cup In(batch) \cup In(delivered) \subseteq Nat
        /\ next \in Nat
    BY <2>0, <1>m, InType DEF Routed, Packets, CacheOK
  <2>1. HubOK' /\ Busy'
    BY <1>m, <2>0 DEF HubOK, Busy, Labels, vectors, At
  <2>2. CacheOK' /\ Bounded' /\ Counted'
    BY <2>0, Adding DEF CacheOK
  <2>3. AtMostOnce'
    BY <2>0, <2>n, Adding DEF AtMostOnce
  <2>4. Routed'
    BY <2>0, <2>n, Adding DEF Routed
  <2> QED BY <2>1, <2>2, <2>3, <2>4
<1>7. CASE LoginStep
  <2>1. HubOK'
    BY <1>7, LoginTypes
  <2>2. UNCHANGED <<entry, disposed, packets>>
    BY <1>7 DEF LoginStep, ServerAuth, ServerAuthInsert, ServerAuthDone
  <2>3. Busy'
    <3>1. ASSUME NEW c \in Channels, ServerAuth(c) PROVE Busy'
      BY <1>m, <3>1 DEF ServerAuth, HubOK, Goto, Busy, At
    <3>2. CASE ServerAuthInsert \/ ServerAuthDone
      <4>1. pc'["strand"] \in {"online", "done", "idle"}
        BY <1>m, <3>2 DEF ServerAuthInsert, ServerAuthDone, Return, HubOK, Goto
      <4> QED BY <4>1 DEF Busy, At
    <3> QED BY <1>7, <3>1, <3>2 DEF LoginStep
  <2> QED BY <1>k, <2>1, <2>2, <2>3 DEF CacheOK, entry
<1>8. CASE OnOnline
  <2>1. /\ known' = FALSE /\ age' = 0 /\ cachedContexts' = <<>>
        /\ cachedPacketSize' = 0 /\ cachedQueueCount' = 0 /\ batch' = cachedContexts
        /\ UNCHANGED <<disposed, vectors, who, vec, target, next, delivered, late>>
        /\ pc' = [pc EXCEPT !["strand"] = "drain"]
    BY <1>8 DEF OnOnline, ResetSendback, Goto
  <2>2. HubOK' /\ Busy'
    BY <1>m, <2>1 DEF HubOK, Busy, Labels, vectors, At
  <2>3. CacheOK'
    BY <1>m, <2>1, EmptyIn DEF CacheOK
  <2>4. Bounded' /\ Counted'
    BY <2>1, <1>m DEF Bounded, Counted
  <2>5. AtMostOnce' /\ Routed'
    BY <2>1, EmptyIn DEF AtMostOnce, Routed
  <2> QED BY <2>2, <2>3, <2>4, <2>5
<1>9. CASE OnOnlineSend
  <2>1. batch \in Seq(Packets) /\ batch # <<>> /\ batch' = Tail(batch)
    BY <1>9 DEF OnOnlineSend, CacheOK
  <2>2. /\ batch' \in Seq(Packets) /\ Head(batch) \in Packets
        /\ In(batch') \subseteq In(batch) /\ Head(batch) \in In(batch)
        /\ Distinct(batch') /\ Head(batch) \notin In(batch')
    BY <2>1, InTail DEF AtMostOnce
  <2>3. Head(batch) \notin In(delivered)
    BY <2>2 DEF AtMostOnce
  <2>4. /\ delivered' \in Seq(Packets) /\ Distinct(delivered')
        /\ In(delivered') \subseteq In(delivered) \cup {Head(batch)}
    <3>1. CASE delivered' = delivered
      BY <3>1 DEF CacheOK, AtMostOnce
    <3>2. CASE delivered' = Append(delivered, Head(batch))
      BY <3>2, <2>2, <2>3, InAppend DEF CacheOK, AtMostOnce
    <3> QED BY <1>9, <3>1, <3>2 DEF OnOnlineSend
  <2>5. CacheOK'
    BY <1>9, <2>2, <2>4 DEF OnOnlineSend, CacheOK, entry
  <2>6. HubOK' /\ Busy'
    BY <1>9 DEF OnOnlineSend, HubOK, Busy, vectors, control, At
  <2>7. AtMostOnce'
    BY <1>9, <2>2, <2>4 DEF OnOnlineSend, AtMostOnce, entry
  <2>8. Routed'
    BY <1>9, <2>2, <2>4 DEF OnOnlineSend, Routed, entry
  <2>9. Bounded' /\ Counted'
    BY <1>9 DEF OnOnlineSend, Bounded, Counted, entry
  <2> QED BY <2>5, <2>6, <2>7, <2>8, <2>9
<1>10. ASSUME NEW t \in Threads, LosingStep(t) PROVE IInv'
  <2>1. HubOK'
    BY <1>10, LosingTypes
  <2>2. UNCHANGED <<cachedPacketSize, cachedQueueCount, cachedContexts, disposed, packets>>
    BY <1>10 DEF LosingStep, Losing, AbortFind, AbortRemove, AbortErase,
                 AbortRecheck, OnOffline, ChannelLost, entry
  <2>3. known' \in BOOLEAN /\ age' \in 0..MaxAge
    BY <1>10, <1>m DEF LosingStep, Losing, AbortFind, AbortRemove, AbortErase,
                 AbortRecheck, OnOffline, ChannelLost, entry, CacheOK
  <2>4. Busy'
    BY <1>10, <1>m, <2>2, LosingControl DEF Busy, At, packets
  <2> QED BY <1>k, <2>1, <2>2, <2>3, <2>4 DEF CacheOK
<1>11. CASE UNCHANGED vars
  <2>1. UNCHANGED <<entry, disposed, vectors, control, packets>>
    BY <1>11 DEF vars
  <2>2. HubOK' /\ Busy'
    BY <2>1 DEF HubOK, Busy, vectors, control, packets, At
  <2> QED BY <1>k, <2>1, <2>2 DEF CacheOK, entry
<1> QED
  BY <1>1, <1>2, <1>3, <1>4, <1>5, <1>6, <1>7, <1>8, <1>9, <1>10, <1>11
  DEF Next, Routing, Login, LoginStep, LosingStep

LEMMA Invariance == Spec => []IInv
BY InitIInv, StepIInv, PTL DEF Spec

\* Every variable keeps its type, through refusals, handovers and disposal.
THEOREM Typing == Spec => []TypeOK
<1>1. IInv => TypeOK
  BY TypeSplit DEF IInv
<1> QED BY <1>1, Invariance, PTL

\* No sequence of refusals, resets and handovers takes the packets or the
\* bytes kept for one server past the configured limits.
THEOREM Boundedness == Spec => []Bounded
BY Invariance, PTL DEF IInv

\* No packet is delivered twice or kept after it was delivered, although the
\* handover sends a copy of the list without the controller's mutex.
THEOREM NoDuplicates == Spec => []AtMostOnce
BY Invariance, PTL DEF IInv

-----------------------------------------------------------------------------
(* What is kept is what is counted, and the order in which it is sent.     *)

\* Only a handover holds a copy, and nothing else is kept while it does.
Copied ==
  /\ batch # <<>> => At("strand", "drain")
  /\ At("strand", "drain") => cachedContexts = <<>>

\* s grows from one packet to the next.
Sorted(s) == \A i, j \in 1..Len(s) : i < j => s[i] < s[j]

\* Running totals of the sizes of s.
Totals(s, size) ==
  \E total \in [0..Len(s) -> 0..size] :
    /\ total[0] = 0 /\ total[Len(s)] = size
    /\ \A i \in 1..Len(s) : total[i] = total[i - 1] + PacketSize[s[i]]

\* The server is online, or the strand has picked one of its channels.
Served == (Members(table) # {} /\ ~At("strand", "online")) \/ At("strand", "send")

\* Nothing but late packets is kept then.
Nothing == Served => In(cachedContexts) \subseteq late

\* s grows but for the packets of set l.
Mostly(s, l) == \A i, j \in 1..Len(s) : i < j => s[i] < s[j] \/ s[j] \in l

\* What is kept is younger than what was delivered, or late.
Younger ==
  /\ Mostly(delivered, late)
  /\ \A p \in In(delivered), q \in In(cachedContexts) \cup In(batch) :
       p < q \/ q \in late

OInv ==
  /\ Copied /\ Nothing /\ Younger
  /\ Sorted(cachedContexts) /\ Sorted(batch)
  /\ Totals(cachedContexts, cachedPacketSize)

LEMMA SortedEmpty == Sorted(<<>>) /\ Totals(<<>>, 0)
<1>1. Sorted(<<>>)
  BY DEF Sorted
<1>2. Totals(<<>>, 0)
  <2> DEFINE none == [i \in 0..0 |-> 0]
  <2>1. none \in [0..0 -> 0..0] /\ none[0] = 0
    OBVIOUS
  <2> HIDE DEF none
  <2> QED BY <2>1 DEF Totals
<1> QED BY <1>1, <1>2

LEMMA SortedAppend ==
  ASSUME NEW s \in Seq(Packets), NEW x \in Packets, Sorted(s),
         \A p \in In(s) : p < x
  PROVE  Sorted(Append(s, x))
<1> DEFINE a == Append(s, x)
<1>1. /\ Len(a) = Len(s) + 1 /\ Len(s) \in Nat
      /\ \A i \in 1..Len(s) : a[i] = s[i]
      /\ a[Len(s) + 1] = x
  OBVIOUS
<1> SUFFICES ASSUME NEW i \in 1..Len(a), NEW j \in 1..Len(a), i < j
             PROVE  a[i] < a[j]
  BY DEF Sorted
<1>2. i \in 1..Len(s)
  BY <1>1
<1>3. CASE j \in 1..Len(s)
  BY <1>1, <1>2, <1>3 DEF Sorted
<1>4. CASE j = Len(s) + 1
  BY <1>1, <1>2, <1>4 DEF In
<1> QED BY <1>1, <1>3, <1>4

LEMMA MostlyAppend ==
  ASSUME NEW s \in Seq(Packets), NEW x \in Packets, NEW l, Mostly(s, l),
         \A p \in In(s) : p < x \/ x \in l
  PROVE  Mostly(Append(s, x), l)
<1> DEFINE a == Append(s, x)
<1>1. /\ Len(a) = Len(s) + 1 /\ Len(s) \in Nat
      /\ \A i \in 1..Len(s) : a[i] = s[i]
      /\ a[Len(s) + 1] = x
  OBVIOUS
<1> SUFFICES ASSUME NEW i \in 1..Len(a), NEW j \in 1..Len(a), i < j
             PROVE  a[i] < a[j] \/ a[j] \in l
  BY DEF Mostly
<1>2. i \in 1..Len(s)
  BY <1>1
<1>3. CASE j \in 1..Len(s)
  BY <1>1, <1>2, <1>3 DEF Mostly
<1>4. CASE j = Len(s) + 1
  BY <1>1, <1>2, <1>4 DEF In
<1> QED BY <1>1, <1>3, <1>4

LEMMA SortedTail ==
  ASSUME NEW s \in Seq(Packets), s # <<>>, Sorted(s)
  PROVE  Sorted(Tail(s)) /\ \A p \in In(Tail(s)) : Head(s) < p
<1> DEFINE r == Tail(s)
<1>1. /\ Len(s) \in Nat /\ Len(s) >= 1 /\ Len(r) = Len(s) - 1
      /\ \A i \in 1..Len(r) : r[i] = s[i + 1] /\ i + 1 \in 1..Len(s)
      /\ Head(s) = s[1] /\ 1 \in 1..Len(s)
  OBVIOUS
<1>2. ASSUME NEW i \in 1..Len(r), NEW j \in 1..Len(r), i < j PROVE r[i] < r[j]
  BY <1>1, <1>2 DEF Sorted
<1>3. ASSUME NEW i \in 1..Len(r) PROVE Head(s) < r[i]
  BY <1>1 DEF Sorted
<1> QED BY <1>2, <1>3 DEF Sorted, In

LEMMA TotalsAppend ==
  ASSUME NEW s \in Seq(Packets), NEW x \in Packets, NEW size \in Nat,
         Totals(s, size)
  PROVE  Totals(Append(s, x), size + PacketSize[x])
<1> DEFINE a == Append(s, x)
           more == size + PacketSize[x]
<1>1. /\ Len(a) = Len(s) + 1 /\ Len(s) \in Nat
      /\ \A i \in 1..Len(s) : a[i] = s[i]
      /\ a[Len(s) + 1] = x
  OBVIOUS
<1>2. more \in Nat /\ more >= size
  BY SendbackAssumption
<1>3. PICK total \in [0..Len(s) -> 0..size] :
        /\ total[0] = 0 /\ total[Len(s)] = size
        /\ \A i \in 1..Len(s) : total[i] = total[i - 1] + PacketSize[s[i]]
  BY DEF Totals
<1> DEFINE sum == [i \in 0..Len(a) |-> IF i \in 0..Len(s) THEN total[i] ELSE more]
<1>4. sum \in [0..Len(a) -> 0..more]
  BY <1>1, <1>2, <1>3
<1>5. sum[0] = 0 /\ sum[Len(a)] = more
  BY <1>1, <1>3
<1>6. ASSUME NEW i \in 1..Len(a) PROVE sum[i] = sum[i - 1] + PacketSize[a[i]]
  <2>1. CASE i \in 1..Len(s)
    BY <1>1, <1>3, <2>1
  <2>2. CASE i = Len(s) + 1
    BY <1>1, <1>3, <2>2
  <2> QED BY <1>1, <2>1, <2>2
<1> HIDE DEF sum, more
<1>7. Totals(a, more)
  BY <1>4, <1>5, <1>6 DEF Totals
<1> QED BY <1>7 DEF more

LEMMA InitOInv == Init => OInv
<1> SUFFICES ASSUME Init PROVE OInv
  OBVIOUS
<1>1. Copied /\ Nothing
  BY EmptyIn DEF Init, Copied, Nothing, At, Threads
<1>2. Younger
  BY EmptyIn DEF Init, Younger, Mostly
<1> QED BY <1>1, <1>2, SortedEmpty DEF Init, OInv

\* A packet that is routed is younger than all others and is kept behind them.
LEMMA AddingOrdered ==
  ASSUME IInv, OInv, next \in Packets, RawAddSendback(next)
  PROVE  /\ Sorted(cachedContexts') /\ Totals(cachedContexts', cachedPacketSize')
         /\ In(cachedContexts') \subseteq In(cachedContexts) \cup {next}
<1>1. CASE UNCHANGED <<cachedPacketSize, cachedContexts>>
  BY <1>1 DEF OInv
<1>2. CASE ~UNCHANGED <<cachedPacketSize, cachedContexts>>
  <2>1. /\ cachedPacketSize' = cachedPacketSize + PacketSize[next]
        /\ cachedContexts' = Append(cachedContexts, next)
    BY <1>2 DEF RawAddSendback, entry
  <2>2. /\ cachedContexts \in Seq(Packets) /\ cachedPacketSize \in Nat
        /\ \A p \in In(cachedContexts) : p < next
    BY DEF IInv, CacheOK, Routed
  <2> QED BY <2>1, <2>2, SortedAppend, TotalsAppend, InAppend DEF OInv
<1> QED BY <1>1, <1>2

LEMMA StepOInv == IInv /\ OInv /\ [Next]_vars => OInv'
<1> SUFFICES ASSUME IInv, OInv, [Next]_vars PROVE OInv'
  OBVIOUS
<1>t. /\ cachedContexts \in Seq(Packets) /\ batch \in Seq(Packets)
      /\ delivered \in Seq(Packets) /\ "strand" \in Threads
      /\ pc \in [Threads -> Labels]
  BY DEF IInv, HubOK, CacheOK, Threads
\* A step that moves no packet and brings no channel.
<1>k. ASSUME UNCHANGED <<cachedPacketSize, cachedContexts, batch, delivered, late>>,
             Members(table)' \subseteq Members(table),
             \/ pc'["strand"] = pc["strand"]
             \/ /\ pc["strand"] \notin {"online", "drain"}
                /\ pc'["strand"] \notin {"drain", "send"}
      PROVE  OInv'
  <2>1. Copied'
    BY <1>k DEF OInv, Copied, At
  <2>2. Served' => Served
    BY <1>k DEF Served, At
  <2>3. Nothing'
    BY <1>k, <2>2 DEF OInv, Nothing
  <2> QED BY <1>k, <2>1, <2>3 DEF OInv, Younger
<1>e. ASSUME ResetSendback, UNCHANGED <<packets, pc>>
      PROVE  OInv'
  <2>1. /\ cachedContexts' = <<>> /\ cachedPacketSize' = 0
        /\ UNCHANGED <<batch, delivered, late, pc>>
    BY <1>e DEF ResetSendback, packets
  <2>2. Copied' /\ Nothing'
    BY <2>1, EmptyIn DEF OInv, Copied, Nothing, At
  <2>3. Younger'
    BY <2>1, EmptyIn DEF OInv, Younger
  <2> QED BY <2>1, <2>2, <2>3, SortedEmpty DEF OInv
<1>1. CASE ProcessTickAlways \/ Dispose
  BY <1>1, <1>e DEF ProcessTickAlways, Dispose, control
<1>2. CASE Elapse \/ UNCHANGED vars
  <2>1. UNCHANGED <<cachedPacketSize, cachedContexts, packets, vectors, control>>
    BY <1>2 DEF Elapse, vars, entry
  <2> QED BY <1>k, <2>1 DEF packets, vectors, control, Members
<1>3. CASE NextSocket
  <2>1. /\ UNCHANGED <<cachedPacketSize, cachedContexts, batch, delivered, late>>
        /\ Members(table)' = Members(table) /\ pc["strand"] = "idle"
    BY <1>3 DEF NextSocket, entry, packets, vectors, Members, At
  <2>2. \/ pc'["strand"] = "keep"
        \/ pc'["strand"] = "send" /\ Members(table) # {}
    BY <1>3, <1>t DEF NextSocket, Goto
  <2>3. CASE pc'["strand"] = "keep"
    BY <1>k, <2>1, <2>3
  <2>4. CASE pc'["strand"] = "send" /\ Members(table) # {}
    <3>1. Copied'
      BY <2>1, <2>4 DEF OInv, Copied, At
    <3>2. Nothing'
      BY <2>1, <2>4 DEF OInv, Nothing, Served, At
    <3> QED BY <2>1, <3>1, <3>2 DEF OInv, Younger
  <2> QED BY <2>2, <2>3, <2>4
<1>4. CASE SocketSend
  <2>1. /\ UNCHANGED <<cachedPacketSize, cachedContexts, batch, late>>
        /\ pc["strand"] = "send" /\ pc'["strand"] \in {"keep", "idle"}
        /\ In(cachedContexts) \subseteq late /\ batch = <<>>
    BY <1>4, <1>t DEF SocketSend, entry, At, Goto, OInv, Nothing, Served, Copied
  <2>2. Copied' /\ Nothing'
    BY <2>1 DEF Copied, Nothing, At
  <2>3. CASE delivered' = delivered
    BY <2>1, <2>2, <2>3 DEF OInv, Younger
  <2>4. CASE delivered' = Append(delivered, next)
    <3>1. next \in Packets /\ \A p \in In(delivered) : p < next
      BY <2>1 DEF IInv, Busy, Routed
    <3>2. Mostly(delivered', late)
      BY <1>t, <2>4, <3>1, MostlyAppend DEF OInv, Younger
    <3>3. Younger'
      BY <2>1, <3>2, EmptyIn DEF Younger
    <3> QED BY <2>1, <2>2, <3>3 DEF OInv
  <2> QED BY <1>4, <2>3, <2>4 DEF SocketSend
<1>5. CASE AddSendback
  <2>1. /\ RawAddSendback(next) /\ UNCHANGED <<batch, delivered>> /\ next \in Packets
        /\ late' = (IF Members(table) = {} THEN late ELSE late \cup {next})
        /\ pc["strand"] = "keep" /\ pc'["strand"] = "idle" /\ batch = <<>>
        /\ Members(table)' = Members(table)
    BY <1>5, <1>t DEF AddSendback, At, Goto, IInv, Busy, OInv, Copied, vectors, Members
  <2>2. /\ Sorted(cachedContexts') /\ Totals(cachedContexts', cachedPacketSize')
        /\ In(cachedContexts') \subseteq In(cachedContexts) \cup {next}
    BY <2>1, AddingOrdered
  <2>3. Copied'
    BY <2>1 DEF Copied, At
  <2>4. Nothing'
    <3>1. CASE Members(table) = {}
      BY <2>1, <3>1 DEF Nothing, Served, At
    <3>2. CASE Members(table) # {}
      <4>1. In(cachedContexts) \subseteq late
        BY <2>1, <3>2 DEF OInv, Nothing, Served, At
      <4>2. In(cachedContexts') \subseteq late'
        BY <2>1, <2>2, <3>2, <4>1
      <4>3. In(cachedContexts)' = In(cachedContexts')
        BY DEF In
      <4> QED BY <4>2, <4>3 DEF Nothing
    <3> QED BY <3>1, <3>2
  <2>5. Younger'
    <3>1. late \subseteq late' /\ In(batch) = {}
      BY <2>1, EmptyIn
    <3>2. Mostly(delivered', late')
      BY <2>1, <3>1 DEF OInv, Younger, Mostly
    <3>3. \A p \in In(delivered) : p < next
      BY DEF IInv, Routed
    <3>4. \A p \in In(delivered), q \in In(cachedContexts') : p < q \/ q \in late'
      BY <2>2, <3>1, <3>3 DEF OInv, Younger
    <3>5. In(cachedContexts)' = In(cachedContexts') /\ In(delivered)' = In(delivered)
          /\ In(batch)' = {}
      BY <2>1, <3>1 DEF In
    <3> QED BY <3>2, <3>4, <3>5 DEF Younger
  <2> QED BY <2>1, <2>2, <2>3, <2>4, <2>5 DEF OInv
<1>6. ASSUME NEW c \in Channels, ServerAuth(c) PROVE OInv'
  <2>1. /\ UNCHANGED <<cachedPacketSize, cachedContexts, batch, delivered, late>>
        /\ pc["strand"] = "idle" /\ pc'["strand"] = "insert"
    BY <1>6, <1>t DEF ServerAuth, entry, packets, At, Goto
  <2>2. Members(table)' \subseteq Members(table)
    BY <1>6 DEF ServerAuth, Members, IInv, HubOK
  <2> QED BY <1>k, <2>1, <2>2
<1>7. CASE ServerAuthInsert
  <2>1. /\ UNCHANGED <<cachedPacketSize, cachedContexts, batch, delivered, late, table>>
        /\ members' = [members EXCEPT ![vec["strand"]] = @ \cup {who["strand"]}]
        /\ pc["strand"] = "insert" /\ batch = <<>>
        /\ \/ pc'["strand"] = "online"
           \/ pc'["strand"] = "done" /\ members[vec["strand"]] # {}
    BY <1>7, <1>t DEF ServerAuthInsert, entry, packets, At, Goto, OInv, Copied
  <2>2. Copied'
    BY <2>1 DEF OInv, Copied, At
  <2>3. Served' => Served
    BY <2>1 DEF Served, At, Members, IInv, HubOK
  <2>4. Nothing'
    BY <2>1, <2>3 DEF OInv, Nothing
  <2> QED BY <2>1, <2>2, <2>4 DEF OInv, Younger
<1>8. CASE OnOnline
  <2>1. /\ pc["strand"] = "online" /\ pc'["strand"] = "drain"
        /\ batch' = cachedContexts /\ cachedContexts' = <<>>
        /\ cachedPacketSize' = 0 /\ UNCHANGED <<delivered, late>>
    BY <1>8, <1>t DEF OnOnline, Goto, At, ResetSendback
  <2>2. Copied' /\ Nothing'
    BY <2>1, EmptyIn DEF Copied, Nothing, At
  <2>3. Younger'
    BY <2>1, EmptyIn DEF OInv, Younger
  <2> QED BY <2>1, <2>2, <2>3, SortedEmpty DEF OInv
<1>9. CASE OnOnlineSend
  <2>1. /\ pc["strand"] = "drain" /\ batch # <<>> /\ batch' = Tail(batch)
        /\ UNCHANGED <<cachedContexts, cachedPacketSize, pc, table, members, late>>
        /\ cachedContexts = <<>>
    BY <1>9 DEF OnOnlineSend, At, entry, vectors, control, OInv, Copied
  <2>2. /\ Sorted(batch') /\ \A p \in In(batch') : Head(batch) < p
        /\ Head(batch) \in Packets /\ Head(batch) \in In(batch)
        /\ In(batch') \subseteq In(batch)
    BY <1>t, <2>1, SortedTail, InTail DEF OInv
  <2>3. Copied' /\ Nothing'
    BY <2>1, EmptyIn DEF Copied, Nothing, At
  <2>4. Younger'
    <3>1. CASE delivered' = delivered
      BY <2>1, <2>2, <3>1 DEF OInv, Younger
    <3>2. CASE delivered' = Append(delivered, Head(batch))
      <4>1. In(delivered') = In(delivered) \cup {Head(batch)}
        BY <1>t, <2>2, <3>2, InAppend
      <4>2. \A p \in In(delivered), q \in In(batch) : p < q \/ q \in late
        BY DEF OInv, Younger
      <4>3. Mostly(delivered', late)
        BY <1>t, <2>2, <3>2, <4>2, MostlyAppend DEF OInv, Younger
      <4>4. In(cachedContexts') = {}
        BY <2>1, EmptyIn
      <4>5. \A p \in In(delivered'), q \in In(batch') : p < q \/ q \in late
        BY <2>2, <4>1, <4>2
      <4> QED BY <2>1, <4>3, <4>4, <4>5 DEF Younger
    <3> QED BY <1>9, <3>1, <3>2 DEF OnOnlineSend
  <2> QED BY <2>1, <2>2, <2>3, <2>4 DEF OInv
<1>10. CASE ServerAuthDone
  <2>1. /\ UNCHANGED <<cachedPacketSize, cachedContexts, batch, delivered, late, table>>
        /\ pc["strand"] \in {"drain", "done"} /\ pc'["strand"] = "idle" /\ batch = <<>>
    BY <1>10, <1>t DEF ServerAuthDone, Return, entry, packets, At, Goto, OInv, Copied
  <2>2. Members(table)' \subseteq Members(table)
    BY <1>10, <2>1, SettleTypes DEF ServerAuthDone, Return, Release, Members, IInv, HubOK
  <2>3. Served' => Served
    BY <2>1, <2>2 DEF Served, At
  <2> QED BY <2>1, <2>3 DEF OInv, Copied, Nothing, Younger, At
<1>11. ASSUME NEW t \in Threads, LosingStep(t) PROVE OInv'
  <2>1. UNCHANGED <<cachedPacketSize, cachedContexts, batch, delivered, late>>
    BY <1>11 DEF LosingStep, Losing, AbortFind, AbortRemove, AbortErase,
                 AbortRecheck, OnOffline, ChannelLost, entry, packets
  <2>2. \/ pc'["strand"] = pc["strand"]
        \/ /\ pc["strand"] \notin {"online", "drain"}
           /\ pc'["strand"] \notin {"drain", "send"}
    BY <1>11, <1>t, LosingControl DEF IInv
  <2>3. table' \in {table, NoChannel}
    BY <1>11 DEF LosingStep, Losing, AbortFind, AbortRemove, AbortErase,
                 AbortRecheck, OnOffline, ChannelLost
  <2>4. \A v \in Channels : members'[v] \subseteq members[v]
    <3>1. CASE UNCHANGED members
      BY <3>1
    <3>2. CASE members' = [members EXCEPT ![vec[t]] = @ \ {who[t]}]
      BY <3>2 DEF IInv, HubOK
    <3>3. CASE Settle(t, members, live)
      BY <3>3, SettleTypes DEF IInv, HubOK
    <3> QED BY <1>11, <3>1, <3>2, <3>3
        DEF LosingStep, Losing, AbortFind, AbortRemove, AbortErase, AbortRecheck,
            OnOffline, ChannelLost, Return, Release
  <2>5. Members(table)' \subseteq Members(table)
    BY <2>3, <2>4 DEF Members, IInv, HubOK
  <2> QED BY <1>k, <2>1, <2>2, <2>5
<1> QED
  BY <1>1, <1>2, <1>3, <1>4, <1>5, <1>6, <1>7, <1>8, <1>9, <1>10, <1>11
  DEF Next, Routing, Login, LosingStep

\* The counters say what the list holds, and only a packet that was kept while the
\* server had a channel is overtaken or stays behind when the server is online,
\* for any number of channels and packets and all limits.
THEOREM Keeping == Spec => []KeptInOrder
<1>1. IInv /\ OInv => KeptInOrder
  <2> SUFFICES ASSUME IInv, OInv PROVE KeptInOrder
    OBVIOUS
  <2>1. Accounting
    BY DEF IInv, Counted, OInv, Totals, Accounting
  <2>2. InOrder
    BY DEF OInv, Younger, Mostly, InOrder
  <2>3. NothingStuck
    BY DEF OInv, Nothing, Served, NothingStuck, At
  <2> QED BY <2>1, <2>2, <2>3 DEF KeptInOrder, IInv
<1> QED
  BY <1>1, InitIInv, StepIInv, InitOInv, StepOInv, PTL DEF Spec

-----------------------------------------------------------------------------
(* The refinement.                                                         *)

\* One of the two is empty.
LEMMA KeptTyped ==
  ASSUME NEW b \in Seq(Packets), NEW c \in Seq(Packets), b = <<>> \/ c = <<>>
  PROVE  b \o c = IF b = <<>> THEN c ELSE b
BY ConcatEmptySeq

LEMMA StepQueue ==
  ASSUME IInv, OInv, [Next]_vars
  PROVE  [Kept!Next]_<<next, batch \o cachedContexts, delivered>>
<1> DEFINE kept == batch \o cachedContexts
<1>i. IInv' /\ OInv'
  BY StepIInv, StepOInv
<1>k. /\ kept = IF batch = <<>> THEN cachedContexts ELSE batch
      /\ kept' = IF batch' = <<>> THEN cachedContexts' ELSE batch'
  <2>1. /\ batch \in Seq(Packets) /\ cachedContexts \in Seq(Packets)
        /\ batch' \in Seq(Packets) /\ cachedContexts' \in Seq(Packets)
    BY <1>i DEF IInv, CacheOK
  <2>2. /\ batch = <<>> \/ cachedContexts = <<>>
        /\ batch' = <<>> \/ cachedContexts' = <<>>
    BY <1>i DEF OInv, Copied, At
  <2> QED BY <2>1, <2>2, KeptTyped
<1> USE DEF Kept!Next
<1> HIDE DEF kept
<1> SUFFICES \/ Kept!Next
             \/ UNCHANGED <<next, kept, delivered>>
  BY DEF kept
<1>u. ASSUME UNCHANGED <<batch, cachedContexts, next, delivered>>
      PROVE  UNCHANGED <<next, kept, delivered>>
  BY <1>u, <1>k
\* What empties the list leaves the copy alone.
<1>e. ASSUME ResetSendback, UNCHANGED <<batch, next, delivered>>
      PROVE  Kept!Lose \/ UNCHANGED <<next, kept, delivered>>
  <2>1. cachedContexts' = <<>>
    BY <1>e DEF ResetSendback
  <2> QED BY <1>e, <1>k, <2>1 DEF Kept!Lose, kept
<1>1. CASE ProcessTickAlways \/ Dispose
  BY <1>1, <1>e DEF ProcessTickAlways, Dispose, packets
<1>r. ASSUME pc["strand"] \in {"send", "keep"}, next' = next + 1, UNCHANGED batch,
             \/ delivered' = Append(delivered, next) /\ UNCHANGED cachedContexts
             \/ /\ UNCHANGED delivered
                /\ cachedContexts' \in {cachedContexts, Append(cachedContexts, next)}
      PROVE  Kept!Route
  <2>1. /\ next \in 1..MaxPackets /\ batch = <<>> /\ batch' = <<>>
        /\ kept = cachedContexts /\ kept' = cachedContexts'
    BY <1>r, <1>k DEF Packets, At, IInv, Busy, OInv, Copied
  <2> QED BY <1>r, <2>1 DEF Kept!Route, kept
<1>2. CASE SocketSend
  <2>1. /\ pc["strand"] = "send" /\ UNCHANGED <<batch, cachedContexts>>
        /\ \/ UNCHANGED <<delivered, next>>
           \/ delivered' = Append(delivered, next) /\ next' = next + 1
    BY <1>2 DEF SocketSend, entry, At
  <2> QED BY <1>r, <1>u, <2>1
<1>3. CASE AddSendback
  <2>1. /\ pc["strand"] = "keep" /\ next' = next + 1 /\ UNCHANGED <<batch, delivered>>
        /\ cachedContexts' \in {cachedContexts, Append(cachedContexts, next)}
    BY <1>3 DEF AddSendback, RawAddSendback, entry, At
  <2> QED BY <1>r, <2>1
<1>4. CASE OnOnline
  <2>1. /\ batch' = cachedContexts /\ cachedContexts' = <<>> /\ batch = <<>>
        /\ UNCHANGED <<next, delivered>>
    BY <1>4 DEF OnOnline, ResetSendback, At, OInv, Copied
  <2> QED BY <1>k, <2>1
<1>5. CASE OnOnlineSend
  <2>1. /\ batch # <<>> /\ batch' = Tail(batch) /\ UNCHANGED <<next, cachedContexts>>
        /\ cachedContexts = <<>>
        /\ \/ delivered' = Append(delivered, Head(batch))
           \/ UNCHANGED delivered
    BY <1>5 DEF OnOnlineSend, entry, OInv, Copied, At
  <2>2. kept = batch /\ kept' = Tail(kept)
    BY <1>k, <2>1
  <2>3. Kept!HandOver \/ Kept!Lose
    BY <2>1, <2>2 DEF Kept!HandOver, Kept!Lose, kept
  <2> QED BY <2>3
<1>6. CASE Elapse \/ NextSocket \/ LoginStep \/ UNCHANGED vars
           \/ \E t \in Threads : LosingStep(t)
  <2>1. UNCHANGED <<batch, cachedContexts, next, delivered>>
    BY <1>6 DEF Elapse, NextSocket, LoginStep, ServerAuth, ServerAuthInsert,
                ServerAuthDone, LosingStep, Losing, AbortFind, AbortRemove, AbortErase,
                AbortRecheck, OnOffline, ChannelLost, vars, entry, packets
  <2> QED BY <2>1, <1>u
<1> QED
  BY <1>1, <1>2, <1>3, <1>4, <1>5, <1>6
  DEF Next, Routing, Login, LoginStep, LosingStep

\* The controller keeps its packets as a queue does: handed over from the oldest
\* on, lost, or kept, and delivered once, whatever the timer resets and aborts
\* during a handover that runs on a copy without the mutex.
THEOREM Queueing == Spec => QueueSpec
<1>1. Init => Kept!Init
  <2> SUFFICES ASSUME Init PROVE Kept!Init
    OBVIOUS
  <2>1. batch \o cachedContexts = <<>>
    BY KeptTyped, EmptyIn DEF Init
  <2> QED BY <2>1 DEF Init, Kept!Init
<1>2. IInv /\ OInv /\ [Next]_vars => [Kept!Next]_<<next, batch \o cachedContexts, delivered>>
  BY StepQueue
<1> QED
  BY <1>1, <1>2, InitIInv, StepIInv, InitOInv, StepOInv, PTL
  DEF Spec, QueueSpec, Kept!Spec
=============================================================================
