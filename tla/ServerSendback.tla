---------------------------- MODULE ServerSendback ----------------------------
(***************************************************************************)
(* ServerSendbackController: packets routed to an inner server that cannot *)
(* be reached are kept for it, and handed over when it comes back.         *)
(*                                                                         *)
(* One entry of the controller's table is modelled, that of one hosting    *)
(* group, with the part of the hub that drives it: the group's entry in    *)
(* oServerSocket and the vector it refers to, routing                      *)
(* (ProcessTransitroute), the login of a channel (ProcessAuthentication)   *)
(* and the loss of one (ProcessAbort), in their critical sections.         *)
(* The hosting strand routes and authenticates, the timer driver runs both *)
(* the controller's tick and the aborts of silent channels, and either may *)
(* abort a channel.  A thread that authenticates or aborts a channel holds *)
(* its mutex.  A vector is a shared object that bears the name of the      *)
(* channel it was made for: when nothing refers to it any more its         *)
(* destructor closes its members.                                          *)
(* A packet counts as delivered once a channel took it.                    *)
(***************************************************************************)
EXTENDS Integers, Sequences, SequencesExt

CONSTANTS
  Channels,               \* the sockets the server may connect with
  MaxPackets,             \* bound: packets routed in a behaviour
  PacketSize,             \* size of each packet
  MaxSendQueueSize, MaxSendBufferSize,
  ThoroughlyAbandonTime,  \* in clock steps; negative: never
  NoChannel

Packets == 1..MaxPackets
Threads == {"strand", "timer"}

ASSUME SendbackAssumption ==
  /\ MaxPackets \in Nat /\ PacketSize \in [Packets -> Nat \ {0}]
  /\ MaxSendQueueSize \in Nat /\ MaxSendBufferSize \in Nat
  /\ ThoroughlyAbandonTime \in Int
  /\ NoChannel \notin Channels

VARIABLES
  known,             \* _controllerTable has the entry
  age,               \* clock steps since cachedAbortingTime, up to MaxAge
  cachedPacketSize, cachedQueueCount, cachedContexts,
  disposed,
  table,             \* the vector in the table, or NoChannel
  members,           \* the sockets in each vector
  live,              \* the channels that are not disposed
  pc,                \* what each thread does next
  who,               \* the channel each thread has locked
  vec,               \* the vector a local variable of each thread refers to
  target,            \* the channel the strand has picked to send on
  batch,             \* local copy of the contexts being handed over
  next,              \* the next packet to be routed
  delivered,         \* packets some channel took, in order
  late               \* history: packets kept while the vector had members

entry == <<known, age, cachedPacketSize, cachedQueueCount, cachedContexts>>
vectors == <<table, members, live>>
control == <<pc, who, vec, target>>
packets == <<batch, next, delivered, late>>
vars == <<entry, disposed, vectors, control, packets>>

MaxAge == IF ThoroughlyAbandonTime > 0 THEN ThoroughlyAbandonTime ELSE 1

Labels == {"idle", "send", "keep", "insert", "online", "drain", "done",
           "find", "remove", "erase", "recheck", "offline"}

TypeOK ==
  /\ known \in BOOLEAN /\ disposed \in BOOLEAN
  /\ age \in 0..MaxAge
  /\ cachedPacketSize \in Nat /\ cachedQueueCount \in Nat
  /\ cachedContexts \in Seq(Packets)
  /\ table \in Channels \cup {NoChannel}
  /\ members \in [Channels -> SUBSET Channels] /\ live \subseteq Channels
  /\ pc \in [Threads -> Labels]
  /\ who \in [Threads -> Channels \cup {NoChannel}]
  /\ vec \in [Threads -> Channels \cup {NoChannel}]
  /\ target \in Channels \cup {NoChannel}
  /\ batch \in Seq(Packets) /\ delivered \in Seq(Packets)
  /\ next \in 1..(MaxPackets + 1) /\ late \subseteq Packets

Init ==
  /\ known = FALSE /\ age = 0
  /\ cachedPacketSize = 0 /\ cachedQueueCount = 0 /\ cachedContexts = <<>>
  /\ disposed = FALSE
  /\ table = NoChannel /\ members = [v \in Channels |-> {}] /\ live = {}
  /\ pc = [t \in Threads |-> "idle"]
  /\ who = [t \in Threads |-> NoChannel]
  /\ vec = [t \in Threads |-> NoChannel] /\ target = NoChannel
  /\ batch = <<>> /\ next = 1 /\ delivered = <<>> /\ late = {}

-----------------------------------------------------------------------------
At(t, label) == pc[t] = label
FreeFor(t, c) == \A u \in Threads \ {t} : who[u] # c
Goto(t, label) == pc' = [pc EXCEPT ![t] = label]

Members(v) == IF v = NoChannel THEN {} ELSE members[v]

\* The vectors something refers to.
Referenced == {table} \cup {vec[t] : t \in Threads}

\* A new socket may take the name of one that is gone with its vector.
Fresh(c) ==
  /\ c \notin live \cup Referenced /\ target # c
  /\ \A v \in Channels : c \notin members[v]
  /\ \A t \in Threads : who[t] # c

\* What becomes of members and channels once the vectors nobody refers to any
\* more are destroyed: what they hold is closed, and nobody hears of it.
Settle(t, in, alive) ==
  LET dead == Channels \cap (Referenced \ Referenced')
      victims == UNION {in[v] : v \in dead}
  IN  /\ \A c \in victims : FreeFor(t, c)
      /\ members' = [v \in Channels |-> IF v \in dead THEN {} ELSE in[v]]
      /\ live' = alive \ victims

\* The thread lets go of its vector.
Release(t) ==
  /\ vec' = [vec EXCEPT ![t] = NoChannel]
  /\ Settle(t, members, live)

\* The handler returns: it lets go of its vector and of its channel.
Return(t) ==
  /\ Goto(t, "idle")
  /\ who' = [who EXCEPT ![t] = NoChannel]
  /\ Release(t)

(* The controller.                                                         *)

\* An entry made now starts empty and with the present time.
KnownAge == IF known THEN age ELSE 0

\* Mutant: the bytes are compared before the packet's own are added.
HasRoomBefore(p) ==
  /\ cachedQueueCount + 1 <= MaxSendQueueSize
  /\ cachedPacketSize <= MaxSendBufferSize

HasRoom(p) ==
  /\ cachedQueueCount + 1 <= MaxSendQueueSize
  /\ cachedPacketSize + PacketSize[p] <= MaxSendBufferSize

Abandoned == ThoroughlyAbandonTime > 0 /\ KnownAge >= ThoroughlyAbandonTime

\* Mutant: packets are pushed on the wrong end.
RawAddSendbackFront(p) ==
  IF disposed \/ ThoroughlyAbandonTime = 0
    THEN UNCHANGED entry
    ELSE /\ known' = TRUE /\ age' = KnownAge
         /\ IF Abandoned \/ ~HasRoom(p)
              THEN UNCHANGED <<cachedPacketSize, cachedQueueCount, cachedContexts>>
              ELSE /\ cachedPacketSize' = cachedPacketSize + PacketSize[p]
                   /\ cachedQueueCount' = cachedQueueCount + 1
                   /\ cachedContexts' = <<p>> \o cachedContexts

\* A refused packet is lost, but leaves the entry behind.
RawAddSendback(p) ==
  IF disposed \/ ThoroughlyAbandonTime = 0
    THEN UNCHANGED entry
    ELSE /\ known' = TRUE /\ age' = KnownAge
         /\ IF Abandoned \/ ~HasRoom(p)
              THEN UNCHANGED <<cachedPacketSize, cachedQueueCount, cachedContexts>>
              ELSE /\ cachedPacketSize' = cachedPacketSize + PacketSize[p]
                   /\ cachedQueueCount' = cachedQueueCount + 1
                   /\ cachedContexts' = Append(cachedContexts, p)

\* Mutant: the contexts are dropped and the count is kept.
ResetSendbackContexts ==
  /\ cachedContexts' = <<>>
  /\ UNCHANGED <<cachedPacketSize, cachedQueueCount>>

ResetSendback ==
  cachedPacketSize' = 0 /\ cachedQueueCount' = 0 /\ cachedContexts' = <<>>

\* Mutant: an entry is given up only while it is fresh.
DueWhenFresh == age = 0

\* The comparisons of DoEvents: an entry of this very moment is due as well.
Due == ThoroughlyAbandonTime >= 0 /\ (age = 0 \/ age >= ThoroughlyAbandonTime)

\* The tick, under the controller's mutex.  The entry itself stays.
ProcessTickAlways ==
  /\ At("timer", "idle") /\ ~disposed
  /\ known /\ Due /\ cachedQueueCount # 0
  /\ ResetSendback
  /\ UNCHANGED <<known, age, disposed, vectors, control, packets>>

Elapse ==
  /\ known /\ age < MaxAge
  /\ age' = age + 1
  /\ UNCHANGED <<known, cachedPacketSize, cachedQueueCount, cachedContexts,
                 disposed, vectors, control, packets>>

Dispose ==
  /\ ~disposed
  /\ disposed' = TRUE /\ known' = FALSE /\ age' = 0
  /\ ResetSendback
  /\ UNCHANGED <<vectors, control, packets>>

-----------------------------------------------------------------------------
(* The hub around it: routing (ProcessTransitroute).                       *)

\* GetServerSocketVector and NextSocket, without the mutex of the socket: any
\* member, and it may be one that is being aborted.
NextSocket ==
  /\ At("strand", "idle") /\ next \in Packets
  /\ \/ /\ Members(table) = {}
        /\ Goto("strand", "keep") /\ UNCHANGED <<vec, target>>
     \/ /\ target' \in Members(table)
        /\ vec' = [vec EXCEPT !["strand"] = table]
        /\ Goto("strand", "send")
  /\ UNCHANGED <<entry, disposed, vectors, who, packets>>

\* Send waits for that mutex; a socket disposed by then refuses the packet.
SocketSend ==
  /\ At("strand", "send") /\ FreeFor("strand", target)
  /\ UNCHANGED <<entry, disposed, table, who, batch, late>>
  /\ IF target \in live
       THEN /\ delivered' = Append(delivered, next) /\ next' = next + 1
            /\ Goto("strand", "idle")
       ELSE Goto("strand", "keep") /\ UNCHANGED <<delivered, next>>
  /\ target' = NoChannel
  /\ Release("strand")

AddSendback ==
  /\ At("strand", "keep")
  /\ RawAddSendback(next) /\ next' = next + 1
  /\ late' = IF Members(table) = {} THEN late ELSE late \cup {next}
  /\ Goto("strand", "idle")
  /\ UNCHANGED <<disposed, vectors, who, vec, target, batch, delivered>>

-----------------------------------------------------------------------------
(* The login of a channel (ProcessAuthentication, PushAllAcceptServer).    *)

\* Under the mutex of the server object: the group's vector, or a new one.
ServerAuth(c) ==
  /\ At("strand", "idle") /\ Fresh(c)
  /\ IF table # NoChannel THEN UNCHANGED <<table, members>>
     ELSE table' = c /\ members' = [members EXCEPT ![c] = {}]
  /\ live' = live \cup {c}
  /\ who' = [who EXCEPT !["strand"] = c]
  /\ vec' = [vec EXCEPT !["strand"] = table']
  /\ Goto("strand", "insert")
  /\ UNCHANGED <<entry, disposed, target, packets>>

\* Mutant: the test for the first member is inverted.
ServerAuthInsertLater ==
  LET v == vec["strand"]
      c == who["strand"]
  IN  /\ At("strand", "insert")
      /\ members' = [members EXCEPT ![v] = @ \cup {c}]
      /\ Goto("strand", IF members[v] # {} THEN "online" ELSE "done")
      /\ UNCHANGED <<entry, disposed, table, live, who, vec, target, packets>>

\* Under the vector's: only the first member turns the server online.  The timer
\* may have taken the vector from the table in between.
ServerAuthInsert ==
  LET v == vec["strand"]
      c == who["strand"]
  IN  /\ At("strand", "insert")
      /\ members' = [members EXCEPT ![v] = @ \cup {c}]
      /\ Goto("strand", IF members[v] = {} THEN "online" ELSE "done")
      /\ UNCHANGED <<entry, disposed, table, live, who, vec, target, packets>>

\* Mutant: the contexts are taken and left where they are.
OnOnlineCopying ==
  /\ At("strand", "online")
  /\ Goto("strand", "drain")
  /\ batch' = cachedContexts
  /\ UNCHANGED <<entry, disposed, vectors, who, vec, target, next, delivered, late>>

\* On(kOnline), first half: the entry leaves the table.
OnOnline ==
  /\ At("strand", "online")
  /\ Goto("strand", "drain")
  /\ batch' = cachedContexts
  /\ known' = FALSE /\ age' = 0
  /\ ResetSendback
  /\ UNCHANGED <<disposed, vectors, who, vec, target, next, delivered, late>>

\* Second half, without the mutex: each context is sent on the new channel,
\* once, whether or not the channel takes it.
OnOnlineSend ==
  /\ At("strand", "drain") /\ batch # <<>>
  /\ batch' = Tail(batch)
  /\ delivered' = IF who["strand"] \in live THEN Append(delivered, Head(batch))
                  ELSE delivered
  /\ UNCHANGED <<entry, disposed, vectors, control, next, late>>

ServerAuthDone ==
  /\ At("strand", "done") \/ (At("strand", "drain") /\ batch = <<>>)
  /\ UNCHANGED <<entry, disposed, table, target, packets>>
  /\ Return("strand")

-----------------------------------------------------------------------------
(* The loss of one: ProcessAbort, ResourcesCleanup and RemoveByLinkNo.     *)

\* A receive error on the strand, or an overdue tick: the socket is disposed.
ChannelLost(t, c) ==
  /\ At(t, "idle") /\ c \in live /\ FreeFor(t, c)
  /\ live' = live \ {c}
  /\ Goto(t, "find") /\ who' = [who EXCEPT ![t] = c]
  /\ UNCHANGED <<entry, disposed, table, members, vec, target, packets>>

AbortFind(t) ==
  /\ At(t, "find")
  /\ UNCHANGED <<entry, disposed, table, target, packets>>
  /\ IF table = NoChannel THEN Return(t)
     ELSE /\ vec' = [vec EXCEPT ![t] = table]
          /\ Goto(t, "remove") /\ UNCHANGED <<who, members, live>>

AbortRemove(t) ==
  /\ At(t, "remove")
  /\ UNCHANGED <<entry, disposed, table, target, packets>>
  /\ IF who[t] \notin members[vec[t]] THEN Return(t)
     ELSE /\ members' = [members EXCEPT ![vec[t]] = @ \ {who[t]}]
          /\ Goto(t, "erase") /\ UNCHANGED <<who, vec, live>>

\* The entry is erased by its link type: it may hold another vector by now.
AbortErase(t) ==
  /\ At(t, "erase")
  /\ UNCHANGED <<entry, disposed, who, vec, target, packets>>
  /\ table' = IF members[vec[t]] = {} THEN NoChannel ELSE table
  /\ Goto(t, "recheck")
  /\ Settle(t, members, live)

\* The vector is read once more: if it has a member by now, nobody is told.
AbortRecheck(t) ==
  /\ At(t, "recheck")
  /\ UNCHANGED <<entry, disposed, table, target, packets>>
  /\ IF members[vec[t]] # {} THEN Return(t)
     ELSE Release(t) /\ Goto(t, "offline") /\ UNCHANGED who

OnOffline(t) ==
  /\ At(t, "offline")
  /\ UNCHANGED <<cachedPacketSize, cachedQueueCount, cachedContexts, disposed,
                 table, target, packets>>
  /\ known' = TRUE /\ age' = 0
  /\ Return(t)

-----------------------------------------------------------------------------
Routing == NextSocket \/ SocketSend \/ AddSendback
Login == ServerAuthInsert \/ OnOnline \/ OnOnlineSend \/ ServerAuthDone
Losing(t) == AbortFind(t) \/ AbortRemove(t) \/ AbortErase(t) \/ AbortRecheck(t)
               \/ OnOffline(t)

Next ==
  \/ ProcessTickAlways \/ Elapse \/ Dispose
  \/ Routing \/ Login
  \/ (\E c \in Channels : ServerAuth(c))
  \/ (\E t \in Threads : Losing(t) \/ \E c \in Channels : ChannelLost(t, c))

\* The handlers run to their end, time passes, and the timer driver serves
\* the controller's timer however many sockets time out meanwhile.
Fairness ==
  /\ WF_vars(Login) /\ WF_vars(SocketSend \/ AddSendback)
  /\ \A t \in Threads : WF_vars(Losing(t))
  /\ WF_vars(Elapse) /\ SF_vars(ProcessTickAlways)

Spec == Init /\ [][Next]_vars /\ Fairness

-----------------------------------------------------------------------------
(* Properties.                                                             *)

\* The two counters the limits are tested with say what the list holds: no
\* path (refusal, reset, handover, offline event) changes one without the
\* others.  The sizes add up to the second: there is a running total of them.
Accounting ==
  /\ cachedQueueCount = Len(cachedContexts)
  /\ \E total \in [0..cachedQueueCount -> 0..cachedPacketSize] :
       /\ total[0] = 0 /\ total[cachedQueueCount] = cachedPacketSize
       /\ \A i \in 1..cachedQueueCount :
            total[i] = total[i - 1] + PacketSize[cachedContexts[i]]

\* One inner server never holds more than the configured packets and bytes,
\* however often it comes and goes (the settings' comment in the header).
Bounded ==
  /\ Len(cachedContexts) <= MaxSendQueueSize
  /\ cachedPacketSize <= MaxSendBufferSize

In(s) == {s[i] : i \in 1..Len(s)}
Distinct(s) == \A i, j \in 1..Len(s) : s[i] = s[j] => i = j

\* A packet is kept, being handed over, or delivered, in one place and once,
\* although the handover runs on a copy and without the controller's mutex.
AtMostOnce ==
  /\ Distinct(cachedContexts) /\ Distinct(batch) /\ Distinct(delivered)
  /\ In(cachedContexts) \cap In(batch) = {}
  /\ In(cachedContexts) \cap In(delivered) = {}
  /\ In(batch) \cap In(delivered) = {}

\* The server gets its packets in the order they were routed, across any number
\* of outages and threads: only one that was kept while the server had a channel,
\* because the channel picked for it was lost before the send, can be overtaken.
InOrder ==
  \A i, j \in 1..Len(delivered) :
    i < j => delivered[i] < delivered[j] \/ delivered[j] \in late

\* And only such a packet is kept for a server that is online, where nothing
\* hands it over until all its channels have gone and one has come back.
NothingStuck ==
  At("strand", "idle") /\ Members(table) # {} => In(cachedContexts) \subseteq late

\* What is kept is what is counted, within the limits, and is handed over whole
\* and in order.
KeptInOrder == Accounting /\ Bounded /\ InOrder /\ NothingStuck

\* The list, the copy of it that is being handed over and its counters are a
\* queue of packets, whoever aborts channels and resets the entry meanwhile.
Kept == INSTANCE PacketQueue WITH kept <- batch \o cachedContexts
QueueSpec == Kept!Spec

\* No packet is kept forever: it is handed over or abandoned, also the one
\* that was kept although the server is online and never goes offline.
NothingKeptForever ==
  ThoroughlyAbandonTime > 0 =>
    \A p \in Packets : []<>(p \notin In(cachedContexts) \cup In(batch))
=============================================================================
