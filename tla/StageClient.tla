----------------------------- MODULE StageClient -----------------------------
(***************************************************************************)
(* StageClient: the inner server's end of the link to the hub.             *)
(*                                                                         *)
(* A fixed number of list nodes carries the channels.  A node is free, or  *)
(* works for a socket that connects and authenticates; an authenticated    *)
(* channel is also in the list of available channels, from which a cursor  *)
(* picks the one to send on.  A timer puts free nodes to work again.       *)
(* The link is open while some channel is available.  What cannot be sent  *)
(* meanwhile is kept in the adapter (the sendback contexts), and when the  *)
(* link is lost the virtual sockets (the outer clients) and the server     *)
(* sockets (the other inner servers) are aborted.                          *)
(*                                                                         *)
(* Three threads: the hosting strand runs the socket callbacks, the timer  *)
(* driver the client's tick and the ticks of the sockets, and an           *)
(* application thread calls the client.  A thread that processes a socket  *)
(* holds its mutex, and one that closes a virtual socket holds that one's. *)
(* Every step below is one critical section of the client's mutex or of    *)
(* the adapter's, or one unprotected assignment; where a thread waits for  *)
(* another mutex inside a critical section of the client's, the label of   *)
(* its pc is one of Holding.                                               *)
(***************************************************************************)
EXTENDS Naturals, Sequences, SequencesExt, FiniteSets

CONSTANTS
  Channels,          \* channel socket objects
  MaxConcurrent,     \* number of list nodes
  Handles,           \* link numbers of outer clients
  Peers,             \* the other inner servers
  MaxSendQueueSize,
  AbandonTime,       \* the adapter's thoroughlyAbandonTime, in clock steps
  MaxSends,          \* bound: calls of the application
  Packet,            \* an application packet; an abort is its handle
  NoTime,            \* abortingTime = 0
  NoChannel

ASSUME ClientAssumption ==
  /\ MaxConcurrent \in Nat \ {0} /\ IsFiniteSet(Channels)
  /\ MaxSendQueueSize \in Nat /\ MaxSends \in Nat /\ AbandonTime \in Nat \ {0}
  /\ Packet \notin Handles /\ NoChannel \notin Channels /\ NoTime \notin Nat

Threads == {"strand", "timer", "app"}
Drivers == {"strand", "timer"}  \* the threads that process sockets

VARIABLES
  listening, disposed,
  phase,          \* life of each channel socket
  free,           \* number of nodes in _freeChannelNode
  working,        \* keys of _workingChannelsTable
  available,      \* sockets of _availableChannelsList, in order
  cursor,         \* socket of the node _currentAvailableChannels, if any
  absOpened, allowAccept, firstTimeAccept,
  virtual,        \* keys of _virtualSocketTable
  servers,        \* keys of _serverSocketTable
  abortingTime,   \* clock steps since the link was lost, or NoTime
  contexts,       \* the adapter's list; contextNum is its length
  pc, who,        \* what each thread does next, and to which socket
  events,         \* local of ProcessAbort: the application is to be told
  old,            \* local of AbortAllServerSockets: those still to be closed
  leaving,        \* local of ProcessAccept and ProcessAbort: the virtual
                  \* sockets the strand is about to abort
  tries, item,    \* locals of Send: attempts left, and what is being sent
  sends,
  told,           \* the last event the application got was OnOpen
  crossed         \* history: a channel opened, or the client was disposed,
                  \* while a thread was still announcing the loss of the link

tables == <<free, working, available, cursor>>
flags == <<absOpened, allowAccept, firstTimeAccept>>
remote == <<virtual, servers>>
adapter == <<abortingTime, contexts>>
losing == <<events, old>>
sending == <<tries, item, sends>>
vars == <<listening, disposed, phase, tables, flags, remote, adapter, pc, who,
          losing, leaving, sending, told, crossed>>

\* Labels at which a thread waits while it owns the client's mutex.
Holding == {"aborting", "outside", "prevented", "accept"}

Items == Handles \cup {Packet}

TypeOK ==
  /\ listening \in BOOLEAN /\ disposed \in BOOLEAN
  /\ phase \in [Channels -> {"connecting", "open", "closed"}]
  /\ free \in 0..MaxConcurrent
  /\ working \subseteq Channels /\ available \in Seq(Channels)
  /\ cursor \in Channels \cup {NoChannel}
  /\ absOpened \in BOOLEAN /\ allowAccept \in BOOLEAN
  /\ firstTimeAccept \in BOOLEAN
  /\ virtual \subseteq Handles /\ servers \subseteq Peers
  /\ abortingTime \in 0..AbandonTime \cup {NoTime}
  /\ contexts \in Seq(Items)
  /\ pc \in [Threads -> {"idle", "release", "lost", "virtual", "servers",
                         "closing", "notify", "next", "send", "cache", "destroy"}
                          \cup Holding]
  /\ who \in [Threads -> Channels \cup {NoChannel}]
  /\ events \in [Drivers -> BOOLEAN] /\ old \in [Drivers -> SUBSET Peers]
  /\ leaving \subseteq Handles
  /\ tries \in Nat /\ item \in Items /\ sends \in 0..MaxSends
  /\ told \in BOOLEAN /\ crossed \in BOOLEAN

Init ==
  /\ listening = FALSE /\ disposed = FALSE
  /\ phase = [c \in Channels |-> "closed"]
  /\ free = MaxConcurrent /\ working = {} /\ available = <<>>
  /\ cursor = NoChannel
  /\ absOpened = FALSE /\ allowAccept = FALSE /\ firstTimeAccept = FALSE
  /\ virtual = {} /\ servers = {}
  /\ abortingTime = NoTime /\ contexts = <<>>
  /\ pc = [t \in Threads |-> "idle"]
  /\ who = [t \in Threads |-> NoChannel]
  /\ events = [t \in Drivers |-> FALSE] /\ old = [t \in Drivers |-> {}]
  /\ leaving = {}
  /\ tries = 0 /\ item = Packet /\ sends = 0
  /\ told = FALSE /\ crossed = FALSE

-----------------------------------------------------------------------------
At(t, label) == pc[t] = label
Goto(t, label) == pc' = [pc EXCEPT ![t] = label]
ClientFree(t) == \A u \in Threads \ {t} : pc[u] \notin Holding
FreeFor(t, c) == \A u \in Drivers \ {t} : who[u] # c

\* A new socket may take the name of a closed one that nobody refers to.
Fresh(c) == phase[c] = "closed" /\ c \notin working /\ \A t \in Threads : who[t] # c

In(s) == {s[i] : i \in 1..Len(s)}

\* The channel after c in the list, if any.
NextOf(c) ==
  LET i == CHOOSE i \in 1..Len(available) : available[i] = c
  IN  IF i < Len(available) THEN available[i + 1] ELSE NoChannel

\* NextAvailableChannel: the cursor's channel; the cursor does not move on.
Current ==
  IF available = <<>> THEN NoChannel
  ELSE IF cursor = NoChannel THEN Head(available) ELSE cursor

\* What Send lets the adapter keep: nothing before the first loss of the
\* link, while it is open, or once it has been lost for too long.
Keeps(time) == time # NoTime /\ time < AbandonTime

\* The list with as much of new as its limit allows.
Kept(time, list, new) ==
  LET all == list \o new
  IN  IF ~Keeps(time) THEN list
      ELSE IF Len(all) <= MaxSendQueueSize THEN all
      ELSE SubSeq(all, 1, MaxSendQueueSize)

\* The virtual socket the application is closing, whose mutex it holds.
Closing(h) == item = h /\ pc["app"] \in {"next", "send", "cache"}

\* A thread that sends tries the current channel only, whose mutex it needs.
CanTry(t) == Current # NoChannel => FreeFor(t, Current)
Sendable == Current # NoChannel /\ phase[Current] = "open"

\* The adapter after the aborts of these clients have been sent, or not.
AfterAborts(clients) ==
  IF Sendable \/ disposed THEN contexts
  ELSE Kept(abortingTime, contexts, SetToSeq(clients))

-----------------------------------------------------------------------------
(* Nodes and channels.                                                     *)

\* Mutant: the node of a socket that cannot be opened is lost.
FreeAfterLeaking(new, failed) == free - Cardinality(new)

FreeAfter(new, failed) == free - Cardinality(new \ failed)

\* AddAndOpenReleaseAllChannels: a new socket for every free node.  Those of
\* failed cannot even be opened: their nodes are free again at once.
OpenReleased(new, failed) ==
  /\ failed \subseteq new /\ \A c \in new : Fresh(c)
  /\ phase' = [c \in Channels |-> IF c \in new \ failed THEN "connecting"
                                  ELSE phase[c]]
  /\ working' = working \cup (new \ failed)
  /\ free' = FreeAfter(new, failed)
  /\ UNCHANGED <<available, cursor, flags>>
  /\ IF failed # {} /\ available = <<>>
       THEN /\ \A h \in virtual : ~Closing(h)
            /\ virtual' = {} /\ servers' = {} /\ abortingTime' = 0
       ELSE UNCHANGED <<remote, abortingTime>>

Listen ==
  /\ At("app", "idle") /\ ClientFree("app") /\ ~listening /\ ~disposed
  /\ listening' = TRUE
  /\ \E new \in SUBSET Channels : \E failed \in SUBSET new :
       Cardinality(new) = free /\ OpenReleased(new, failed)
  /\ UNCHANGED <<disposed, contexts, pc, who, losing, leaving, sending, told, crossed>>

\* ProcessTickAlways, under the client's mutex: the free nodes are put to
\* work when the recovery period is over, and the adapter is given up when
\* the link has been lost for too long, or was lost this very moment.
Due(time) == time # NoTime /\ (time = 0 \/ time >= AbandonTime)

\* Mutant: nodes are put to work only while the link is open.
RecoversOverLink(new) == new = {} \/ (Cardinality(new) = free /\ available # <<>>)

Recovers(new) == new = {} \/ Cardinality(new) = free

Tick(new, failed) ==
  /\ At("timer", "idle") /\ ClientFree("timer") /\ listening /\ ~disposed
  /\ Recovers(new)
  /\ OpenReleased(new, failed)
  /\ contexts' = IF Due(abortingTime') THEN <<>> ELSE contexts
  /\ UNCHANGED <<listening, disposed, pc, who, losing, leaving, sending, told, crossed>>

Elapse ==
  /\ abortingTime \in 0..(AbandonTime - 1)
  /\ abortingTime' = abortingTime + 1
  /\ UNCHANGED <<listening, disposed, phase, tables, flags, remote, contexts,
                 pc, who, losing, leaving, sending, told, crossed>>

\* PushAllSendback: the loop's index rises while contextNum falls, so only
\* the first half, rounded up, is sent.
PushAllSendback == SubSeq(contexts, ((Len(contexts) + 1) \div 2) + 1, Len(contexts))

Announcing(t) == pc[t] \in {"lost", "virtual", "aborting", "servers", "closing", "notify"}

\* The channel has authenticated: ProcessOpen, under both mutexes.
Opened(c) ==
  /\ At("strand", "idle") /\ ClientFree("strand") /\ FreeFor("strand", c)
  /\ phase[c] = "connecting"
  /\ phase' = [phase EXCEPT ![c] = "open"]
  /\ available' = Append(available, c)
  /\ absOpened' = TRUE
  /\ IF available = <<>>
       THEN abortingTime' = NoTime /\ contexts' = PushAllSendback /\ told' = TRUE
       ELSE UNCHANGED <<adapter, told>>
  /\ crossed' = (crossed \/ \E t \in Drivers : Announcing(t))
  /\ UNCHANGED <<listening, disposed, free, working, cursor, allowAccept,
                 firstTimeAccept, remote, pc, who, losing, leaving, sending>>

\* A socket error on the strand, or an overdue tick: the socket is disposed,
\* and the client's handler runs under its mutex.
AbortBegin(t, c) ==
  /\ At(t, "idle") /\ phase[c] \in {"connecting", "open"} /\ FreeFor(t, c)
  /\ phase' = [phase EXCEPT ![c] = "closed"]
  /\ Goto(t, "release") /\ who' = [who EXCEPT ![t] = c]
  /\ UNCHANGED <<listening, disposed, tables, flags, remote, adapter, losing,
                 leaving, sending, told, crossed>>

\* Mutant: the cursor stays on a node that leaves the list.
UnlistKeepingCursor(c) ==
  /\ \E i \in 1..Len(available) :
       available[i] = c /\ available' = RemoveAt(available, i)
  /\ UNCHANGED cursor

\* The channel's node leaves the list; the cursor moves on before.
Unlist(c) ==
  /\ \E i \in 1..Len(available) :
       available[i] = c /\ available' = RemoveAt(available, i)
  /\ cursor' = IF cursor = c THEN NextOf(c) ELSE cursor

\* Mutant: the permission to accept survives the link.
CloseLinkAccepting(t) ==
  /\ events' = [events EXCEPT ![t] = absOpened]
  /\ absOpened' = FALSE /\ firstTimeAccept' = FALSE /\ UNCHANGED allowAccept

\* Mutant: the flag is cleared before it is read.
CloseLinkUntold(t) ==
  /\ events' = [events EXCEPT ![t] = FALSE]
  /\ absOpened' = FALSE /\ allowAccept' = FALSE /\ firstTimeAccept' = FALSE

CloseLink(t) ==
  /\ events' = [events EXCEPT ![t] = absOpened]
  /\ absOpened' = FALSE /\ allowAccept' = FALSE /\ firstTimeAccept' = FALSE

\* ReleaseChannel and the test for the last channel.
Release(t) ==
  LET c == who[t]
  IN  /\ At(t, "release") /\ ClientFree(t)
      /\ working' = working \ {c} /\ free' = free + 1
      /\ IF c \in In(available) THEN Unlist(c) ELSE UNCHANGED <<available, cursor>>
      /\ \/ available' = <<>> /\ CloseLink(t) /\ Goto(t, "lost") /\ UNCHANGED who
         \/ /\ available' # <<>>
            /\ Goto(t, "idle") /\ who' = [who EXCEPT ![t] = NoChannel]
            /\ UNCHANGED <<flags, events>>
      /\ UNCHANGED <<listening, disposed, phase, remote, adapter, old, leaving,
                     sending, told, crossed>>

\* The rest of ProcessAbort holds no mutex of the client from step to step.
LinkLost(t) ==
  /\ At(t, "lost")
  /\ abortingTime' = 0
  /\ Goto(t, "virtual")
  /\ UNCHANGED <<listening, disposed, phase, tables, flags, remote, contexts,
                 who, losing, leaving, sending, told, crossed>>

\* AbortAllVirtualSockets sends one message for all of them, or else an
\* abort for each, all in one critical section of the client's mutex.
AbortingVirtualSockets(t) ==
  /\ At(t, "virtual") /\ ClientFree(t)
  /\ Goto(t, "aborting")
  /\ UNCHANGED <<listening, disposed, phase, tables, flags, remote, adapter,
                 who, losing, leaving, sending, told, crossed>>

AbortAllVirtualSockets(t) ==
  /\ At(t, "aborting") /\ CanTry(t) /\ \A h \in virtual : ~Closing(h)
  /\ cursor' = Current
  /\ contexts' = AfterAborts(virtual)
  /\ virtual' = {}
  /\ Goto(t, "servers")
  /\ UNCHANGED <<listening, disposed, phase, free, working, available, flags,
                 servers, abortingTime, who, losing, leaving, sending, told,
                 crossed>>

\* Mutant: the sockets stay in the table until they are closed, which is skipped.
AbortAllServerSocketsKeeping(t) ==
  /\ At(t, "servers") /\ ClientFree(t)
  /\ Goto(t, "notify")
  /\ UNCHANGED <<listening, disposed, phase, tables, flags, remote, adapter,
                 who, losing, leaving, sending, told, crossed>>

\* AbortAllServerSockets takes all of them out of the table ...
AbortAllServerSockets(t) ==
  /\ At(t, "servers") /\ ClientFree(t)
  /\ IF disposed \/ servers = {}
       THEN Goto(t, "notify") /\ UNCHANGED <<servers, old>>
       ELSE /\ servers' = {} /\ old' = [old EXCEPT ![t] = servers]
            /\ Goto(t, "closing")
  /\ UNCHANGED <<listening, disposed, phase, tables, flags, virtual, adapter,
                 who, events, leaving, sending, told, crossed>>

\* ... and closes them one by one, without the mutex.  Closing one erases its key
\* (AbortServerSocket), which may be that of a socket a channel that has opened
\* in the meantime brought: that one is closed in its turn.
CloseServerSocket(t) ==
  /\ At(t, "closing") /\ ClientFree(t)
  /\ \E s \in old[t] :
       IF s \in servers /\ ~disposed THEN servers' = servers \ {s} /\ UNCHANGED <<old, pc>>
       ELSE /\ old' = [old EXCEPT ![t] = @ \ {s}]
            /\ IF old[t] = {s} THEN Goto(t, "notify") ELSE UNCHANGED pc
            /\ UNCHANGED servers
  /\ UNCHANGED <<listening, disposed, phase, tables, flags, virtual, adapter,
                 who, events, leaving, sending, told, crossed>>

\* OnAbort calls AbortEvent, which is NULL once the client is disposed.
OnAbort(t) ==
  /\ At(t, "notify") /\ (events[t] => ClientFree(t))
  /\ told' = (told /\ (events[t] => disposed))
  /\ events' = [events EXCEPT ![t] = FALSE]
  /\ Goto(t, "idle") /\ who' = [who EXCEPT ![t] = NoChannel]
  /\ UNCHANGED <<listening, disposed, phase, tables, flags, remote, adapter,
                 old, leaving, sending, crossed>>

-----------------------------------------------------------------------------
(* Messages of the hub.                                                    *)

Receives(c) ==
  /\ At("strand", "idle") /\ ClientFree("strand") /\ FreeFor("strand", c)
  /\ phase[c] = "open"
  /\ UNCHANGED <<listening, disposed, phase, tables, absOpened, allowAccept,
                 adapter, losing, sending, told, crossed>>

\* The strand goes on to abort these virtual sockets.
Aborting(c, label, handles) ==
  IF handles = {} THEN UNCHANGED <<pc, who, leaving>>
  ELSE /\ leaving' = handles
       /\ Goto("strand", label) /\ who' = [who EXCEPT !["strand"] = c]

\* The first announcement on a new link is complete: clients outside it are
\* aborted.  (Bound: a handle whose closing is not over does not come back.)
AcceptClients(c, clients) ==
  /\ Receives(c)
  /\ At("app", "destroy") => item \notin clients \ virtual
  /\ firstTimeAccept' = TRUE
  /\ virtual' = virtual \cup clients
  /\ Aborting(c, "outside", IF firstTimeAccept THEN {} ELSE virtual \ clients)
  /\ UNCHANGED servers

\* AbortClient, whose virtual socket is not to answer with an abort.
AbortClient(c, h) ==
  /\ Receives(c) /\ h \in virtual
  /\ Aborting(c, "prevented", {h})
  /\ UNCHANGED <<firstTimeAccept, remote>>

AbortVirtualSockets ==
  /\ pc["strand"] \in {"outside", "prevented"}
  /\ \A h \in leaving : ~Closing(h)
  /\ virtual' = virtual \ leaving /\ leaving' = {}
  /\ \/ /\ At("strand", "outside") /\ CanTry("strand")
        /\ cursor' = Current /\ contexts' = AfterAborts(leaving)
     \/ At("strand", "prevented") /\ UNCHANGED <<cursor, contexts>>
  /\ Goto("strand", "idle") /\ who' = [who EXCEPT !["strand"] = NoChannel]
  /\ UNCHANGED <<listening, disposed, phase, free, working, available, flags,
                 servers, abortingTime, losing, sending, told, crossed>>

\* AcceptServer adds a server socket, and so does any message from it.
ServerAnnounced(c, s) ==
  /\ Receives(c)
  /\ servers' \in {servers \cup {s}, servers \ {s}}
  /\ UNCHANGED <<firstTimeAccept, virtual, pc, who, leaving>>

-----------------------------------------------------------------------------
(* Calls of the application.                                               *)

\* Send of a packet, or Close of a virtual socket, which sends an abort.
Send ==
  /\ At("app", "idle") /\ ~disposed /\ sends < MaxSends
  /\ sends' = sends + 1
  /\ item' \in {Packet} \cup virtual
  /\ tries' = Len(available)
  /\ Goto("app", "next")
  /\ UNCHANGED <<listening, disposed, phase, tables, flags, remote, adapter,
                 who, losing, leaving, told, crossed>>

RawSendNext ==
  /\ At("app", "next") /\ ClientFree("app")
  /\ IF tries = 0
       THEN Goto("app", "cache") /\ UNCHANGED <<who, cursor, tries>>
       ELSE /\ cursor' = Current
            /\ who' = [who EXCEPT !["app"] = Current]
            /\ IF Current = NoChannel THEN tries' = tries - 1 /\ UNCHANGED pc
               ELSE Goto("app", "send") /\ UNCHANGED tries
  /\ UNCHANGED <<listening, disposed, phase, free, working, available, flags,
                 remote, adapter, losing, leaving, item, sends, told, crossed>>

\* Done; a virtual socket is then looked up once more, by its handle.
Sent ==
  /\ Goto("app", IF item = Packet THEN "idle" ELSE "destroy")
  /\ who' = [who EXCEPT !["app"] = NoChannel]
  /\ tries' = 0

RawSend ==
  /\ At("app", "send") /\ FreeFor("app", who["app"])
  /\ IF phase[who["app"]] = "open" THEN Sent
     ELSE /\ tries' = tries - 1
          /\ Goto("app", "next") /\ who' = [who EXCEPT !["app"] = NoChannel]
  /\ UNCHANGED <<listening, disposed, phase, tables, flags, remote, adapter,
                 losing, leaving, item, sends, told, crossed>>

\* The second half of Send, under the adapter's mutex alone.
Cache ==
  /\ At("app", "cache")
  /\ contexts' = Kept(abortingTime, contexts, <<item>>)
  /\ Sent
  /\ UNCHANGED <<listening, disposed, phase, tables, flags, remote,
                 abortingTime, losing, leaving, item, sends, told, crossed>>

DestroyObject ==
  /\ At("app", "destroy") /\ ClientFree("app")
  /\ virtual' = virtual \ {item} /\ item' = Packet
  /\ Goto("app", "idle")
  /\ UNCHANGED <<listening, disposed, phase, tables, flags, servers, adapter,
                 who, losing, leaving, tries, sends, told, crossed>>

\* PermittedAcceptClient and PreventAcceptClient send inside the client's
\* critical section.
AllowAccept ==
  /\ At("app", "idle") /\ ClientFree("app") /\ ~disposed
  /\ Current # NoChannel
  /\ Goto("app", "accept")
  /\ UNCHANGED <<listening, disposed, phase, tables, flags, remote, adapter,
                 who, losing, leaving, sending, told, crossed>>

AllowAcceptSend ==
  /\ At("app", "accept") /\ CanTry("app")
  /\ allowAccept' = IF Sendable THEN ~allowAccept ELSE allowAccept
  /\ cursor' = Current
  /\ Goto("app", "idle")
  /\ UNCHANGED <<listening, disposed, phase, free, working, available,
                 absOpened, firstTimeAccept, remote, adapter, who, losing,
                 leaving, sending, told, crossed>>

\* Mutant: the handlers are removed before the sockets are closed.
TellDisposedNothing == UNCHANGED told

\* Closing the last available channel tells the application.  When no channel is
\* available nobody is told, neither by Dispose, which removes the handlers, nor
\* by a thread that is still to announce the loss.
TellDisposed == told' = (told /\ available = <<>>)

\* Every socket is closed, and releases its node as in ProcessAbort, before the
\* tables go.
Dispose ==
  /\ At("app", "idle") /\ ClientFree("app") /\ ~disposed
  /\ \A t \in Drivers : who[t] \notin working
  /\ disposed' = TRUE /\ listening' = FALSE
  /\ phase' = [c \in Channels |-> IF c \in working THEN "closed" ELSE phase[c]]
  /\ free' = 0 /\ working' = {} /\ available' = <<>> /\ cursor' = NoChannel
  /\ absOpened' = FALSE /\ allowAccept' = FALSE /\ firstTimeAccept' = FALSE
  /\ virtual' = {} /\ servers' = {}
  /\ abortingTime' = IF working = {} THEN abortingTime ELSE 0
  /\ contexts' = <<>>
  /\ TellDisposed
  /\ crossed' = (crossed \/ \E t \in Drivers : Announcing(t) /\ events[t])
  /\ UNCHANGED <<pc, who, losing, leaving, sending>>

-----------------------------------------------------------------------------
Losing(t) ==
  \/ Release(t) \/ LinkLost(t) \/ AbortingVirtualSockets(t)
  \/ AbortAllVirtualSockets(t) \/ AbortAllServerSockets(t)
  \/ CloseServerSocket(t) \/ OnAbort(t)

Message(c) ==
  \/ \E clients \in SUBSET Handles : AcceptClients(c, clients)
  \/ \E h \in Handles : AbortClient(c, h)
  \/ \E s \in Peers : ServerAnnounced(c, s)

Sending == RawSendNext \/ RawSend \/ Cache \/ DestroyObject \/ AllowAcceptSend

Next ==
  \/ Listen \/ Elapse \/ Dispose \/ AllowAccept
  \/ (\E new \in SUBSET Channels : \E failed \in SUBSET new : Tick(new, failed))
  \/ (\E c \in Channels : Opened(c) \/ Message(c))
  \/ (\E t \in Drivers : Losing(t) \/ \E c \in Channels : AbortBegin(t, c))
  \/ AbortVirtualSockets \/ Send \/ Sending

\* Handlers run to their end, for a thread gets a mutex that is released
\* again and again, and a recovery whose sockets can be opened comes again
\* and again while there are free nodes.
Fairness ==
  /\ SF_vars(Losing("timer")) /\ SF_vars(Losing("strand") \/ AbortVirtualSockets)
  /\ SF_vars(Sending)
  /\ SF_vars(\E new \in SUBSET Channels : new # {} /\ Tick(new, {}))

\* Time passes and the timer driver serves the client's timer.
Clock == WF_vars(Elapse) /\ SF_vars(Tick({}, {}))

\* The hub accepts a channel again and again if one keeps being offered.
HubAccepts == SF_vars(\E c \in Channels : Opened(c))

Safe == Init /\ [][Next]_vars
Spec == Safe /\ Fairness /\ Clock
SpecServed == Safe /\ Fairness /\ HubAccepts

-----------------------------------------------------------------------------
(* Properties.                                                             *)

Quiet == \A t \in Drivers : At(t, "idle")

\* A list node is free or works for exactly one socket, through every abort,
\* failed open and recovery: none is lost and none is counted twice.
NodesConserved == ~disposed => free + Cardinality(working) = MaxConcurrent

\* The list holds each working channel at most once, and the cursor, a bare
\* pointer, never points to a node that has left the list.
ListSound ==
  /\ In(available) \subseteq working
  /\ \A i, j \in 1..Len(available) : available[i] = available[j] => i = j
  /\ cursor \in In(available) \cup {NoChannel}

\* Nodes, list and cursor stay in step through every abort, failed open and
\* recovery by two threads.
NodesSound == NodesConserved /\ ListSound

\* The client never believes it accepts outer clients over a lost link: the
\* hub's new registration starts by preventing them.
AcceptNeedsLink == allowAccept => available # <<>>

\* When no loss is being processed, virtual and server sockets exist only
\* over an open link, and the last event the application got says whether it
\* is open, unless a channel once opened, or the client was disposed, while its
\* loss was being announced.
LossSettled ==
  Quiet => /\ available = <<>> => virtual = {} /\ servers = {}
           /\ ~crossed => (told <=> available # <<>>)

\* Thread t waits for a mutex that u holds.
Waits(t, u) ==
  \/ pc[t] \in {"release", "virtual", "servers", "closing", "next", "destroy"}
     /\ pc[u] \in Holding
  \/ At(t, "notify") /\ events[t] /\ pc[u] \in Holding
  \/ pc[t] \in Holding \ {"prevented"} /\ u \in Drivers
     /\ Current # NoChannel /\ who[u] = Current
  \/ At(t, "send") /\ u \in Drivers /\ who[u] = who[t]
  \/ u = "app" /\ \E h \in IF At(t, "aborting") THEN virtual
                            ELSE IF pc[t] \in Holding THEN leaving ELSE {} :
                     Closing(h)

\* Threads that wait for one another, which the code does not rule out.
Deadlocked ==
  \E t, u \in Threads :
    t # u /\ Waits(t, u)
      /\ (Waits(u, t) \/ \E w \in Threads \ {t, u} : Waits(u, w) /\ Waits(w, t))

\* The link always comes back if the hub keeps accepting channels, unless
\* threads wait for one another for ever: no abort, refusal or failed open
\* leaves the nodes unable to work again.
Reconnects == [](listening => <>(disposed \/ available # <<>> \/ Deadlocked))
=============================================================================
