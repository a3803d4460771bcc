# A formal model of the stage middleware

`src/` is a C++11 messaging middleware over boost::asio. Outer clients connect
to a *hub* (`StageSocketCommunication`); inner servers connect to it with
several parallel channels each (`StageClient`). The hub gives every outer
client a link number, tells the inner server of it, forwards messages both
ways, and exchanges messages between inner servers. Both ends keep messages
for a peer that is away for a short time.

This directory holds TLA+ modules of that code, of its SDK client and of its
containers, TLC configurations that check them on small instances, and TLAPS
proofs for every size.

## Inventory

| component | code | state | operations | what is hard |
|---|---|---|---|---|
| hub registry | `stage/stage/StageSocketCommunication.*` | tables of socket vectors by platform, server number and link type; each vector's members, `allowAccept`, cursor; descriptor limit | authentication of clients and inner servers, accept/prevent/abort commands, routing, removal after an abort, clearing | two threads, many small critical sections, references to vectors outliving their table entry |
| server sendback controller | `stage/stage/ServerSendbackController.*` | per inner server: kept packets, counters, time of going offline | add, tick, online, offline, dispose | handover outside the mutex, counters against limits, abandoning against return |
| stage client adapter | `stage/stage/StageClient.*` | channel nodes (free, working, available), cursor, adapter, virtual and server sockets, flags | listen, recover, open, abort, send, accept, dispose | loss of the link announced in several steps while channels reopen; raw node pointers; nested mutexes |
| virtual and server sockets | `StageVirtualSocket.*`, `StageServerSocket.*` | handle, owner, disposed | send, close, events | closing under their own mutex calls back into the client |
| stage socket | `StageSocket.*` | authentication state, keys, activity times, timer | open, authenticate, tick, encrypt, events | timeout against answer, messages in the wrong state |
| net socket | `net/Socket.*`, `ISocket.*` | kernel socket, receiver, disposed | connect, receive, send, close | frames in pieces; abort from several threads |
| listeners | `net/SocketListener.*`, `StageSocketListener.*`, `IStageSocketHandler.*` | acceptor, listening, disposed, handler | listen, accept, construct a socket, dispose | a chain of callbacks that every error must continue; disposal and resets in the middle of one |
| message codec | `net/Message.*`, `stage/stage/model/*` | none | packing, parsing | counts and lengths, messages cut short |
| timers | `threading/*`, `core/Hosting.*` | list of timers, cursor, minimum period | start, stop, tick | mutex order, cursor under removal |
| linked list | `core/LinkedList.h` | nodes | add, remove | nodes embedded in their values |
| utilities, cipher, compression | `core/*`, `cipher/*`, `compression/*` | none | casts, random numbers, RC4, zlib | none |
| server exchanger | `sensors/*` | last counters | sample | none |
| sdk client | `xiyousdk/net/*` | connection, its times, table of calls | open, close, reconnect, call, answer, retry, time out | timeout against answer, times that outlive the link |
| sdk protocol | `xiyousdk/proto` | none | writing and reading of requests and responses | nested members, null markers |
| sdk api | `xiyousdk/api`, `handler` | none | building of requests | none |
| collections | `collections/*` | lists, buckets and sets, some in shared memory | insert, remove, attach, enumerate | a process killed between two writes, a block mapped elsewhere, a set changed while it is gone through |
| date, guid | `sys/*`, `uuid/*` | values | formatting, parsing | boundaries |
| json | `json/*` | vendored library | | |

Interaction: a `StageSocket` calls its handler (of the hub or of the client)
from the socket callbacks and from its timer's tick, holding the socket's
mutex. The handler takes the mutexes of the registry, of a vector or of the
client, often several times in one callback. The hub drives the sendback
controller from authentication, routing and aborts. All mutexes are recursive.

Threads: all callbacks of the sockets of one hosting object run on one strand,
one at a time. Timer ticks run under the hosting object's mutex, on its driver
thread or on a worker that has just run a callback, so one at a time too but
together with the strand. Application threads call the client.

What makes each part correct: the hub's tables hold exactly the established
sockets and the inner servers know exactly the clients that are hosted; limits
hold; kept packets are delivered at most once, in order, and not for ever
kept; the client's nodes are neither lost nor doubled, remote sockets exist
only over an open link, and the link comes back; inner servers come to know of
each other. A frame arrives as it was sent or ends the connection, a listener
goes on accepting, a started timer ticks. A call of the SDK client is decided
once, and its link comes back unless the client is disposed.

The SDK client (`xiyousdk`) is a program of its own: it shares no code with the
middleware, has one thread, and is driven by the application calling
`DoEvents`.

## Modules

| module | models | extends |
|---|---|---|
| `StageHub` | hub registry of one hosting group | standard modules |
| `MCStageHub` | symmetry for TLC | `StageHub` |
| `StageHubProofs` | theorems `Typing`, `Capacity`, `NumbersUnique`, `ClosedForGood`, `TableExact`, `PeersTold`, `Hosting`, `ServersTold` | `StageHub` |
| `ServerSendback` | one entry of the sendback controller with the part of the hub that drives it | `SequencesExt`, implements `PacketQueue` |
| `PacketQueue` | abstract: a queue that keeps packets for a server that is away | `SequencesExt` |
| `MCServerSendback` | packet sizes for TLC | `ServerSendback` |
| `ServerSendbackProofs` | theorems `Typing`, `Boundedness`, `NoDuplicates`, `Keeping`, `Queueing` | `ServerSendback` |
| `StageSession` | the two sockets of one connection: opening, authentication, heartbeats, timers, closing | standard modules |
| `MCStageSession` | instance for TLC | `StageSession` |
| `StageSessionProofs` | theorems `Typing`, `Agreement`, `Lasting` | `StageSession` |
| `XiYouSdkClient` | client of the payment service: connection and table of calls | standard modules |
| `MCXiYouSdkClient` | instance for TLC | `XiYouSdkClient` |
| `XiYouSdkClientProofs` | theorems `Typing`, `Outcome`, `Disposal` | `XiYouSdkClient` |
| `StageClient` | client adapter, its virtual and server sockets | `SequencesExt` |
| `MCStageClient` | instance for TLC | `StageClient` |
| `StageClientProofs` | theorems `Soundness`, `Acceptance`, `Settling` | `StageClient` |
| `ServerDirectory` | the notices by which inner servers learn of each other | `SequencesExt` |
| `MCServerDirectory` | instance for TLC | `ServerDirectory` |
| `ServerDirectoryProofs` | theorems `Typing`, `Knowing`, `Forgetting` | `ServerDirectory` |
| `SocketListener` | both listeners of a communication | standard modules |
| `MCSocketListener` | instance for TLC | `SocketListener` |
| `SocketProofs` | theorems `ListenerGoesOn`, `SocketsMadeWhole`, `ListenerTypes`; `FramesArrive`, `ForgeriesRefused`; `MessagesWhole` | `SocketListener`, `Wire` |
| `TimerQueue` | abstract: a queue of timers and a position in it | `SequencesExt` |
| `LinkedList` | the list of `core/LinkedList.h`, pointer by pointer | standard modules |
| `Timers` | timer scheduler, timers, the loop that drives them | `LinkedList`, implements `TimerQueue` |
| `MCTimers` | instance for TLC | `Timers` |
| `LinkedListProofs` | theorems `TimerTypes`, `StaysInStep`, `StuckNowhereElse`, `Queueing`; `SetToursWhole` | `Timers`, `Collections` |
| `BinaryFormatter` | Serialize and Deserialize of all message classes | `SequencesExt` |
| `Messages` | one message from its setters to its reader | `BinaryFormatter` |
| `SocketStream` | frames, their encryption, compression and mask in a stream of bytes | `BinaryFormatter` |
| `Wire` | one message of `Messages` or one stream of `SocketStream` | `Messages`, `SocketStream` |
| `MCWire` | messages and streams for TLC | `Wire`, `Bitwise` |
| `PositionList`, `PositionBucket` | list and bucket in shared memory, linked by positions | standard modules |
| `Lists` | the pointer list and the position list under the same operations | `PositionList` |
| `BucketList` | bucket in a block mapped at several addresses, linked by pointers | `LinkedList` |
| `ConcurrentSet` | set with enumerators | `LinkedList` |
| `Collections` | the four of them, one at a time | |
| `MCCollections` | instance for TLC | `Collections` |

Conventions. A step is one critical section of a mutex that other threads may
wait for, or one unprotected access to shared state. `pc[t]` is what thread
`t` does next and `who[t]` the socket whose mutex it holds. A step that needs
a mutex another thread holds is not enabled. Definitions named in a comment as
a *mutant* are wrong on purpose: put in place of the definition below them,
they break the property they were written for, and show that the property
depends on that line of the code. A property that is a conjunction has one for
each part.

### StageHub

One hosting group is modelled: one platform, server number and link type, so
each of the two tables has at most one entry, `serverTable` and `clientTable`,
which names a vector object or none. `sockets[v]` are a vector's members by
link number. Locals of a handler (`sv`, `cv`, `target`, `handles`, `newLink`)
keep references: a vector nobody refers to is destroyed, and its destructor
closes its members (`Settle`). Actions follow the handlers: `ServerAuth...`
and `ClientAuth...` are `ProcessAuthentication` of the two handlers cut at
each critical section; `Abort...`, `Clear...`, `Say...`, `SendbackOffline`,
`AdvertiseOffline` are `ProcessAbort`, `RemoveByLinkNo` and `Clear`;
`AcceptCommand`, `AbortAllClient`, `ToClient`, `Forward...` are messages.
`remote` and `announced` are the inner server's own view, `advertised` what
other inner servers were last told, `offline` the sendback controller's entry.

Abstracted: messages arrive at once, since the mutex of the sending channel
orders them; the round-robin cursor picks any member; groups do not interact.
Link numbers come from a counter of 16 bits that skips the numbers of its own
vector. The model draws any number that no vector holds, since a number held by
a handler of another vector comes again only after the counter has gone round;
with "wrap" in `Faults` it may have, and any number free in the vector is drawn.
Socket and vector names are reused when nothing refers to them (`Recycle`,
`FindOrNew`), so a behaviour may have any number of connections.

### ServerSendback

State is the entry (`known`, `age`, the two counters, `cachedContexts`), the
group's entry in the table (`table`), the vectors with their `members`, the
`live` channels, and for each thread the handler it is in (`pc`), the channel
whose mutex it holds (`who`) and the vector it refers to (`vec`). Each handler
is cut at its critical sections:

- routing, `NextSocket` → `SocketSend` or `AddSendback`: the code picks a
  channel without that channel's mutex, so any member may be picked, also one
  that is being aborted; the send waits for the mutex, and a socket that is
  disposed by then refuses. The packet is then kept although the server may be
  online (`StageSocketCommunication.cpp` 1065-1079).
- login, `ServerAuth` → `ServerAuthInsert` → `OnOnline` → `OnOnlineSend` for
  each kept packet → `ServerAuthDone`: the vector is taken under the server's
  mutex and joined under its own, and the timer may have taken it from the
  table in between.
- abort on either thread, `ChannelLost` → `AbortFind` → `AbortRemove` →
  `AbortErase` → `AbortRecheck` → `OnOffline`: the table's entry is erased
  without looking whether it is still the vector that was emptied.
- `ProcessTickAlways` and `Elapse` are the passing of time, `Dispose` the
  controller's disposal.

A vector is an object named by the channel it was made for; when neither the
table nor a thread refers to it, its destructor closes its members (`Settle`).

`late` is a history variable, the packets that were kept while the group had
members. Only these may be overtaken or stay behind for a server that is online
(`KeptInOrder`), and `NothingKeptForever` covers them too.

Abstracted: a new channel has a name that no vector holds (the hub's numbers
come again after 65535); a send that throws.

### StageSession

`end[e]` holds the fields of the `StageSocket` at each end, `wire[e]` the
frames `e` has sent and its peer has not read. `ClientOpen`, `ClientConnected`
and `ServerAccept` are `Open`, the callback of `async_connect` and the accept
loop; `Receive...` and `RefuseRequest` are the cases of `ProcessInput` with
`CompletelyAuthentication`; `TickExpired`, `TickBeat` and `TickNothing` are
`ProcessTickAlways`, and `TickAbort` the abort that follows when the mutex has
been released. A callback holds the socket's mutex throughout and is a step.

Time is counted in intervals of the timer (500 ms). Three times of a socket
are compared with a constant each, and the variables hold how long ago they
were, up to that constant; a time that is not compared in the socket's state
stays where it is, since the code sets it before it compares it again.
`Advance` begins the next interval. It may do so while `Prompt` holds: every
timer has been served, every frame has waited less than `Delay`, connections
have been made and accepted. With "slow" it may do so at any moment, and
`faulted` remembers it; `faulted` remembers every other event that may end a
sound session as well: a silent cut, a reset, a clock that goes back, a
refusal, a closing, a stray frame.

Abstracted: a frame is whole (`SocketStream` has the pieces), its key is a model value,
its sequence number is left out. A key generated at random for each session is
any member of `Keys`.

### StageClient

`phase` is the life of each channel socket, `free`, `working`, `available` and
`cursor` are the containers of `StageClient.h` 532-535. `OpenReleased` is
`AddAndOpenReleaseAllChannels` with `AddChannel`: its argument `failed` are
sockets whose `Open` fails at once. `Opened` is `ProcessOpen`; `AbortBegin`,
`Release`, `LinkLost`, `AbortingVirtualSockets`, `AbortAllVirtualSockets`,
`AbortAllServerSockets`, `CloseServerSocket`, `OnAbort` are the stages of
`ProcessAbort`: the table of server sockets is emptied under the mutex, and what
was in it (`old`) is closed without it, each closing erasing its key from the
table, where a channel that opened meanwhile may have brought a new socket.
`AcceptClients`, `AbortClient`, `ServerAnnounced` are messages of the hub.
`Send`, `RawSendNext`, `RawSend`, `Cache`, `DestroyObject` are `Send` and the
closing of a virtual socket, which holds the virtual socket's mutex until
`DestroyObject`; `AllowAccept` and `AllowAcceptSend` permit and prevent
clients. A thread whose `pc` is in `Holding` waits for another mutex while it
owns the client's. `told` is the last event of the application. `Dispose`
tells the application only if a channel was still available, and then removes
its handlers (`TellDisposed`), so that a thread which has released the last
channel and is still to announce the loss tells nobody (`OnAbort`). `crossed` is
history: a channel opened, or the client was disposed, while a loss was being
announced. `LossSettled` promises the last event only without that, because in
these cases the code leaves the application with the wrong one.

Abstracted: byte sizes; platforms and link types of server sockets; the
content of messages. Two loops are modelled as they are
and do less than their comments say: `PushAllSendback` compares a rising index
with a falling count and so sends half of the kept contexts when the link
opens, and every failed reconnection restarts the time of the loss, so
contexts outlive the minute after which they were to be given up. A handle whose closing has not ended does not come back
(bound in `AcceptClients`). Disposal waits for the sockets' mutexes before it
takes the client's, where the code takes them after it.

### XiYouSdkClient

`link` holds the state of the connection (`m_State`) and how long ago the times
were set that `DoEvents` compares with a constant; a time that is zero in the
code is `Never`. `calls` is the table `m_SocketInvokes`, with what has become of
calls that are not in it; `asked` counts the copies of a call that the service
has and may answer over this connection. `DoEvents` is the actions
`ProcessTimeout`, `CheckSilence` and `SocketEvents` in turn, and between the
last two steps any number of `ReceiveAnswer` and `ReceiveOther`. `Closed`,
`OpenedWell`, `OpenedLate`, `FailedToOpen` and `CleanedUp` are what
`CloseOrAbort`, `OnOpen` (with and without a first message that can be sent),
`ConnectSocket` and `Dispose` make of the link. `InvokeAsync`, `Open`, `Abort`
and `Dispose` are calls of the application, in any state of the link. Where a
send fails in the middle of a step (`Lost`), the application hears of it and may
dispose the client before the step goes on: before the time of the heartbeat is
set, before the call that failed is put into the table, before `OnOpen` sets the
times of a link that is gone.

Three things of this code show in the properties' exceptions. `OpenedLate`: if
the first message cannot be sent the link is closed, but the times are set
afterwards, and from then on each `DoEvents` finds silence, closes what is
closed and so restarts the delay before the next attempt; the client never
connects again (event "late"). If the application disposes the client from that
error, the same times bring the disposed client back: at the next silence
`CloseOrAbort` sets `Disconnect`, which connects again (event "gone"). And `Abort`
after `Dispose` does the same at once, because `CloseOrAbort` sets `Disconnect` in
any state. `DisposedForGood` says that there is no fourth way. Disposing the
client while `ProcessTimeout` goes through the table is outside the model, from
a call that times out or from the error of one that is sent again: the table is
then emptied under the iterator, which is undefined.

Abstracted: messages are whole (`SocketStream` has the receiver), and a failed `send` is the only failure of
sending; the registry of handlers is full whenever a client is not disposed (one
that was brought back has its handlers added again). A descriptor that is closed
from a callback has no successor of the same number while `DoEvents` still polls it.

### ServerDirectory

Several servers with their links to the hub, and the processes behind them.
`table` and `members` are the hub's vectors, named by the link they were made
for, `shut` the links whose sockets the hub has disposed, `job` what the strand
and the timer thread are doing (step, server, link, the vector referred to, the
link picked to send on, the servers still to be told), `net` what is under way on
each link, `end` the process's end of it, `known` its table of server sockets.

- `Login` takes the group's vector, `LoginInsert` joins it later. The first link
  of a vector is announced to every group (`Announce`), told of every group
  (`GetAllSocketVector`, `CreateAcceptServer`) and sent the packets kept for the
  server (`OnOnline`, `OnOnlineSend`).
- A notice is pushed in two steps: `NextSocket` picks a link of the group
  without its mutex, `PushToServer` sends on it if it is not disposed by then;
  a group without links is told nothing (`NoSocket`).
- `CloseLink`, `AbortFind`, `AbortRemove`, `AbortErase`, `AbortRecheck` and
  `Withdraw` are the loss of a link on either thread, in the critical sections of
  `RemoveByLinkNo` and `ResourcesCleanup`. A link that joined a vector which was
  taken from the table meanwhile is not found, and nobody is told when it goes.
  `Destroy` is the destructor of a vector nothing refers to any more.
- `ProcessTransitroute`, `RouteSend`, `AddSendback` are a message between
  servers, `ResetSendback` the controller giving up what it keeps.
- In the process, `ProcessExchange` reads a message. `ProcessAbort` decides under
  the client's mutex whether the last link is lost, `AbortAllServerSockets`
  empties the table in another critical section, and `CloseServerSocket` closes
  the sockets taken out (`old`) one by one, each erasing its key. A link that
  opens in between may have its list emptied or its sockets closed with the rest.

The directory is soft: notices are sent once. `doubt` is history, the servers of
whom a process may be wrong: the last notice was lost with a link, was sent over
a link already dead, crossed with its opposite on another link, or was no longer
true when sent; the server's socket was closed by the key of an older one; or
the server went while the vector its link had left had another member and was no
longer in the table, so that nobody withdrew it. `unlisted` is history too: a
process that emptied its table has none until it is sent the next list. It gets
none if it logs in before the hub has missed its old links, since its group was
never empty, or if the list was in the table when that was emptied. What the
properties say is that nothing else goes wrong.

Abstracted: every link of a process may be lost at any moment, also two at once,
where the threads of a real client take turns; disposal of a client; the
controller's limits (it may refuse any packet) and the number of packets of one
sender. `Destroy` may be put off. Each link logs in once (`MaxLogins` of them in a
behaviour).

### SocketListener

`app` is where `Listen` or `Dispose` of the communication is, and `opened`,
`listening`, `disposed`, `handler` the fields of each listener; `waiting` and
`failed` are accepts outstanding and completed without a connection, `place`
where each connection is, `callback` where the one callback on the strand is,
with each question it asks of the listener a step of its own.

What the model shows of this code. The process ends by an exception if the
peer has reset the connection before the socket is constructed, or the
listener is disposed between the check and the construction, since the workers
catch nothing (`Hosting.cpp` 119-131). A failed bind leaves the acceptor open,
so that `Listen` can never be tried again, and the other listener goes on
accepting. Outside it: each call of `Listen` replaces the sendback timer
without disposing the old one, and the switch for compression reaches the
server listener only (`StageSocketCommunication.cpp` 1335-1378).

### Timers, TimerQueue and LinkedList

`LinkedList` has the list's methods as operators on a record of its pointers.
`Timers` has the scheduler's fields and both kinds of mutexes; a round of
`ProcessTickEvents` is cut at each lock and each unprotected read (`pc`), and
other threads and callbacks start, stop, set and dispose timers and close the
scheduler. `Queue == INSTANCE TimerQueue WITH queue <- Walk(list)` is the
refinement: the pointers followed from the first node are a queue, and the
cursor a position in it, whatever the interleaving.

What the model shows. A round that found a timer off stops it later, when
another thread may be in a call on it: then both wait for each other, or the
list's removal dereferences a null pointer (`crashed`). Stopping the timer
under the cursor makes the round pass over the one behind it, which is looked
at in the next round. `SetInterval` on a listed timer does not lower the
minimum period. A timer that starts itself again in its callback can starve
the one behind it; `MaxOps` bounds how often. A timer started during a round
ticks at once.

### BinaryFormatter, Messages, SocketStream and Wire

`BinaryFormatter` holds for each class the fields it writes and the fields it
reads, taken from `Serialize` and `Deserialize` separately, and what a field of
a kind does to the bytes. `Messages` adds the two classes that lay out their
own bytes and takes one message from the setters over any cut to the reader.
`SocketStream` sends up to three frames in three modes (hub and inner server;
outer client with mask; SDK) with the header's fields, `MaskOff`, encryption by
RC4 and compression, and receives them in pieces of any size. The exclusive or
of two bytes is a constant operator, `Xored`, of which only is assumed that it
undoes itself; `MCWire` gives it its value from `Bitwise`. A byte has four values,
so a length has sixteen and every boundary of lengths is near. Objects are
nested three levels deep as in the code, where a response holds a list of
servers: one operator for each level (`ReadPlain`, `ReadInner`, `Deserialize`,
and the same for writing), so that no definition refers to itself.

What the models show. A member's null marker is stepped over without being
counted, and nested results are ignored, so a cut message can be read beyond
its end; there a byte that is not 0 is taken for one more null item, so that the
number of null members and items bounds what is read, not the number of the
null ones alone. A message without null pointers is never read past its end. A
text whose length is 0xffff (mod 65536) becomes
null; a bulk message for nobody loses its payload; `GenericResponse<long
double>` writes 8 of 16 bytes. A frame whose other words sum to a multiple of
0xffff has no mask that is accepted. A partial send and an SDK header in pieces
spoil that frame and later ones, never earlier ones.

Abstracted: the payload of a stream's frames is any bytes, so messages and
frames are checked apart; bytes of a frame's length are not flipped; the
buffer handed to the kernel lives long enough; one fault per stream.

### Collections

Two lists, two buckets and a set, each beside the sequence or set of values it
is to hold. In `PositionList` and `PositionBucket` a method is a sequence of
writes and a kill may come after each; writes reach memory in program order,
and one process at a time uses the block. In `BucketList` the block is mapped
elsewhere between two processes. In `ConcurrentSet` an address that was freed
may be allocated again under an enumerator.

What the models show. A kill inside `Dequeue` of several values loses all but
the first, one inside `Clear` leaves default values; a kill elsewhere loses the
value of the call at most. `Attach` in its fast mode forgets the waiting nodes,
so that an `Enqueue` after dequeues reuses a live node, against the comment at
`bucketlist_fix.h` 208; the model stops there (`lost`). `Find` of
`linkedlist_fix.h`, `AddBefore` of `linkedlist.h` and `erase(iterator)` do not
compile once they are used.

## Runs

| run | instance | checks | result |
|---|---|---|---|
| `hub_strand` | 2 servers, 2 clients, 3 link numbers, limit 1 or 2, numbers that come round | tables, views and peers agree when no handler runs; limit respected, no member displaced | holds |
| `hub_faults` | 3 servers, 1 client, 3 link numbers, timer aborts and silent losses | server table exact, no disposed socket established again | holds |
| `hub_locks` | 1 server, 2 clients, timer aborts | threads never wait for each other | violated |
| `sendback` | 3 packets of sizes 1, 2, 2; 2 channels, queue 2, bytes 3, abandon after 2 steps | limits, at most once, accounting and order, nothing stuck or kept for ever | holds |
| `session` | authentication within 3 intervals, inactivity 5, heartbeats every 2, delay 1, 2 keys, all faults | agreement on session and key, prompt sessions stay up, authentication is decided, a dead peer is noticed | holds |
| `sdk` | 2 calls, of which one is sent again once; time-out 2, silence 3, heartbeat 2, connecting 2, delay 1; failing sends, resets, aborts, a clock that goes back | each call decided once, disposal for good but for two ways out, the link comes back | holds |
| `client` | 2 channels on 2 nodes, 1 virtual and 1 server socket, 1 call | nodes, list, flags, remotes, events, return of the link | holds |
| `directory` | 2 servers with 2 links each, 3 logins, 1 message between servers, 2 messages under way, one process followed | at rest a process knows every server online and no other, but for those in doubt | holds |
| `listener` | 3 connections, 2 calls of `Listen`, 2 failed accepts | one accept at a time, whole sockets, arrivals settled, closed for good | holds |
| `timers` | 3 timers, 1 other thread, intervals 0 and 1, 4 calls | list, table and flags in step; the queue is implemented; where threads may get stuck; timers tick | holds |
| `wire` | 21 kinds of messages with texts of all critical lengths; streams of up to 3 frames in 3 modes | messages whole or refused, bounded overread; frames intact, changed ones refused | holds |
| `collections` | 3 nodes, 2 values, 2 addresses; a set of 3 with 2 enumerators | contents exact, kills lose little, set and tours sound | holds |

Bounds. Two vectors of each kind let one live in the table while another lives
in a handler's locals. Two sockets of a kind are enough for one to leave while
another arrives; names are reused, so behaviours are not bounded in length.
Link numbers outnumber the clients a limit admits in all hub runs, as in the
code, where the limit is at most the number of link numbers. `hub_strand` runs on the
strand alone: its properties are about sequences of whole handlers, and it finds
no interleaving with the timer. `hub_faults` does.

In `sendback` three packets fill the queue and leave one to be refused, or to be
routed while the others are kept or handed over; the first alone fits beside
another, so the limit of bytes refuses what the limit of packets would admit
(the latter never refuses alone; the theorem is about both). Two channels let one
log in while the other is being aborted, with a vector for each, and each thread
may be in an abort while the other routes, logs in or aborts. In `client` a call of the application may be a packet
or the closing of a virtual socket; a second call shows no new interleaving
because calls of one thread follow one another.

In `session` the code's times (5 s, 30 s and 10 s in units of 500 ms) are scaled down to the
smallest for which a prompt session stays up (`TimesFit` of the proofs): with
authentication within 2 or inactivity 4 a run finds a session that ends by
itself, so `StaysUp` is at its boundary. `MaxInFlight` bounds the frames under way when data is sent or time
passes late; a frame of each sort can still meet one of each other sort, since
answers and heartbeats are not bounded. A stray frame comes only first among
the faults. The connection is made once, as in the code, where a `StageSocket`
is never opened again.

In `sdk` every time is the smallest that differs from its neighbours: silence is
longer than a heartbeat, a call lives through several rounds of `DoEvents`, and
a reconnection through a round without one. Calls do not meet except in the
table, so one of each sort is enough.

In `directory` two links to each server let notices overtake each other and a
server go and come back, and three logins let a server lose its last link while
another joins; one process is followed, as the processes do not act
on one another through the directory, and what is under way to it is bounded
by `MaxUnread`, which is enough for a crossing. That an abort erases the entry
of another vector takes three links of one server; it is reached in `sendback`,
and the theorems are about any number. In `listener` one connection
goes to the listener of inner servers and two to that of clients, one of which
may wait while the other is being handled. In `timers` three timers have a first, a middle and
a last one in the list. In `wire` the lengths 14, 15, 16 stand around the null
length, and `Window` bounds the bytes under way. In `collections` three nodes
are the smallest list with a middle, and 10 and 13 are addresses whose blocks
overlap.

`CHECK_DEADLOCK FALSE` is stated where the system may stop: a hub with its
faults used up by waiting threads, a disposed client or communication, links
that are used up, a message that has been read.

### What the violated run shows

`hub_locks`: a forwarded message holds the vector's mutex and wants a
channel's; an abort of that channel from the timer holds it and wants the
vector's.

Outside the runs: with timer aborts `ClientHosted` does not hold, since
`Clear(true)` closes the members it has listed and then empties the vector
without closing anything, so that a client inserted in between stays connected
and is hosted nowhere. With timer aborts, three inner servers and "wrap" together
`ServerTableExact` does not hold: a channel that is inserted while the timer
takes its vector from the table stays behind in that vector, a channel of the
next vector gets the same number, and the loss of the first removes the second.
It takes 65535 authentications before the loss.
With timer aborts the other views do not hold either. A channel that is inserted
after the timer has taken its vector from the table goes down with that vector
when its authentication returns, and the peers have been told that the group is
online (`PeersAgree`). A channel that is inserted before the timer has removed
the last one is not the first of its vector, so the clients are not pushed to
an inner server that has just lost all it knew (`ServerSeesClients`). That view
does not hold either with a silent loss during an authentication or without
`CloseAll`, when a client that was kicked is announced to the next inner server.

## Fairness

`ServerSendback`: handlers that have begun run to their end, a login, an abort
and a routed packet alike (`Login`, `Losing`, `SocketSend \/ AddSendback`): what a
step waits for is the mutex of a channel whose own handler ends; the clock runs;
the tick is served again and again (strong fairness, because aborts run on the
same thread), since the driver calls every timer in turn and holds no mutex in
between. No fairness for `ServerAuth`: the server need not come back.

`StageSession`: each end's callbacks run and its timer is served again and
again, a timer that has decided to abort does, time passes, connecting and
accepting end. No fairness is assumed for anything that reports a failure: a
dead peer has to be noticed by the timer alone.

`XiYouSdkClient`: `DoEvents` is called again and again and returns, and time
passes. `Reconnects` assumes besides that opening a socket does not fail at once
for ever (strong fairness of `ReconnectBegins`) and that connecting again and
again succeeds again and again, and that the application does not abort for ever;
the code can promise nothing otherwise.

`StageClient`: handlers end and a waiting thread gets a mutex that is released
again and again (strong fairness of `Losing`, `Sending` and
`AbortVirtualSockets`: what competes for the client's mutex are ticks and
channel events half a second apart, and critical sections are short);
recovery comes again and again, and sockets can then be opened
(`AddAndOpenReleaseAllChannels` once a second). `Reconnects` also assumes that
the hub accepts a channel if one keeps being offered (`HubAccepts`); an
environment that always refuses gives nothing to promise.

`SocketListener`: a call of the application that has begun goes on, the kernel
hands over what it has queued, and the workers run what is posted.

`Timers`: the hosting drives the scheduler for ever, a call that waits for a
mutex gets it once it stays free, and time passes. This is what justifies the
fairness of ticks above; `Ticks` excepts the two cases in which threads are
stuck.

`Reconnects` excepts `Deadlocked`, a cycle of threads that wait for one
another. The model reaches such states: closing a virtual socket needs a
channel's and the client's mutex under its own, and the loss of the link takes
them in the opposite order; permitting clients needs a channel's mutex under
the client's. No document promises their absence, so there is no run for it.

## Proofs

All theorems hold for every value of the constants that satisfies the `ASSUME`
of the module, which states that sets of names are finite, disjoint and do not
contain the null values, and that bounds are numbers.

- `StageHubProofs`. `Typing`: the type invariant with the types of handler
  locals, by one lemma per kind of action; `Settle` and `Abort` are typed once.
  `Capacity` is an action property: a step that makes a client vector grow is
  the insertion of the running authentication, and the vector was not referred
  to by anyone else's growth since the test. `NumbersUnique`: under the
  assumption that limits are below the number of link numbers (65535 in the
  code), the number chosen stays free until the insertion, since only the
  strand inserts. `ClosedForGood` (`NoResurrection`) rests on `Open`: from the
  first check to the last step of an authentication its socket is not closed,
  because every step that closes a socket, a vector's destructor included,
  needs its mutex.
  `TableExact` says that every vector outside the table is still referred to by
  a handler and dies with it, that numbers are unique across all server vectors,
  and that a closed member of the table's vector has a thread that is about to
  remove it; without the middle one the removal of one channel could take
  another's place. It needs numbers for all inner servers and, with the timer,
  a counter that does not come round within a handler.
  The other three are about the strand alone, whose handlers then run one at a
  time (`Lone`): no vector outside the tables has members, and no step destroys
  one that has. With timer aborts none of them holds: see the end of the runs. `PeersTold`
  (`PeersAgree`): the peers know whether a channel is established, unless the
  strand is between the change and the telling; a handler that admits clients
  has a channel to count on. `Hosting` (`ClientHosted`): only the client under
  authentication has a number before it is established, numbers in the table
  are unique, and while `Clear` runs every member's number is still in its
  snapshot; so removing a number takes nobody else's place. It needs limits below
  the number of link numbers. `ServersTold` (`ServerSeesClients`): the inner
  server knows the established clients but for the one the strand is announcing,
  closing or about to report, and if it has no channel then the table is empty or
  about to be cleared. It uses both of the others' invariants, and needs that no
  channel is lost silently and that `CloseAll` is set: a client that is kicked
  stays in the vector, and without the clearing the next inner server would be
  told of it.
- `ServerSendbackProofs`. The inductive invariant adds to `TypeOK`, `Bounded`
  and `AtMostOnce` that the counter equals the list's length and that every
  packet anywhere has been routed before `next`; without the last one a fresh
  packet might already be in a list. `Keeping` (`KeptInOrder`) adds `OInv`:
  the list and the copy being handed over grow in the order of routing; what was
  delivered is older than what is kept, but for packets of `late`; as soon as the
  group has a member whose login is past the handover, or the strand has picked a
  channel, nothing but late packets is kept; and the byte counter is a running total
  over the list. A refused send after a pick makes its packet late unless the
  group lost its last member meanwhile, in which case the packet is younger than all
  before it. `Queueing` is the refinement of `PacketQueue`, step by step.
- `StageSessionProofs`. The inductive invariant adds `OneKey` to `TypeOK`: the
  keys of established sockets and of responses and data under way are at most
  one key, and if there is one then the server is established or gone. Agreement
  alone is not inductive, since a second response with another key might be
  under way. One step brings a key into use, the server's first request; lemmas
  about sequences of frames show that all others only pass keys on. `Lasting`
  (`StaysUp`) goes through four stages of a session without faults: the client
  has not yet asked, has asked, is answered, or both are running. In each stage
  every time that is measured is bounded by the age of a frame that is under way
  and will reset it, so that no timer waits in vain if `TimesFit`: the time for
  authentication is longer than two delays, that of inactivity longer than a
  heartbeat and two delays. With the code's 30, 10 and 5 seconds it holds for
  delays of up to two seconds in each direction.
- `StageClientProofs`. `Soundness` joins the lemmas `Nodes` and `List`. `Nodes`: a socket that is not closed has a node, and one
  being released has one too and no other thread releases it; cardinalities
  then follow from the library's theorems on finite sets. `List` and
  `Acceptance`: besides, no listed channel is still connecting, so an opened
  one is new to the list; a lemma states what removing an element does.
  `Settling` (`LossSettled`): while no channel is available, whatever a lost link
  has left behind has a thread that is still to abort it, and unless a channel
  opened or the client was disposed while a loss was being announced, the application has been told or has
  a thread that is still to tell it.

- `XiYouSdkClientProofs`. The inductive invariant has three parts: the link is
  typed and, if disposed, measures no silence unless its times were set after it
  was disposed (else the check of silence would close it and make it connect
  again); each call's counts are in bounds, its
  callback has run only if it has left the table, and the service knows nothing
  of a call that has not been made; times and steps are typed. Steps that only
  change the link share one lemma, and steps that only end or age calls another.

- `SocketProofs`, the listeners. The inductive invariant adds to `TypeOK` that a
  listening listener is not disposed and has exactly one accept outstanding,
  completed or being handled, that one which neither listens nor is disposed
  has none, and that what a callback found null of its listener means that the
  listener is disposed. Sets of accepted connections are counted with the
  library's theorems on finite sets.

- `LinkedListProofs`, the timers. The inductive invariant says what the pointers of the list
  are: a chain in which every listed timer has a place, first and last at its
  ends; besides, a timer is on exactly if it is in the table, each mutex has the
  owner the steps imply, and the minimum period of a listed timer is positive.
  That following the pointers gives the queue (`Queueing`) is an induction along
  the chain, made with the least place for which it would fail.
- `LinkedListProofs`, the set. `SetToursWhole` (`SetToured`): the set's list is
  again a chain with places, of nodes that are allocated, and the table maps
  exactly the chain's values to their nodes. An enumerator that nobody disturbed
  stands on a node of the chain, or on none at either end, and has seen
  the values of the nodes up to its place, each once. Moving it on adds the
  next place's value, and any change of the set disturbs it, so the memory of
  a freed node, reused or not, never counts. It holds for any set of values and of
  addresses and any number of enumerators.
- `SocketProofs`, the streams. What is under way, with what the receiver holds of
  the next frame, is the pending bytes. The inductive invariant says that they
  can be cut (`Cut`) into packets of the frames that were not delivered yet, in
  order, and, unless something went wrong, into nothing else. A packet is
  `Framed`: key and mask fit, its header tells its length, and decryption and
  inflation give the frame. That rests on lemmas about the operators: two bytes
  and four hold a length, the cipher is undone by the same stream of bytes
  (`Xored` undoes itself, and both ends turn the box alike), and deflating is
  undone. A packet with a changed byte is
  `Forged`: the sum of its words changes by less than 0xffff, and not by 0, so
  the checksum, which is the sum modulo 0xffff, cannot fit twice. A receiver
  that has less than one packet (`Amid`) takes another piece; whether the
  packet is then complete depends on lengths alone, so that where the pieces
  end does not matter. After a fault the invariant follows only the frames
  before it (with a mask, also the changed one, which ends the connection).
- `SocketProofs`, the messages. `MessagesWhole` (`WholeOrRefused`): a message
  that fits its format is read as its setters left it, for any objects, texts,
  vectors and byte base; and one of the classes of numbers and texts that
  is cut short is refused without reading behind what arrived. The inductive
  invariant ties each phase to the one before: the object is what the setters
  make of the input, the bytes are what the writer makes of the object, what
  arrived is a prefix of them with some byte behind, and what was read is what
  the reader makes of that. The rest is about the operators. Classes are on
  three levels (`Lowest`, `Middle`, `Highest`): no members, members of the
  lowest level, members of those. One lemma does the induction over the fields
  of an object for all levels: if reading each field's piece of the bytes
  advances the reader behind it and stores the field's value, reading the pieces
  one after the other stores the object. It is then applied to fields without members
  (also to the items of a vector), to those with members, and to those with
  members of members. For a message cut short the fields read so far are
  those written, up to the field at which the bytes end; the reader refuses
  there, and a reader that has refused reads nothing more. The bulk message and
  the route lay out their bytes themselves and have lemmas of their own. Assumed
  are what an application can fill in (`InputsAssumption`), bytes behind the
  message (`BeyondAssumption`) and at least two values of a byte
  (`ByteBaseAssumption`).
- `ServerDirectoryProofs`. `Sound` says that a group's vector was made for one of
  its own links and that a thread's local variables belong together: the vector it
  works on is its server's, and the strand lists to the link it logs in. `Notices`:
  for a process and a server it is not in doubt of, either all messages under way
  about the server agree with what the process knows, or the last one on one link
  says what it will know and those on the others say the same, whatever overtakes
  what. That is the truth, or the process is still to be told: the strand is
  announcing the server or sending the list (`Pending`), a thread that emptied the
  group's vector is between its removal and the withdrawal or is withdrawing it
  (`Withdrawing`), or the process lost its table and waits for the list. Emptying
  the table leaves the process in doubt of exactly the servers that something
  under way is about, closing a socket by its key of that server. `Knowing` and
  `Forgetting` follow when nothing is under way.

The type invariants of `StageHub`, `ServerSendback`, `StageSession`,
`XiYouSdkClient`, `SocketListener`, `Timers` and `ServerDirectory` are proved and
are in no run.

Only model-checked: liveness (fairness is out of the prover's reach); how far a
message with members that is cut short can be read past its end
(`OverreadBounded`), which counts null members over the classes that contain
each other; and the contents of the shared-memory
collections (`ContentsExact`, `KillLosesLittle`), which are defined by recursion
over the data.

## Not modelled, and what comes next

1. An abstract registry that adds and removes members in one step, implemented
   by `StageHub` when faults are off.
2. The adapter's byte size, which the code lowers by a value read after the
   context has been freed (`StageClient.cpp` 1294), as a nondeterministic
   value; handles that come back while their closing is under way.
3. The hub's cursor (`NextSocket`), which walks a table without its mutex.
4. Proofs: typing of the whole client; the bound on reading past a cut message.
5. Date and identifiers, pure algorithms.

Left out for good: compression (a wrapper around zlib), JSON (vendored),
`HashSet` (unused), the server exchanger and the SDK's API wrappers (system
counters and plain calls), casts and utilities without state, operating system
calls.
