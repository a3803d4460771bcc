------------------------------ MODULE StageHub ------------------------------
(***************************************************************************)
(* The stage hub (StageSocketCommunication): the registry through which    *)
(* the outer clients and the inner servers of one hosting group (platform, *)
(* server number, link type) find each other.                              *)
(*                                                                         *)
(* Two threads run registry code: the hosting strand, which delivers every *)
(* socket callback one at a time, and the timer driver, whose tick aborts  *)
(* a silent socket.  Both hold the mutex of the socket they process, and   *)
(* take the mutex of the server object or of a socket vector only for the  *)
(* critical sections that are the steps below.                             *)
(*                                                                         *)
(* A vector is a shared object: the table, and the local variables of a    *)
(* handler, refer to it, and when the last reference goes its destructor   *)
(* closes every socket still in it.                                        *)
(***************************************************************************)
EXTENDS Naturals, FiniteSets

CONSTANTS
  Servers,         \* socket objects accepted on the server port
  Clients,         \* socket objects accepted on the client port
  ServerVecs,      \* SocketVectorObject instances for the server table
  ClientVecs,      \* SocketVectorObject instances for the client table
  LinkNos,         \* the non-zero link numbers
  MaxFDs,          \* descriptor limits an authenticating server may ask for
  CloseAll,        \* _allowInternalHostAbortCloseAllClient
  Faults,          \* subset of {"timer", "silent", "wrap"} that may happen
  NoSocket, NoVec, NoLink

Sockets == Servers \cup Clients
Vecs == ServerVecs \cup ClientVecs
Threads == {"strand", "timer"}

ASSUME HubAssumption ==
  /\ Servers \cap Clients = {} /\ ServerVecs \cap ClientVecs = {}
  /\ NoSocket \notin Sockets /\ NoVec \notin Vecs /\ NoLink \notin LinkNos
  /\ IsFiniteSet(Servers) /\ IsFiniteSet(Clients) /\ IsFiniteSet(LinkNos)
  /\ MaxFDs \subseteq Nat \ {0}
  /\ CloseAll \in BOOLEAN /\ Faults \subseteq {"timer", "silent", "wrap"}

VARIABLES
  phase,        \* life of each socket object
  link,         \* StageSocket.LinkNo; NoLink while the socket is unnamed
  sockets,      \* members of each vector, found by their link number
  allowAccept,  \* SocketVectorObject.allowAccept
  serverTable,  \* oServerSocket[linkType]
  clientTable,  \* oSocketClient[linkType]
  maxSocketCount,  \* wMaxSocketCount: the last limit asked for
  pc, who,      \* what each thread does next, and the socket it has locked
  sv, cv,       \* handler locals: serverVector and socketVector
  target,       \* socket fetched from a vector, about to be locked
  handles,      \* link numbers Clear(true) still has to close
  newLink,      \* link number chosen by the running authentication
  remote,       \* channels the inner server itself believes to be up
  announced,    \* clients the inner server has been told of
  offline,      \* sendback controller holds an offline entry for the group
  advertised    \* what the other inner servers were last told of the group

local == <<pc, who, sv, cv, target, handles, newLink>>
peer == <<offline, advertised>>
vars == <<phase, link, sockets, allowAccept, serverTable, clientTable,
          maxSocketCount, local, remote, announced, peer>>

Labels == {"idle", "sInsert", "sDone", "sPush", "sAdvertise", "sOnline",
           "cMark", "cSend", "cSending", "cInsert", "cDone",
           "find", "remove", "erase", "recheck", "sayAbort", "saying",
           "clearFind", "snapshot", "closing", "closeOne",
           "offline", "advertise", "mark", "prevent", "kick", "down", "forward"}

TypeOK ==
  /\ phase \in [Sockets -> {"none", "opened", "established", "closed"}]
  /\ link \in [Sockets -> LinkNos \cup {NoLink}]
  /\ sockets \in [Vecs -> SUBSET Sockets]
  /\ \A v \in ServerVecs : sockets[v] \subseteq Servers
  /\ \A v \in ClientVecs : sockets[v] \subseteq Clients
  /\ allowAccept \in [Vecs -> BOOLEAN]
  /\ serverTable \in ServerVecs \cup {NoVec}
  /\ clientTable \in ClientVecs \cup {NoVec}
  /\ maxSocketCount \in MaxFDs \cup {0}
  /\ pc \in [Threads -> Labels]
  /\ who \in [Threads -> Sockets \cup {NoSocket}]
  /\ sv \in [Threads -> ServerVecs \cup {NoVec}]
  /\ cv \in [Threads -> ClientVecs \cup {NoVec}]
  /\ target \in [Threads -> Sockets \cup {NoSocket}]
  /\ handles \in [Threads -> SUBSET (LinkNos \cup {NoLink})]
  /\ newLink \in LinkNos \cup {NoLink}
  /\ remote \subseteq Servers
  /\ announced \subseteq Clients
  /\ offline \in BOOLEAN /\ advertised \in BOOLEAN

Init ==
  /\ phase = [s \in Sockets |-> "none"]
  /\ link = [s \in Sockets |-> NoLink]
  /\ sockets = [v \in Vecs |-> {}]
  /\ allowAccept = [v \in Vecs |-> FALSE]
  /\ serverTable = NoVec /\ clientTable = NoVec
  /\ maxSocketCount = 0
  /\ pc = [t \in Threads |-> "idle"]
  /\ who = [t \in Threads |-> NoSocket]
  /\ sv = [t \in Threads |-> NoVec] /\ cv = [t \in Threads |-> NoVec]
  /\ target = [t \in Threads |-> NoSocket]
  /\ handles = [t \in Threads |-> {}]
  /\ newLink = NoLink
  /\ remote = {} /\ announced = {}
  /\ offline = FALSE /\ advertised = FALSE

-----------------------------------------------------------------------------
(* Locks and references.                                                   *)

\* No other thread holds the mutex of socket s.
FreeFor(t, s) == \A u \in Threads \ {t} : who[u] # s

\* No other thread holds the mutex of vector v: only the forwarding of a
\* client message keeps it while it sends.
VecFree(t, v) == \A u \in Threads \ {t} : ~(pc[u] = "forward" /\ sv[u] = v)

\* The shared_ptr references to vectors.
Held == {serverTable, clientTable} \cup {sv[t] : t \in Threads}
                                   \cup {cv[t] : t \in Threads}

\* The vector of a table entry, or, where there is none, the make_shared of
\* one no one refers to yet.
FindOrNew(table, V) == IF table = NoVec THEN V \ Held ELSE {table}

Members(v) == IF v = NoVec THEN {} ELSE sockets[v]
LinksIn(v) == {link[m] : m \in Members(v)}

\* Mutant: the number drawn is not looked up.
NewLinkNoUnchecked(v, V) == LinkNos

\* A number no member of v uses, or, when all are in use, any number.  The
\* numbers come from a counter: one that a vector outside the table still has
\* is drawn again only if the counter has come full circle ("wrap").
NewLinkNo(v, V) ==
  LET free == LinkNos \ LinksIn(v)
      fresh == LinkNos \ UNION {LinksIn(u) : u \in V}
  IN  IF free = {} THEN LinkNos
      ELSE IF fresh = {} \/ "wrap" \in Faults THEN free ELSE fresh

\* sockets[linkNo] = socket: a member with the same number is displaced.
Inserted(v, s) == {m \in sockets[v] : link[m] # link[s]} \cup {s}

\* The new state of vectors, sockets and channels, given what the handler
\* itself made of them: vectors nobody refers to any more are destroyed,
\* which closes their members, and a closed socket is a lost channel.
Settle(t, skts, allow, ph, rem, ann) ==
  LET dead == Vecs \cap (Held \ Held')
      victims == UNION {skts[v] : v \in dead}
  IN  /\ \A s \in victims : FreeFor(t, s)
      /\ sockets' = [v \in Vecs |-> IF v \in dead THEN {} ELSE skts[v]]
      /\ allowAccept' = [v \in Vecs |-> v \notin dead /\ allow[v]]
      /\ phase' = [s \in Sockets |-> IF s \in victims THEN "closed" ELSE ph[s]]
      /\ remote' = {s \in rem : phase'[s] = "established"}
      /\ announced' = IF remote' = {} THEN {} ELSE ann

At(t, label) == pc[t] = label
Goto(t, label) == pc' = [pc EXCEPT ![t] = label]

\* The handler returns: its locals go and its socket is unlocked.
Return(t) ==
  /\ Goto(t, "idle")
  /\ who' = [who EXCEPT ![t] = NoSocket]
  /\ sv' = [sv EXCEPT ![t] = NoVec]
  /\ cv' = [cv EXCEPT ![t] = NoVec]
  /\ target' = [target EXCEPT ![t] = NoSocket]
  /\ handles' = [handles EXCEPT ![t] = {}]

\* AbortINT3 on socket s: it is disposed, and its cleanup begins only if an
\* authentication has named it.
Abort(t, s) ==
  /\ IF link[s] = NoLink
       THEN Return(t)
       ELSE /\ Goto(t, "find")
            /\ who' = [who EXCEPT ![t] = s]
            /\ sv' = [sv EXCEPT ![t] = NoVec]
            /\ cv' = [cv EXCEPT ![t] = NoVec]
            /\ target' = [target EXCEPT ![t] = NoSocket]
            /\ UNCHANGED handles
  /\ newLink' = IF t = "strand" THEN NoLink ELSE newLink
  /\ UNCHANGED <<link, serverTable, clientTable, maxSocketCount, peer>>
  /\ Settle(t, sockets, allowAccept, [phase EXCEPT ![s] = "closed"],
            remote, announced)

-----------------------------------------------------------------------------
(* Connections and the outside world.                                      *)

Accept(s) ==
  /\ phase[s] = "none"
  /\ phase' = [phase EXCEPT ![s] = "opened"]
  /\ UNCHANGED <<link, sockets, allowAccept, serverTable, clientTable,
                 maxSocketCount, local, remote, announced, peer>>

\* Nothing refers to a closed socket object any more: a later connection may
\* use its name here.
Recycle(s) ==
  /\ phase[s] = "closed" /\ s \notin announced
  /\ \A t \in Threads : who[t] # s /\ target[t] # s
  /\ \A v \in Vecs : s \notin sockets[v]
  /\ phase' = [phase EXCEPT ![s] = "none"]
  /\ link' = [link EXCEPT ![s] = NoLink]
  /\ UNCHANGED <<sockets, allowAccept, serverTable, clientTable,
                 maxSocketCount, local, remote, announced, peer>>

\* The inner server loses a channel and the hub hears nothing of it yet.
SilentLoss(s) ==
  /\ "silent" \in Faults /\ s \in remote
  /\ remote' = remote \ {s}
  /\ announced' = IF remote' = {} THEN {} ELSE announced
  /\ UNCHANGED <<phase, link, sockets, allowAccept, serverTable, clientTable,
                 maxSocketCount, local, peer>>

\* A receive error on the strand, or a tick of the timer that finds the
\* authentication or the activity overdue.
AbortBegin(t, s) ==
  /\ At(t, "idle") /\ (t = "timer" => "timer" \in Faults)
  /\ phase[s] \in {"opened", "established"} /\ FreeFor(t, s)
  /\ Abort(t, s)

-----------------------------------------------------------------------------
(* Authentication of an inner server socket.                               *)

ServerAuthAssign(s) ==
  /\ At("strand", "idle") /\ phase[s] = "opened" /\ FreeFor("strand", s)
  /\ who' = [who EXCEPT !["strand"] = s]
  /\ Goto("strand", "sInsert")
  /\ maxSocketCount' \in MaxFDs
  /\ \E n \in NewLinkNo(serverTable, ServerVecs) : link' = [link EXCEPT ![s] = n]
  /\ \E v \in FindOrNew(serverTable, ServerVecs) :
       /\ serverTable' = v
       /\ sv' = [sv EXCEPT !["strand"] = v]
  /\ UNCHANGED <<phase, sockets, allowAccept, clientTable, cv, target,
                 handles, newLink, remote, announced, peer>>

\* The first member is established before the pushes, a later one on return.
ServerAuthInsert ==
  LET s == who["strand"]
      v == sv["strand"]
      first == Inserted(v, s) = {s}
  IN  /\ At("strand", "sInsert") /\ VecFree("strand", v)
      /\ sockets' = [sockets EXCEPT ![v] = Inserted(v, s)]
      /\ Goto("strand", IF first THEN "sPush" ELSE "sDone")
      /\ phase' = [phase EXCEPT ![s] = IF first THEN "established" ELSE @]
      /\ remote' = IF first THEN remote \cup {s} ELSE remote
      /\ UNCHANGED <<link, allowAccept, serverTable, clientTable,
                     maxSocketCount, who, sv, cv, target, handles, newLink,
                     announced, peer>>

ServerAuthDone ==
  LET s == who["strand"]
  IN  /\ At("strand", "sDone")
      /\ Return("strand")
      /\ UNCHANGED <<link, serverTable, clientTable, maxSocketCount, newLink,
                     peer>>
      /\ Settle("strand", sockets, allowAccept,
                [phase EXCEPT ![s] = "established"], remote \cup {s}, announced)

\* SendAllAcceptClient: the packet goes to the only member of the vector,
\* the socket this thread has locked.
PushAllClients ==
  /\ At("strand", "sPush")
  /\ announced' = IF who["strand"] \in remote
                    THEN announced \cup Members(clientTable) ELSE announced
  /\ Goto("strand", "sAdvertise")
  /\ UNCHANGED <<phase, link, sockets, allowAccept, serverTable, clientTable,
                 maxSocketCount, who, sv, cv, target, handles, newLink,
                 remote, peer>>

\* PushAllAcceptServer, first half: every inner server hears of the group.
AdvertiseOnline ==
  /\ At("strand", "sAdvertise")
  /\ advertised' = TRUE
  /\ Goto("strand", "sOnline")
  /\ UNCHANGED <<phase, link, sockets, allowAccept, serverTable, clientTable,
                 maxSocketCount, who, sv, cv, target, handles, newLink,
                 remote, announced, offline>>

\* Mutant: the entry survives the return of the server.
SendbackOnlineForgotten ==
  /\ At("strand", "sOnline")
  /\ Return("strand")
  /\ UNCHANGED <<link, serverTable, clientTable, maxSocketCount, newLink, peer>>
  /\ Settle("strand", sockets, allowAccept, phase, remote, announced)

\* Second half: the sendback controller forgets the offline entry.
SendbackOnline ==
  /\ At("strand", "sOnline")
  /\ offline' = FALSE
  /\ Return("strand")
  /\ UNCHANGED <<link, serverTable, clientTable, maxSocketCount, newLink,
                 advertised>>
  /\ Settle("strand", sockets, allowAccept, phase, remote, announced)

-----------------------------------------------------------------------------
(* Authentication of an outer client.                                      *)

Admissible ==
  /\ serverTable # NoVec
  /\ sockets[serverTable] # {}
  /\ allowAccept[serverTable]

ClientAuthReject(c) ==
  /\ At("strand", "idle") /\ phase[c] = "opened" /\ FreeFor("strand", c)
  /\ ~Admissible
  /\ Abort("strand", c)

ClientAuthCheck(c) ==
  /\ At("strand", "idle") /\ phase[c] = "opened" /\ FreeFor("strand", c)
  /\ Admissible
  /\ who' = [who EXCEPT !["strand"] = c]
  /\ sv' = [sv EXCEPT !["strand"] = serverTable]
  /\ newLink' \in NewLinkNo(clientTable, ClientVecs)
  /\ \E v \in FindOrNew(clientTable, ClientVecs) :
       /\ clientTable' = v
       /\ cv' = [cv EXCEPT !["strand"] = v]
  /\ Goto("strand", "cMark")
  /\ UNCHANGED <<phase, link, sockets, allowAccept, serverTable,
                 maxSocketCount, target, handles, remote, announced, peer>>

\* Mutant: off by one.
LimitPassed(v) == Cardinality(sockets[v]) > maxSocketCount

LimitReached(v) == Cardinality(sockets[v]) >= maxSocketCount

ClientAuthLimit ==
  /\ At("strand", "cMark") /\ LimitReached(cv["strand"])
  /\ Abort("strand", who["strand"])

ClientAuthMark ==
  /\ At("strand", "cMark") /\ ~LimitReached(cv["strand"])
  /\ link' = [link EXCEPT ![who["strand"]] = newLink]
  /\ newLink' = NoLink
  /\ Goto("strand", "cSend")
  /\ UNCHANGED <<phase, sockets, allowAccept, serverTable, clientTable,
                 maxSocketCount, who, sv, cv, target, handles, remote,
                 announced, peer>>

\* NextSocket of the server vector.  The cursor is left out: any member.
ClientAuthNext ==
  /\ At("strand", "cSend") /\ sockets[sv["strand"]] # {}
  /\ \E m \in sockets[sv["strand"]] : target' = [target EXCEPT !["strand"] = m]
  /\ Goto("strand", "cSending")
  /\ UNCHANGED <<phase, link, sockets, allowAccept, serverTable, clientTable,
                 maxSocketCount, who, sv, cv, handles, newLink, remote,
                 announced, peer>>

ClientAuthNoServer ==
  /\ At("strand", "cSend") /\ sockets[sv["strand"]] = {}
  /\ Abort("strand", who["strand"])

\* Send locks the fetched socket; one disposed meanwhile refuses the packet.
ClientAuthAnnounce ==
  LET m == target["strand"]
  IN  /\ At("strand", "cSending") /\ FreeFor("strand", m)
      /\ phase[m] # "closed"
      /\ announced' = IF m \in remote THEN announced \cup {who["strand"]}
                      ELSE announced
      /\ Goto("strand", "cInsert")
      /\ UNCHANGED <<phase, link, sockets, allowAccept, serverTable,
                     clientTable, maxSocketCount, who, sv, cv, target,
                     handles, newLink, remote, peer>>

ClientAuthRefused ==
  /\ At("strand", "cSending") /\ FreeFor("strand", target["strand"])
  /\ phase[target["strand"]] = "closed"
  /\ Abort("strand", who["strand"])

ClientAuthInsert ==
  LET c == who["strand"]
      v == cv["strand"]
  IN  /\ At("strand", "cInsert")
      /\ sockets' = [sockets EXCEPT ![v] = Inserted(v, c)]
      /\ Goto("strand", "cDone")
      /\ UNCHANGED <<phase, link, allowAccept, serverTable, clientTable,
                     maxSocketCount, who, sv, cv, target, handles, newLink,
                     remote, announced, peer>>

ClientAuthDone ==
  /\ At("strand", "cDone")
  /\ Return("strand")
  /\ UNCHANGED <<link, serverTable, clientTable, maxSocketCount, newLink, peer>>
  /\ Settle("strand", sockets, allowAccept,
            [phase EXCEPT ![who["strand"]] = "established"], remote, announced)

-----------------------------------------------------------------------------
(* ProcessAbort of a named socket: ResourcesCleanup and RemoveByLinkNo.    *)

IsServer(t) == who[t] \in Servers
Mine(t) == IF IsServer(t) THEN sv[t] ELSE cv[t]

AbortFind(t) ==
  LET v == IF IsServer(t) THEN serverTable ELSE clientTable
  IN  /\ At(t, "find")
      /\ IF v = NoVec
           THEN Return(t)
           ELSE /\ Goto(t, "remove")
                /\ IF IsServer(t)
                     THEN sv' = [sv EXCEPT ![t] = v] /\ UNCHANGED cv
                     ELSE cv' = [cv EXCEPT ![t] = v] /\ UNCHANGED sv
                /\ UNCHANGED <<who, target, handles>>
      /\ UNCHANGED <<phase, link, sockets, allowAccept, serverTable,
                     clientTable, maxSocketCount, newLink, remote, announced,
                     peer>>

AbortRemove(t) ==
  LET v == Mine(t)
      kept == {m \in sockets[v] : link[m] # link[who[t]]}
  IN  /\ At(t, "remove") /\ VecFree(t, v)
      /\ IF kept = sockets[v]
           THEN Return(t)
           ELSE Goto(t, "erase") /\ UNCHANGED <<who, sv, cv, target, handles>>
      /\ UNCHANGED <<link, serverTable, clientTable, maxSocketCount, newLink,
                     peer>>
      /\ Settle(t, [sockets EXCEPT ![v] = kept], allowAccept, phase,
                remote, announced)

\* The entry is erased by its link type: it may hold another vector by now.
AbortErase(t) ==
  LET emptied == sockets[Mine(t)] = {}
  IN  /\ At(t, "erase")
      /\ Goto(t, "recheck")
      /\ serverTable' = IF emptied /\ IsServer(t) THEN NoVec ELSE serverTable
      /\ clientTable' = IF emptied /\ ~IsServer(t) THEN NoVec ELSE clientTable
      /\ UNCHANGED <<link, maxSocketCount, who, sv, cv, target, handles,
                     newLink, peer>>
      /\ Settle(t, sockets, allowAccept, phase, remote, announced)

\* Mutant: the clients of a lost server are never closed.
AbortRecheckSparing(t) ==
  LET v == Mine(t)
      released == sockets[v] = {}
  IN  /\ At(t, "recheck") /\ VecFree(t, v)
      /\ IF IsServer(t) /\ ~released
           THEN Return(t)
           ELSE /\ Goto(t, IF IsServer(t) THEN "offline" ELSE "sayAbort")
                /\ sv' = [sv EXCEPT ![t] = NoVec]
                /\ cv' = [cv EXCEPT ![t] = NoVec]
                /\ UNCHANGED <<who, target, handles>>
      /\ UNCHANGED <<link, serverTable, clientTable, maxSocketCount, newLink,
                     peer>>
      /\ Settle(t, sockets, [allowAccept EXCEPT ![v] = @ /\ ~released], phase,
                remote, announced)

\* ResourcesCleanup reads the vector once more and then lets go of it.
AbortRecheck(t) ==
  LET v == Mine(t)
      released == sockets[v] = {}
  IN  /\ At(t, "recheck") /\ VecFree(t, v)
      /\ \/ /\ ~IsServer(t)
            /\ Goto(t, "sayAbort")
            /\ cv' = [cv EXCEPT ![t] = NoVec]
            /\ UNCHANGED <<who, sv, target, handles>>
         \/ /\ IsServer(t) /\ released
            /\ Goto(t, IF CloseAll THEN "clearFind" ELSE "offline")
            /\ sv' = [sv EXCEPT ![t] = NoVec]
            /\ UNCHANGED <<who, cv, target, handles>>
         \/ /\ IsServer(t) /\ ~released
            /\ Return(t)
      /\ UNCHANGED <<link, serverTable, clientTable, maxSocketCount, newLink,
                     peer>>
      /\ Settle(t, sockets, [allowAccept EXCEPT ![v] = @ /\ ~released], phase,
                remote, announced)

\* SendAbortClient: find the server vector, pick a channel, then lock it.
SayAbort(t) ==
  /\ At(t, "sayAbort")
  /\ \/ /\ Members(serverTable) = {}
        /\ Return(t)
     \/ \E m \in Members(serverTable) :
          /\ Goto(t, "saying")
          /\ sv' = [sv EXCEPT ![t] = serverTable]
          /\ target' = [target EXCEPT ![t] = m]
          /\ UNCHANGED <<who, cv, handles>>
  /\ UNCHANGED <<phase, link, sockets, allowAccept, serverTable, clientTable,
                 maxSocketCount, newLink, remote, announced, peer>>

\* Mutant: the abort is prepared but never posted.
SayingNothing(t) ==
  /\ At(t, "saying") /\ FreeFor(t, target[t])
  /\ Return(t)
  /\ UNCHANGED <<link, serverTable, clientTable, maxSocketCount, newLink, peer>>
  /\ Settle(t, sockets, allowAccept, phase, remote, announced)

Saying(t) ==
  LET m == target[t]
      told == IF phase[m] # "closed" /\ m \in remote
                THEN announced \ {who[t]} ELSE announced
  IN  /\ At(t, "saying") /\ FreeFor(t, m)
      /\ Return(t)
      /\ UNCHANGED <<link, serverTable, clientTable, maxSocketCount, newLink,
                     peer>>
      /\ Settle(t, sockets, allowAccept, phase, remote, told)

-----------------------------------------------------------------------------
(* CloseAllClient: SocketVectorObject::Clear(true) of the client vector.   *)

\* No client vector: a command is refused, which aborts its sender.
ClearNothing(t) ==
  /\ At(t, "clearFind") /\ clientTable = NoVec
  /\ IF phase[who[t]] = "closed"
       THEN /\ Goto(t, "offline")
            /\ UNCHANGED <<phase, link, sockets, allowAccept, serverTable,
                           clientTable, maxSocketCount, who, sv, cv, target,
                           handles, newLink, remote, announced, peer>>
       ELSE Abort(t, who[t])

ClearFind(t) ==
  /\ At(t, "clearFind") /\ clientTable # NoVec
  /\ Goto(t, "snapshot")
  /\ cv' = [cv EXCEPT ![t] = clientTable]
  /\ UNCHANGED <<phase, link, sockets, allowAccept, serverTable, clientTable,
                 maxSocketCount, who, sv, target, handles, newLink, remote,
                 announced, peer>>

ClearSnapshot(t) ==
  /\ At(t, "snapshot")
  /\ Goto(t, "closing")
  /\ handles' = [handles EXCEPT ![t] = LinksIn(cv[t])]
  /\ allowAccept' = [allowAccept EXCEPT ![cv[t]] = FALSE]
  /\ UNCHANGED <<phase, link, sockets, serverTable, clientTable,
                 maxSocketCount, who, sv, cv, target, newLink, remote,
                 announced, peer>>

ClearRemove(t) ==
  /\ At(t, "closing")
  /\ \E n \in handles[t] :
       /\ handles' = [handles EXCEPT ![t] = @ \ {n}]
       /\ \/ /\ n \notin LinksIn(cv[t])
             /\ UNCHANGED <<pc, target, sockets>>
          \/ \E m \in sockets[cv[t]] :
               /\ link[m] = n
               /\ Goto(t, "closeOne")
               /\ target' = [target EXCEPT ![t] = m]
               /\ sockets' = [sockets EXCEPT ![cv[t]] = @ \ {m}]
  /\ UNCHANGED <<phase, link, allowAccept, serverTable, clientTable,
                 maxSocketCount, who, sv, cv, newLink, remote, announced, peer>>

\* Mutant: the socket is closed without its mutex.
ClearCloseUnlocked(t) ==
  /\ At(t, "closeOne")
  /\ phase' = [phase EXCEPT ![target[t]] = "closed"]
  /\ target' = [target EXCEPT ![t] = NoSocket]
  /\ Goto(t, "closing")
  /\ UNCHANGED <<link, sockets, allowAccept, serverTable, clientTable,
                 maxSocketCount, who, sv, cv, handles, newLink, remote,
                 announced, peer>>

\* Close() forgets the handler before the event: nothing is cleaned up.
ClearClose(t) ==
  /\ At(t, "closeOne") /\ FreeFor(t, target[t])
  /\ phase' = [phase EXCEPT ![target[t]] = "closed"]
  /\ target' = [target EXCEPT ![t] = NoSocket]
  /\ Goto(t, "closing")
  /\ UNCHANGED <<link, sockets, allowAccept, serverTable, clientTable,
                 maxSocketCount, who, sv, cv, handles, newLink, remote,
                 announced, peer>>

\* Clear(false) drops whatever is left, and CloseAllClient returns.
ClearRest(t) ==
  /\ At(t, "closing") /\ handles[t] = {}
  /\ IF phase[who[t]] = "closed"
       THEN /\ Goto(t, "offline")
            /\ cv' = [cv EXCEPT ![t] = NoVec]
            /\ UNCHANGED <<who, sv, target, handles>>
       ELSE Return(t)
  /\ UNCHANGED <<link, serverTable, clientTable, maxSocketCount, newLink, peer>>
  /\ Settle(t, [sockets EXCEPT ![cv[t]] = {}],
            [allowAccept EXCEPT ![cv[t]] = FALSE], phase, remote, announced)

SendbackOffline(t) ==
  /\ At(t, "offline")
  /\ offline' = TRUE
  /\ Goto(t, "advertise")
  /\ UNCHANGED <<phase, link, sockets, allowAccept, serverTable, clientTable,
                 maxSocketCount, who, sv, cv, target, handles, newLink,
                 remote, announced, advertised>>

AdvertiseOffline(t) ==
  /\ At(t, "advertise")
  /\ advertised' = FALSE
  /\ Return(t)
  /\ UNCHANGED <<phase, link, sockets, allowAccept, serverTable, clientTable,
                 maxSocketCount, newLink, remote, announced, offline>>

-----------------------------------------------------------------------------
(* Messages of established sockets, delivered on the strand.               *)

Receives(s) ==
  /\ At("strand", "idle") /\ phase[s] = "established" /\ FreeFor("strand", s)
  /\ who' = [who EXCEPT !["strand"] = s]

\* PermittedAccept and PreventAccept; without a vector the sender is aborted.
AcceptCommand(s) ==
  /\ Receives(s)
  /\ serverTable # NoVec
  /\ \E op \in {"mark", "prevent"} : Goto("strand", op)
  /\ sv' = [sv EXCEPT !["strand"] = serverTable]
  /\ UNCHANGED <<phase, link, sockets, allowAccept, serverTable, clientTable,
                 maxSocketCount, cv, target, handles, newLink, remote,
                 announced, peer>>

AcceptCommandLost(s) ==
  /\ At("strand", "idle") /\ phase[s] = "established" /\ FreeFor("strand", s)
  /\ serverTable = NoVec
  /\ Abort("strand", s)

MarkAllowAccept ==
  LET permit == At("strand", "mark")
  IN  /\ pc["strand"] \in {"mark", "prevent"}
      /\ Return("strand")
      /\ UNCHANGED <<link, serverTable, clientTable, maxSocketCount, newLink,
                     peer>>
      /\ Settle("strand", sockets,
                [allowAccept EXCEPT ![sv["strand"]] = permit], phase,
                remote, announced)

\* The sender has dropped every client it knew (AbortAllVirtualSockets).
AbortAllClient(s) ==
  /\ Receives(s) /\ s \in remote
  /\ Goto("strand", "clearFind")
  /\ announced' = {}
  /\ UNCHANGED <<phase, link, sockets, allowAccept, serverTable, clientTable,
                 maxSocketCount, sv, cv, target, handles, newLink, remote,
                 peer>>

\* AbortClient and RoutingTransparent name clients the inner server knows; it
\* has already dropped the one it aborts.
ToClient(s, c) ==
  /\ Receives(s) /\ s \in remote /\ c \in announced \cap Members(clientTable)
  /\ cv' = [cv EXCEPT !["strand"] = clientTable]
  /\ target' = [target EXCEPT !["strand"] = c]
  /\ \/ Goto("strand", "kick") /\ announced' = announced \ {c}
     \/ Goto("strand", "down") /\ UNCHANGED announced
  /\ UNCHANGED <<phase, link, sockets, allowAccept, serverTable, clientTable,
                 maxSocketCount, sv, handles, newLink, remote, peer>>

\* Close() of the client leaves it in the vector; Send() changes nothing here.
ClientReached ==
  LET c == target["strand"]
      kicked == IF At("strand", "kick") THEN "closed" ELSE phase[c]
  IN  /\ pc["strand"] \in {"kick", "down"} /\ FreeFor("strand", c)
      /\ Return("strand")
      /\ UNCHANGED <<link, serverTable, clientTable, maxSocketCount, newLink,
                     peer>>
      /\ Settle("strand", sockets, allowAccept, [phase EXCEPT ![c] = kicked],
                remote, announced)

\* A client's message with no server vector: the client is aborted if the hub
\* may close clients, and the message is dropped otherwise.
ForwardNowhere(c) ==
  /\ At("strand", "idle") /\ phase[c] = "established" /\ FreeFor("strand", c)
  /\ serverTable = NoVec /\ CloseAll
  /\ Abort("strand", c)

\* Otherwise the vector is locked for as long as the send takes.
Forward(c) ==
  /\ Receives(c)
  /\ \E m \in Members(serverTable) : target' = [target EXCEPT !["strand"] = m]
  /\ sv' = [sv EXCEPT !["strand"] = serverTable]
  /\ Goto("strand", "forward")
  /\ UNCHANGED <<phase, link, sockets, allowAccept, serverTable, clientTable,
                 maxSocketCount, cv, handles, newLink, remote, announced, peer>>

Forwarded ==
  /\ At("strand", "forward") /\ FreeFor("strand", target["strand"])
  /\ Return("strand")
  /\ UNCHANGED <<link, serverTable, clientTable, maxSocketCount, newLink, peer>>
  /\ Settle("strand", sockets, allowAccept, phase, remote, announced)

-----------------------------------------------------------------------------
StrandStep ==
  \/ \E s \in Servers : ServerAuthAssign(s) \/ AcceptCommand(s)
                          \/ AcceptCommandLost(s) \/ AbortAllClient(s)
                          \/ \E c \in Clients : ToClient(s, c)
  \/ ServerAuthInsert \/ ServerAuthDone
  \/ PushAllClients \/ AdvertiseOnline \/ SendbackOnline
  \/ \E c \in Clients : ClientAuthReject(c) \/ ClientAuthCheck(c)
                          \/ ForwardNowhere(c) \/ Forward(c)
  \/ ClientAuthLimit \/ ClientAuthMark \/ ClientAuthNext \/ ClientAuthNoServer
  \/ ClientAuthAnnounce \/ ClientAuthRefused \/ ClientAuthInsert \/ ClientAuthDone
  \/ MarkAllowAccept \/ ClientReached \/ Forwarded

AbortStep(t) ==
  \/ \E s \in Sockets : AbortBegin(t, s)
  \/ AbortFind(t) \/ AbortRemove(t) \/ AbortErase(t) \/ AbortRecheck(t)
  \/ SayAbort(t) \/ Saying(t)
  \/ ClearNothing(t) \/ ClearFind(t) \/ ClearSnapshot(t) \/ ClearRemove(t)
  \/ ClearClose(t) \/ ClearRest(t)
  \/ SendbackOffline(t) \/ AdvertiseOffline(t)

Environment ==
  \/ \E s \in Sockets : Accept(s) \/ Recycle(s)
  \/ \E s \in Servers : SilentLoss(s)

Next == StrandStep \/ (\E t \in Threads : AbortStep(t)) \/ Environment

Spec == Init /\ [][Next]_vars

-----------------------------------------------------------------------------
(* Properties.                                                             *)

Quiet == \A t \in Threads : At(t, "idle")
Established(S) == {s \in S : phase[s] = "established"}

\* A vector only ever grows within the limit the inner server has set by then,
\* although the size is checked three critical sections before the insertion
\* (ProcessAuthentication, lines 178-246) and every authenticating server may
\* lower the limit.
CapacityRespected ==
  [][\A v \in ClientVecs :
       Cardinality(sockets'[v]) > Cardinality(sockets[v])
         => Cardinality(sockets'[v]) <= maxSocketCount']_vars

\* The number a client is about to be inserted under is not in use: the
\* assignment sockets[linkNo] = socket never displaces another client, though
\* NewLinkNo reserves nothing.
NothingDisplaced ==
  At("strand", "cInsert") =>
    \A m \in sockets[cv["strand"]] : link[m] # link[who["strand"]]

\* Every established inner server socket is in the vector the table refers to
\* and that vector holds no closed socket, when no handler is running: neither
\* the erasure by link type in RemoveByLinkNo nor a vector's destructor leaves
\* a live channel that no one can find, or a dead one that would be picked.
ServerTableExact ==
  Quiet => Members(serverTable) = Established(Servers)

\* A disposed socket is never established again, although the timer may close
\* one whose authentication has been accepted and not yet been marked complete
\* (CompletelyAuthentication runs after the insertion, Clear in between).
NoResurrection ==
  [][\A s \in Sockets : phase[s] = "closed" => phase'[s] # "established"]_vars

\* An established client is hosted: it is in the vector the table refers to,
\* as the comment on line 223 says of a completed authentication.
ClientHosted ==
  Quiet => Established(Clients) \subseteq Members(clientTable)

\* What the inner server knows is what the hub hosts: an inner server that is
\* reachable has been told of exactly the established clients, and with the
\* default policy no client outlives the last channel of its server.
ServerSeesClients ==
  Quiet => /\ remote # {} => announced = Established(Clients)
           /\ CloseAll /\ Established(Servers) = {} => Established(Clients) = {}

\* The sendback controller and the other inner servers agree with the table.
PeersAgree ==
  Quiet => /\ advertised <=> Established(Servers) # {}
           /\ offline => Established(Servers) = {}

Wants(t) == IF pc[t] \in {"cSending", "saying", "closeOne", "kick", "down",
                          "forward"} THEN target[t] ELSE NoSocket
WantsVec(t) == IF pc[t] \in {"remove", "recheck"} THEN Mine(t) ELSE NoVec
Blocked(t, u) ==
  \/ Wants(t) # NoSocket /\ Wants(t) = who[u]
  \/ WantsVec(t) # NoVec /\ At(u, "forward") /\ WantsVec(t) = sv[u]

\* The two threads never wait for mutexes of each other: the table is read
\* under the mutex of the server object alone, as "anti-deadline-0" says.
NoLockCycle == ~(Blocked("strand", "timer") /\ Blocked("timer", "strand"))
=============================================================================
