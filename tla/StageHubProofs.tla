--------------------------- MODULE StageHubProofs ---------------------------
(* Theorems about the hub, for every set of sockets, vectors and numbers.  *)
EXTENDS StageHub, FiniteSetTheorems, TLAPS

StrandOnly == {"sInsert", "sDone", "sPush", "sAdvertise", "sOnline", "cMark",
               "cSend", "cSending", "cInsert", "cDone", "mark", "prevent",
               "kick", "down", "forward"}

\* What the locals of a handler hold at each of its steps.
LocalsOK ==
  /\ pc["timer"] \notin StrandOnly
  /\ who["timer"] # NoSocket => who["timer"] # who["strand"]
  /\ pc["strand"] \in {"sInsert", "sDone", "sPush", "sAdvertise", "sOnline"}
       => who["strand"] \in Servers /\ sv["strand"] \in ServerVecs
  /\ pc["strand"] \in {"cMark", "cSend", "cSending", "cInsert", "cDone"}
       => /\ who["strand"] \in Clients
          /\ sv["strand"] \in ServerVecs /\ cv["strand"] \in ClientVecs
  /\ pc["strand"] = "cMark" => newLink \in LinkNos
  /\ pc["strand"] \in {"cSending", "forward"} => target["strand"] \in Servers
  /\ pc["strand"] \in {"kick", "down"} => target["strand"] \in Clients
  /\ pc["strand"] \in {"mark", "prevent"} => sv["strand"] \in ServerVecs
  /\ \A t \in Threads :
       /\ pc[t] \in {"find", "remove", "erase", "recheck", "clearFind"}
            => who[t] \in Sockets
       /\ pc[t] \in {"sayAbort", "saying"} => who[t] \in Clients
       /\ pc[t] \in {"remove", "erase", "recheck"}
            => IF who[t] \in Servers THEN sv[t] \in ServerVecs
                                     ELSE cv[t] \in ClientVecs
       /\ pc[t] = "saying" => target[t] \in Servers
       /\ pc[t] \in {"snapshot", "closing", "closeOne"}
            => who[t] \in Sockets /\ cv[t] \in ClientVecs
       /\ pc[t] = "closeOne" => target[t] \in Clients

IInv == TypeOK /\ LocalsOK

\* The part of TypeOK that Settle determines, and the rest.
SettledOK ==
  /\ phase \in [Sockets -> {"none", "opened", "established", "closed"}]
  /\ sockets \in [Vecs -> SUBSET Sockets]
  /\ \A v \in ServerVecs : sockets[v] \subseteq Servers
  /\ \A v \in ClientVecs : sockets[v] \subseteq Clients
  /\ allowAccept \in [Vecs -> BOOLEAN]
  /\ remote \subseteq Servers
  /\ announced \subseteq Clients

OthersOK ==
  /\ link \in [Sockets -> LinkNos \cup {NoLink}]
  /\ serverTable \in ServerVecs \cup {NoVec}
  /\ clientTable \in ClientVecs \cup {NoVec}
  /\ maxSocketCount \in MaxFDs \cup {0}
  /\ pc \in [Threads -> Labels]
  /\ who \in [Threads -> Sockets \cup {NoSocket}]
  /\ sv \in [Threads -> ServerVecs \cup {NoVec}]
  /\ cv \in [Threads -> ClientVecs \cup {NoVec}]
  /\ target \in [Threads -> Sockets \cup {NoSocket}]
  /\ handles \in [Threads -> SUBSET (LinkNos \cup {NoLink})]
  /\ newLink \in LinkNos \cup {NoLink}
  /\ offline \in BOOLEAN /\ advertised \in BOOLEAN

LEMMA TypeParts == TypeOK <=> SettledOK /\ OthersOK
  BY DEF TypeOK, SettledOK, OthersOK

Phases == {"none", "opened", "established", "closed"}

LEMMA SettleTyped ==
  ASSUME NEW t,
         NEW skts \in [Vecs -> SUBSET Sockets],
         \A v \in ServerVecs : skts[v] \subseteq Servers,
         \A v \in ClientVecs : skts[v] \subseteq Clients,
         NEW allow \in [Vecs -> BOOLEAN],
         NEW ph \in [Sockets -> Phases],
         NEW rem \in SUBSET Servers,
         NEW ann \in SUBSET Clients,
         Settle(t, skts, allow, ph, rem, ann)
  PROVE  SettledOK'
<1> DEFINE dead == Vecs \cap (Held \ Held')
           victims == UNION {skts[v] : v \in dead}
<1>1. /\ sockets' = [v \in Vecs |-> IF v \in dead THEN {} ELSE skts[v]]
      /\ allowAccept' = [v \in Vecs |-> v \notin dead /\ allow[v]]
      /\ phase' = [s \in Sockets |-> IF s \in victims THEN "closed" ELSE ph[s]]
      /\ remote' = {s \in rem : phase'[s] = "established"}
      /\ announced' = IF remote' = {} THEN {} ELSE ann
  BY Zenon DEF Settle
<1> HIDE DEF dead, victims
<1>2. allowAccept' \in [Vecs -> BOOLEAN]
  BY <1>1, Zenon
<1>3. phase' \in [Sockets -> Phases]
  BY <1>1 DEF Phases
<1>4. /\ sockets' \in [Vecs -> SUBSET Sockets]
      /\ \A v \in ServerVecs : sockets'[v] \subseteq Servers
      /\ \A v \in ClientVecs : sockets'[v] \subseteq Clients
  BY <1>1 DEF Vecs
<1>5. remote' \subseteq Servers /\ announced' \subseteq Clients
  BY <1>1
<1> QED
  BY <1>2, <1>3, <1>4, <1>5 DEF SettledOK, Phases

-----------------------------------------------------------------------------
(* IInv is inductive.                                                      *)

\* The locals of a handler that returns constrain nothing any more.
LEMMA ReturnTyped ==
  ASSUME IInv, NEW t \in Threads, Return(t),
         UNCHANGED <<link, serverTable, clientTable, maxSocketCount, newLink>>,
         offline' \in BOOLEAN, advertised' \in BOOLEAN
  PROVE  OthersOK' /\ LocalsOK'
<1>1. OthersOK'
  BY DEF IInv, TypeOK, OthersOK, Return, Goto, Labels, Threads
<1>2. LocalsOK'
  BY DEF IInv, TypeOK, LocalsOK, Return, Goto, StrandOnly, Threads
<1> QED
  BY <1>1, <1>2

LEMMA AbortTyped ==
  ASSUME IInv, NEW t \in Threads, NEW s \in Sockets, Abort(t, s), FreeFor(t, s)
  PROVE  IInv'
<1>1. SettledOK'
  <2>1. [phase EXCEPT ![s] = "closed"] \in [Sockets -> Phases]
    BY DEF IInv, TypeOK, Phases
  <2> QED
    BY <2>1, SettleTyped DEF IInv, TypeOK, Abort
<1>2. CASE link[s] = NoLink
  BY <1>1, <1>2 DEF IInv, TypeOK, OthersOK, LocalsOK, Abort, Return, Goto, Labels,
                    StrandOnly, Threads, peer, SettledOK
<1>3. CASE link[s] # NoLink
  <2>1. OthersOK'
    BY <1>3 DEF IInv, TypeOK, OthersOK, Abort, Goto, Labels, Threads, peer
  <2>2. LocalsOK'
    BY <1>3 DEF IInv, TypeOK, LocalsOK, Abort, Goto, StrandOnly, Threads, FreeFor
  <2> QED
    BY <1>1, <2>1, <2>2, TypeParts DEF IInv, TypeOK, SettledOK, OthersOK
<1> QED
  BY <1>2, <1>3

LEMMA StrandPlainTyped ==
  ASSUME IInv
  PROVE  /\ \A x \in Servers : ServerAuthAssign(x) => IInv'
         /\ ServerAuthInsert => IInv'
         /\ PushAllClients => IInv'
         /\ AdvertiseOnline => IInv'
         /\ \A x \in Clients : ClientAuthCheck(x) => IInv'
         /\ ClientAuthMark => IInv'
         /\ ClientAuthNext => IInv'
         /\ ClientAuthAnnounce => IInv'
         /\ ClientAuthInsert => IInv'
         /\ \A x \in Servers : AcceptCommand(x) => IInv'
         /\ \A x \in Servers : AbortAllClient(x) => IInv'
         /\ \A x \in Clients : Forward(x) => IInv'
         /\ \A x \in Servers, c \in Clients : ToClient(x, c) => IInv'
<1>1. ASSUME NEW x \in Servers, ServerAuthAssign(x) PROVE IInv'
  BY <1>1 DEF IInv, TypeOK, LocalsOK, ServerAuthAssign, At, Goto, Labels, Threads,
     StrandOnly, Sockets, Vecs, local, peer, NewLinkNo, FindOrNew, FreeFor
<1>2. ASSUME ServerAuthInsert PROVE IInv'
  BY <1>2, HubAssumption DEF IInv, TypeOK, LocalsOK, ServerAuthInsert, At, Goto, Labels, Threads,
     StrandOnly, Sockets, Vecs, local, peer, Inserted
<1>3. ASSUME PushAllClients PROVE IInv'
  BY <1>3 DEF IInv, TypeOK, LocalsOK, PushAllClients, At, Goto, Labels, Threads,
     StrandOnly, Sockets, Vecs, local, peer, Members
<1>4. ASSUME AdvertiseOnline PROVE IInv'
  BY <1>4 DEF IInv, TypeOK, LocalsOK, AdvertiseOnline, At, Goto, Labels, Threads,
     StrandOnly, Sockets, Vecs, local, peer
<1>5. ASSUME NEW x \in Clients, ClientAuthCheck(x) PROVE IInv'
  BY <1>5 DEF IInv, TypeOK, LocalsOK, ClientAuthCheck, At, Goto, Labels, Threads,
     StrandOnly, Sockets, Vecs, local, peer, NewLinkNo, FindOrNew, Admissible, FreeFor
<1>6. ASSUME ClientAuthMark PROVE IInv'
  BY <1>6 DEF IInv, TypeOK, LocalsOK, ClientAuthMark, At, Goto, Labels, Threads,
     StrandOnly, Sockets, Vecs, local, peer
<1>7. ASSUME ClientAuthNext PROVE IInv'
  BY <1>7 DEF IInv, TypeOK, LocalsOK, ClientAuthNext, At, Goto, Labels, Threads,
     StrandOnly, Sockets, Vecs, local, peer
<1>8. ASSUME ClientAuthAnnounce PROVE IInv'
  BY <1>8 DEF IInv, TypeOK, LocalsOK, ClientAuthAnnounce, At, Goto, Labels, Threads,
     StrandOnly, Sockets, Vecs, local, peer
<1>9. ASSUME ClientAuthInsert PROVE IInv'
  BY <1>9, HubAssumption DEF IInv, TypeOK, LocalsOK, ClientAuthInsert, At, Goto, Labels, Threads,
     StrandOnly, Sockets, Vecs, local, peer, Inserted
<1>10. ASSUME NEW x \in Servers, AcceptCommand(x) PROVE IInv'
  BY <1>10 DEF IInv, TypeOK, LocalsOK, AcceptCommand, At, Goto, Labels, Threads,
     StrandOnly, Sockets, Vecs, local, peer, FreeFor, Receives
<1>11. ASSUME NEW x \in Servers, AbortAllClient(x) PROVE IInv'
  BY <1>11 DEF IInv, TypeOK, LocalsOK, AbortAllClient, At, Goto, Labels, Threads,
     StrandOnly, Sockets, Vecs, local, peer, FreeFor, Receives
<1>12. ASSUME NEW x \in Clients, Forward(x) PROVE IInv'
  BY <1>12 DEF IInv, TypeOK, LocalsOK, Forward, At, Goto, Labels, Threads,
     StrandOnly, Sockets, Vecs, local, peer, FreeFor, Receives, Members
<1>13. ASSUME NEW x \in Servers, NEW c \in Clients, ToClient(x, c) PROVE IInv'
  BY <1>13 DEF IInv, TypeOK, LocalsOK, ToClient, At, Goto, Labels, Threads,
     StrandOnly, Sockets, Vecs, local, peer, FreeFor, Receives, Members
<1> QED
  BY <1>1, <1>2, <1>3, <1>4, <1>5, <1>6, <1>7, <1>8, <1>9, <1>10, <1>11, <1>12, <1>13

\* Handlers that return and let Settle decide what they leave behind.
LEMMA StrandReturnTyped ==
  ASSUME IInv
  PROVE  /\ ServerAuthDone => IInv'
         /\ SendbackOnline => IInv'
         /\ ClientAuthDone => IInv'
         /\ MarkAllowAccept => IInv'
         /\ ClientReached => IInv'
         /\ Forwarded => IInv'
<1>1. ASSUME ServerAuthDone PROVE IInv'
  <2>1. OthersOK' /\ LocalsOK'
    BY <1>1, ReturnTyped DEF IInv, TypeOK, ServerAuthDone, Threads, peer
  <2>2. SettledOK'
    BY <1>1, SettleTyped DEF IInv, TypeOK, LocalsOK, ServerAuthDone, Phases, At
  <2> QED
    BY <2>1, <2>2, TypeParts DEF IInv, TypeOK, SettledOK, OthersOK
<1>2. ASSUME SendbackOnline PROVE IInv'
  <2>1. OthersOK' /\ LocalsOK'
    BY <1>2, ReturnTyped DEF IInv, TypeOK, SendbackOnline, Threads, peer
  <2>2. SettledOK'
    BY <1>2, SettleTyped DEF IInv, TypeOK, LocalsOK, SendbackOnline, Phases, At
  <2> QED
    BY <2>1, <2>2, TypeParts DEF IInv, TypeOK, SettledOK, OthersOK
<1>3. ASSUME ClientAuthDone PROVE IInv'
  <2>1. OthersOK' /\ LocalsOK'
    BY <1>3, ReturnTyped DEF IInv, TypeOK, ClientAuthDone, Threads, peer
  <2>2. SettledOK'
    BY <1>3, SettleTyped DEF IInv, TypeOK, LocalsOK, ClientAuthDone, Phases, At
  <2> QED
    BY <2>1, <2>2, TypeParts DEF IInv, TypeOK, SettledOK, OthersOK
<1>4. ASSUME MarkAllowAccept PROVE IInv'
  <2>1. OthersOK' /\ LocalsOK'
    BY <1>4, ReturnTyped DEF IInv, TypeOK, MarkAllowAccept, Threads, peer
  <2>2. SettledOK'
    BY <1>4, SettleTyped DEF IInv, TypeOK, LocalsOK, MarkAllowAccept, Phases, At
  <2> QED
    BY <2>1, <2>2, TypeParts DEF IInv, TypeOK, SettledOK, OthersOK
<1>5. ASSUME ClientReached PROVE IInv'
  <2>1. OthersOK' /\ LocalsOK'
    BY <1>5, ReturnTyped DEF IInv, TypeOK, ClientReached, Threads, peer
  <2>2. SettledOK'
    BY <1>5, SettleTyped DEF IInv, TypeOK, LocalsOK, ClientReached, Phases, At
  <2> QED
    BY <2>1, <2>2, TypeParts DEF IInv, TypeOK, SettledOK, OthersOK
<1>6. ASSUME Forwarded PROVE IInv'
  <2>1. OthersOK' /\ LocalsOK'
    BY <1>6, ReturnTyped DEF IInv, TypeOK, Forwarded, Threads, peer
  <2>2. SettledOK'
    BY <1>6, SettleTyped DEF IInv, TypeOK, LocalsOK, Forwarded, Phases, At
  <2> QED
    BY <2>1, <2>2, TypeParts DEF IInv, TypeOK, SettledOK, OthersOK
<1> QED
  BY <1>1, <1>2, <1>3, <1>4, <1>5, <1>6

\* Handlers that end in AbortINT3.
LEMMA StrandAbortTyped ==
  ASSUME IInv
  PROVE  /\ \A c \in Clients : ClientAuthReject(c) \/ ForwardNowhere(c) => IInv'
         /\ \A s \in Servers : AcceptCommandLost(s) => IInv'
         /\ ClientAuthLimit \/ ClientAuthNoServer \/ ClientAuthRefused => IInv'
<1>1. ASSUME NEW c \in Clients, ClientAuthReject(c) \/ ForwardNowhere(c)
      PROVE  IInv'
  BY <1>1, AbortTyped DEF ClientAuthReject, ForwardNowhere, Threads, Sockets
<1>2. ASSUME NEW s \in Servers, AcceptCommandLost(s) PROVE IInv'
  BY <1>2, AbortTyped DEF AcceptCommandLost, Threads, Sockets
<1>3. ASSUME ClientAuthLimit \/ ClientAuthNoServer \/ ClientAuthRefused
      PROVE  IInv'
  <2>1. /\ who["strand"] \in Sockets
        /\ Abort("strand", who["strand"]) /\ FreeFor("strand", who["strand"])
    BY <1>3, HubAssumption
    DEF ClientAuthLimit, ClientAuthNoServer, ClientAuthRefused, IInv, LocalsOK,
        At, Sockets, FreeFor, Threads
  <2> QED
    BY <2>1, AbortTyped DEF Threads
<1> QED
  BY <1>1, <1>2, <1>3

LEMMA CleanupTyped ==
  ASSUME IInv, NEW t \in Threads
  PROVE  AbortStep(t) => IInv'
<1> USE HubAssumption
<1>1. ASSUME NEW s \in Sockets, AbortBegin(t, s) PROVE IInv'
  BY <1>1, AbortTyped DEF AbortBegin
<1>2. ASSUME AbortFind(t) PROVE IInv'
  BY <1>2 DEF IInv, TypeOK, LocalsOK, AbortFind, At, Goto, Labels, Threads,
     StrandOnly, Sockets, Vecs, local, peer, Return, IsServer
<1>3. ASSUME AbortRemove(t) PROVE IInv'
  <2>1. OthersOK'
    BY <1>3 DEF IInv, TypeOK, OthersOK, LocalsOK, AbortRemove, At, Goto, Return, Labels,
       Threads, peer, Mine, IsServer
  <2>2. LocalsOK'
    BY <1>3 DEF IInv, TypeOK, LocalsOK, AbortRemove, At, Goto, Return, Threads,
       StrandOnly, Mine, IsServer
  <2>3. SettledOK'
    BY <1>3, SettleTyped DEF IInv, TypeOK, LocalsOK, AbortRemove, Phases, At, Vecs,
       Sockets, Mine, IsServer
  <2> QED
    BY <2>1, <2>2, <2>3, TypeParts DEF IInv, TypeOK, SettledOK, OthersOK
<1>4. ASSUME AbortErase(t) PROVE IInv'
  <2>1. OthersOK'
    BY <1>4 DEF IInv, TypeOK, OthersOK, LocalsOK, AbortErase, At, Goto, Return, Labels,
       Threads, peer, Mine, IsServer
  <2>2. LocalsOK'
    BY <1>4 DEF IInv, TypeOK, LocalsOK, AbortErase, At, Goto, Return, Threads,
       StrandOnly, Mine, IsServer
  <2>3. SettledOK'
    BY <1>4, SettleTyped DEF IInv, TypeOK, LocalsOK, AbortErase, Phases, At, Vecs,
       Sockets, Mine, IsServer
  <2> QED
    BY <2>1, <2>2, <2>3, TypeParts DEF IInv, TypeOK, SettledOK, OthersOK
<1>5. ASSUME AbortRecheck(t) PROVE IInv'
  <2>1. OthersOK'
    BY <1>5 DEF IInv, TypeOK, OthersOK, LocalsOK, AbortRecheck, At, Goto, Return, Labels,
       Threads, peer, Mine, IsServer
  <2>2. LocalsOK'
    <3>1. CASE IsServer(t)
      BY <1>5, <3>1 DEF IInv, TypeOK, LocalsOK, AbortRecheck, At, Goto, Return,
         Threads, StrandOnly, IsServer
    <3>2. CASE ~IsServer(t)
      BY <1>5, <3>2 DEF IInv, TypeOK, LocalsOK, AbortRecheck, At, Goto, Threads,
         StrandOnly, IsServer, Sockets
    <3> QED
      BY <3>1, <3>2
  <2>3. SettledOK'
    BY <1>5, SettleTyped DEF IInv, TypeOK, LocalsOK, AbortRecheck, Phases, At, Vecs,
       Sockets, Mine, IsServer
  <2> QED
    BY <2>1, <2>2, <2>3, TypeParts DEF IInv, TypeOK, SettledOK, OthersOK
<1>6. ASSUME SayAbort(t) PROVE IInv'
  BY <1>6 DEF IInv, TypeOK, LocalsOK, SayAbort, At, Goto, Labels, Threads,
     StrandOnly, Sockets, Vecs, local, peer, Return, Members
<1>7. ASSUME Saying(t) PROVE IInv'
  <2>1. OthersOK'
    BY <1>7 DEF IInv, TypeOK, OthersOK, LocalsOK, Saying, At, Goto, Return, Labels,
       Threads, peer
  <2>2. LocalsOK'
    BY <1>7 DEF IInv, TypeOK, LocalsOK, Saying, At, Goto, Return, Threads,
       StrandOnly
  <2>3. SettledOK'
    <3> DEFINE told == IF phase[target[t]] # "closed" /\ target[t] \in remote
                         THEN announced \ {who[t]} ELSE announced
    <3>1. told \in SUBSET Clients /\ remote \in SUBSET Servers
      BY DEF IInv, TypeOK
    <3>2. Settle(t, sockets, allowAccept, phase, remote, told)
      BY <1>7, Zenon DEF Saying
    <3> HIDE DEF told
    <3> QED
      BY <3>1, <3>2, SettleTyped DEF IInv, TypeOK, Phases
  <2> QED
    BY <2>1, <2>2, <2>3, TypeParts DEF IInv, TypeOK, SettledOK, OthersOK
<1>8. ASSUME ClearNothing(t) PROVE IInv'
  <2>1. CASE phase[who[t]] = "closed"
    BY <1>8, <2>1 DEF IInv, TypeOK, LocalsOK, ClearNothing, At, Goto, Labels,
       Threads, StrandOnly, Sockets, Vecs, peer
  <2>2. CASE phase[who[t]] # "closed"
    <3>1. who[t] \in Sockets /\ Abort(t, who[t])
      BY <1>8, <2>2 DEF IInv, LocalsOK, ClearNothing, At
    <3>2. FreeFor(t, who[t])
      BY <3>1 DEF IInv, LocalsOK, FreeFor, Threads, Sockets
    <3> QED
      BY <3>1, <3>2, AbortTyped
  <2> QED
    BY <2>1, <2>2
<1>9. ASSUME ClearFind(t) PROVE IInv'
  BY <1>9 DEF IInv, TypeOK, LocalsOK, ClearFind, At, Goto, Labels, Threads,
     StrandOnly, Sockets, Vecs, local, peer
<1>10. ASSUME ClearSnapshot(t) PROVE IInv'
  BY <1>10 DEF IInv, TypeOK, LocalsOK, ClearSnapshot, At, Goto, Labels, Threads,
     StrandOnly, Sockets, Vecs, local, peer, LinksIn, Members
<1>11. ASSUME ClearRemove(t) PROVE IInv'
  BY <1>11 DEF IInv, TypeOK, LocalsOK, ClearRemove, At, Goto, Labels, Threads,
     StrandOnly, Sockets, Vecs, local, peer, LinksIn, Members
<1>12. ASSUME ClearClose(t) PROVE IInv'
  BY <1>12 DEF IInv, TypeOK, LocalsOK, ClearClose, At, Goto, Labels, Threads,
     StrandOnly, Sockets, Vecs, local, peer
<1>13. ASSUME ClearRest(t) PROVE IInv'
  <2>1. OthersOK'
    BY <1>13 DEF IInv, TypeOK, OthersOK, LocalsOK, ClearRest, At, Goto, Return, Labels,
       Threads, peer
  <2>2. LocalsOK'
    BY <1>13 DEF IInv, TypeOK, LocalsOK, ClearRest, At, Goto, Return, Threads,
       StrandOnly
  <2>3. SettledOK'
    BY <1>13, SettleTyped DEF IInv, TypeOK, LocalsOK, ClearRest, Phases, At, Vecs,
       Sockets
  <2> QED
    BY <2>1, <2>2, <2>3, TypeParts DEF IInv, TypeOK, SettledOK, OthersOK
<1>14. ASSUME SendbackOffline(t) PROVE IInv'
  BY <1>14 DEF IInv, TypeOK, LocalsOK, SendbackOffline, At, Goto, Labels, Threads,
     StrandOnly, Sockets, Vecs, local, peer
<1>15. ASSUME AdvertiseOffline(t) PROVE IInv'
  <2>1. OthersOK' /\ LocalsOK'
    BY <1>15, ReturnTyped DEF IInv, TypeOK, AdvertiseOffline
  <2>2. SettledOK'
    BY <1>15 DEF IInv, TypeOK, SettledOK, AdvertiseOffline
  <2> QED
    BY <2>1, <2>2, TypeParts DEF IInv, TypeOK, SettledOK, OthersOK
<1> QED
  BY <1>1, <1>2, <1>3, <1>4, <1>5, <1>6, <1>7, <1>8, <1>9, <1>10, <1>11, <1>12, <1>13, <1>14, <1>15 DEF AbortStep

LEMMA EnvironmentTyped ==
  ASSUME IInv
  PROVE  Environment => IInv'
<1>1. ASSUME NEW s \in Sockets, Accept(s) PROVE IInv'
  BY <1>1 DEF IInv, TypeOK, LocalsOK, Accept, local, peer
<1>2. ASSUME NEW s \in Sockets, Recycle(s) PROVE IInv'
  BY <1>2 DEF IInv, TypeOK, LocalsOK, Recycle, local, peer
<1>3. ASSUME NEW s \in Servers, SilentLoss(s) PROVE IInv'
  BY <1>3 DEF IInv, TypeOK, LocalsOK, SilentLoss, local, peer
<1> QED
  BY <1>1, <1>2, <1>3 DEF Environment

LEMMA InitTyped == Init => IInv
<1> SUFFICES ASSUME Init PROVE IInv
  OBVIOUS
<1>1. /\ \A t \in Threads : pc[t] = "idle" /\ who[t] = NoSocket
      /\ "strand" \in Threads /\ "timer" \in Threads
  BY DEF Init, Threads
<1>2. LocalsOK
  BY <1>1 DEF LocalsOK, StrandOnly
<1>3. SettledOK
  BY DEF Init, SettledOK, Vecs
<1>4. OthersOK
  BY DEF Init, OthersOK, Labels
<1> QED
  BY <1>2, <1>3, <1>4, TypeParts DEF IInv

LEMMA StepTyped == IInv /\ [Next]_vars => IInv'
<1> SUFFICES ASSUME IInv, [Next]_vars PROVE IInv'
  OBVIOUS
<1>1. CASE StrandStep
  BY <1>1, StrandPlainTyped, StrandReturnTyped, StrandAbortTyped DEF StrandStep
<1>2. ASSUME NEW t \in Threads, AbortStep(t) PROVE IInv'
  BY <1>2, CleanupTyped
<1>3. CASE Environment
  BY <1>3, EnvironmentTyped
<1>4. CASE UNCHANGED vars
  BY <1>4 DEF vars, local, peer, IInv, TypeOK, LocalsOK
<1> QED
  BY <1>1, <1>2, <1>3, <1>4 DEF Next

\* The registry's tables, handler locals and link numbers always have their
\* types, whatever the two threads interleave: in particular a server vector
\* never holds a client socket nor a client vector a server socket.
THEOREM Typing == Spec => []TypeOK
<1>1. Spec => []IInv
  BY InitTyped, StepTyped, PTL DEF Spec
<1>2. IInv => TypeOK
  BY DEF IInv
<1> QED
  BY <1>1, <1>2, PTL

-----------------------------------------------------------------------------
(* Client vectors: how they grow, and under which numbers.                 *)

Admitting == {"cSend", "cSending", "cInsert"}

\* Room is left for the client that passed the limit check.
RoomLeft ==
  pc["strand"] \in Admitting
    => Cardinality(sockets[cv["strand"]]) < maxSocketCount

\* Which handler steps refer to a client vector.
Unreferring ==
  \A t \in Threads :
    \/ pc[t] \in {"idle", "find", "clearFind", "sayAbort", "offline", "advertise"}
    \/ pc[t] \in {"remove", "erase", "recheck"} /\ who[t] \in Servers
    => cv[t] = NoVec

\* A client vector nobody refers to is empty.
Unreferred == \A v \in ClientVecs : v \notin Held => sockets[v] = {}

\* The client under authentication is open and in no vector, and only it is
\* in a vector before it is established.
Outside ==
  /\ pc["strand"] \in Admitting \cup {"cMark"} => phase[who["strand"]] = "opened"
  /\ \A v \in ClientVecs : \A m \in sockets[v] :
       \/ phase[m] \in {"established", "closed"}
       \/ pc["strand"] = "cDone" /\ m = who["strand"]

\* A number is left for the next client.
NumberLeft ==
  \A v \in ClientVecs : Cardinality(sockets[v]) < Cardinality(LinkNos)

\* The number chosen is nobody else's, from its choice to the insertion.
NumberFree ==
  /\ pc["strand"] = "cMark"
       => \A m \in sockets[cv["strand"]] : link[m] # newLink
  /\ pc["strand"] \in Admitting
       => \A m \in sockets[cv["strand"]] : link[m] # link[who["strand"]]

Placing == Unreferring /\ Unreferred /\ Outside /\ NumberLeft /\ NumberFree

LEMMA UnreferringStep == IInv /\ Unreferring /\ [Next]_vars => Unreferring'
<1> SUFFICES ASSUME IInv, Unreferring, [Next]_vars PROVE Unreferring'
  OBVIOUS
<1> USE DEF IInv, TypeOK, LocalsOK, Unreferring, Threads, At, Goto
<1>1. ASSUME NEW t \in Threads, NEW s \in Sockets, Abort(t, s)
      PROVE  Unreferring'
  BY <1>1 DEF Abort, Return
<1>2. CASE StrandStep
  <2>1. ASSUME NEW s \in Servers,
               ServerAuthAssign(s) \/ AcceptCommand(s) \/ AbortAllClient(s)
                 \/ \E c \in Clients : ToClient(s, c)
        PROVE  Unreferring'
    BY <2>1 DEF ServerAuthAssign, AcceptCommand, AbortAllClient, ToClient, Receives
  <2>2. CASE ServerAuthInsert \/ PushAllClients \/ AdvertiseOnline
    BY <2>2 DEF ServerAuthInsert, PushAllClients, AdvertiseOnline
  <2>3. CASE ServerAuthDone \/ SendbackOnline \/ ClientAuthDone
                 \/ MarkAllowAccept \/ ClientReached \/ Forwarded
    BY <2>3 DEF ServerAuthDone, SendbackOnline, ClientAuthDone, MarkAllowAccept,
                ClientReached, Forwarded, Return
  <2>4. ASSUME NEW c \in Clients, ClientAuthCheck(c) \/ Forward(c)
        PROVE  Unreferring'
    BY <2>4 DEF ClientAuthCheck, Forward, Receives
  <2>5. CASE ClientAuthMark \/ ClientAuthNext \/ ClientAuthAnnounce
                 \/ ClientAuthInsert
    BY <2>5 DEF ClientAuthMark, ClientAuthNext, ClientAuthAnnounce,
                ClientAuthInsert
  <2>6. CASE ClientAuthLimit \/ ClientAuthNoServer \/ ClientAuthRefused
    <3>1. who["strand"] \in Sockets /\ Abort("strand", who["strand"])
      BY <2>6 DEF ClientAuthLimit, ClientAuthNoServer, ClientAuthRefused, Sockets
    <3> QED
      BY <3>1, <1>1
  <2>7. CASE \/ \E c \in Clients : ClientAuthReject(c) \/ ForwardNowhere(c)
             \/ \E s \in Servers : AcceptCommandLost(s)
    <3>1. \E x \in Sockets : Abort("strand", x)
      BY <2>7 DEF ClientAuthReject, ForwardNowhere, AcceptCommandLost, Sockets
    <3> QED
      BY <3>1, <1>1
  <2> QED
    BY <1>2, <2>1, <2>2, <2>3, <2>4, <2>5, <2>6, <2>7 DEF StrandStep
<1>3. ASSUME NEW t \in Threads, AbortStep(t) PROVE Unreferring'
  <2>1. ASSUME NEW s \in Sockets, AbortBegin(t, s) PROVE Unreferring'
    BY <2>1, <1>1 DEF AbortBegin
  <2>2. CASE AbortFind(t) \/ AbortRemove(t) \/ AbortErase(t)
    BY <2>2 DEF AbortFind, AbortRemove, AbortErase, Return, IsServer
  <2>3. CASE AbortRecheck(t)
    BY <2>3 DEF AbortRecheck, Return, IsServer
  <2>4. CASE SayAbort(t) \/ Saying(t)
    BY <2>4 DEF SayAbort, Saying, Return
  <2>5. CASE ClearNothing(t)
    <3>1. CASE phase[who[t]] = "closed"
      BY <2>5, <3>1 DEF ClearNothing
    <3>2. CASE phase[who[t]] # "closed"
      BY <2>5, <3>2, <1>1 DEF ClearNothing
    <3> QED
      BY <3>1, <3>2
  <2>6. CASE ClearFind(t) \/ ClearSnapshot(t) \/ ClearRemove(t) \/ ClearClose(t)
    BY <2>6 DEF ClearFind, ClearSnapshot, ClearRemove, ClearClose
  <2>7. CASE ClearRest(t)
    BY <2>7 DEF ClearRest, Return
  <2>8. CASE SendbackOffline(t) \/ AdvertiseOffline(t)
    BY <2>8 DEF SendbackOffline, AdvertiseOffline, Return
  <2> QED
    BY <1>3, <2>1, <2>2, <2>3, <2>4, <2>5, <2>6, <2>7, <2>8 DEF AbortStep
<1>4. CASE Environment
  BY <1>4 DEF Environment, Accept, Recycle, SilentLoss, local
<1>5. CASE UNCHANGED vars
  BY <1>5 DEF vars, local
<1> QED
  BY <1>2, <1>3, <1>4, <1>5 DEF Next

LEMMA SettleFrame ==
  ASSUME NEW t, NEW skts, NEW allow, NEW ph, NEW rem, NEW ann,
         Settle(t, skts, allow, ph, rem, ann)
  PROVE  /\ \A v \in Vecs : /\ sockets'[v] = {} \/ sockets'[v] = skts[v]
                            /\ v \in Held \ Held' => sockets'[v] = {}
         /\ \A s \in Sockets :
              \/ phase'[s] = ph[s]
              \/ phase'[s] = "closed" /\ FreeFor(t, s)
<1> DEFINE dead == Vecs \cap (Held \ Held')
           victims == UNION {skts[v] : v \in dead}
<1>1. /\ \A s \in victims : FreeFor(t, s)
      /\ sockets' = [v \in Vecs |-> IF v \in dead THEN {} ELSE skts[v]]
      /\ phase' = [s \in Sockets |-> IF s \in victims THEN "closed" ELSE ph[s]]
  BY Zenon DEF Settle
<1>2. \A v \in Vecs : v \in Held \ Held' => v \in dead
  OBVIOUS
<1> HIDE DEF dead, victims
<1> QED
  BY <1>1, <1>2

\* What every step but three does to the client vectors and to the client
\* under authentication.
ClientFrame ==
  /\ \A v \in ClientVecs :
       /\ sockets'[v] \subseteq sockets[v]
       /\ v \in Held \ Held' => sockets'[v] = {}
       /\ \A m \in sockets'[v] :
            /\ link'[m] = link[m]
            /\ \/ phase'[m] = phase[m] \/ phase[m] = "none"
               \/ phase'[m] \in {"established", "closed"}
  /\ pc'["strand"] \in Admitting \cup {"cMark"} =>
       /\ pc["strand"] \in Admitting \cup {"cMark"}
       /\ pc'["strand"] = "cMark" <=> pc["strand"] = "cMark"
       /\ cv'["strand"] = cv["strand"] /\ who'["strand"] = who["strand"]
       /\ newLink' = newLink /\ maxSocketCount' = maxSocketCount
       /\ \/ phase'[who["strand"]] = phase[who["strand"]]
          \/ phase[who["strand"]] = "none"
       /\ link'[who["strand"]] = link[who["strand"]]
  /\ pc["strand"] = "cDone" =>
       \/ pc'["strand"] = "cDone" /\ who'["strand"] = who["strand"]
       \/ phase'[who["strand"]] \in {"established", "closed"}

LEMMA HeldClient ==
  ASSUME TypeOK, NEW v \in ClientVecs, v \in Held \ Held'
  PROVE  \/ clientTable = v /\ clientTable' # v
         \/ \E t \in Threads : cv[t] = v /\ cv'[t] # v
  BY HubAssumption DEF TypeOK, Held, Vecs

LEMMA AbortFrame ==
  ASSUME IInv, NEW t \in Threads, NEW s \in Sockets, Abort(t, s), FreeFor(t, s),
         t = "strand" => pc["strand"] # "cDone"
  PROVE  ClientFrame
<1>1. /\ \A v \in Vecs : /\ sockets'[v] = {} \/ sockets'[v] = sockets[v]
                         /\ v \in Held \ Held' => sockets'[v] = {}
      /\ \A x \in Sockets :
           \/ phase'[x] = [phase EXCEPT ![s] = "closed"][x]
           \/ phase'[x] = "closed" /\ FreeFor(t, x)
  <2> DEFINE ph == [phase EXCEPT ![s] = "closed"]
  <2>1. Settle(t, sockets, allowAccept, ph, remote, announced)
    BY DEF Abort
  <2> HIDE DEF ph
  <2>2. /\ \A v \in Vecs : /\ sockets'[v] = {} \/ sockets'[v] = sockets[v]
                           /\ v \in Held \ Held' => sockets'[v] = {}
        /\ \A x \in Sockets : \/ phase'[x] = ph[x]
                              \/ phase'[x] = "closed" /\ FreeFor(t, x)
    BY <2>1, SettleFrame
  <2> QED
    BY <2>2 DEF ph
<1>2. link' = link /\ maxSocketCount' = maxSocketCount
  BY DEF Abort
<1>3. \A v \in ClientVecs :
        /\ sockets'[v] \subseteq sockets[v]
        /\ v \in Held \ Held' => sockets'[v] = {}
        /\ \A m \in sockets'[v] :
             /\ link'[m] = link[m]
             /\ \/ phase'[m] = phase[m] \/ phase[m] = "none"
               \/ phase'[m] \in {"established", "closed"}
  <2>1. \A v \in ClientVecs : v \in Vecs /\ sockets[v] \subseteq Sockets
    BY DEF IInv, TypeOK, Vecs
  <2>2. \A x \in Sockets : phase'[x] = phase[x] \/ phase'[x] = "closed"
    BY <1>1 DEF IInv, TypeOK
  <2> QED
    BY <1>1, <1>2, <2>1, <2>2
<1>4. CASE t = "strand"
  <2>1. pc'["strand"] \in {"idle", "find"}
    BY <1>4 DEF Abort, Return, Goto, IInv, TypeOK, Threads
  <2> QED
    BY <1>3, <1>4, <2>1 DEF ClientFrame, Admitting
<1>5. CASE t = "timer"
  <2>1. /\ pc'["strand"] = pc["strand"] /\ cv'["strand"] = cv["strand"]
        /\ who'["strand"] = who["strand"] /\ newLink' = newLink
    BY <1>5 DEF Abort, Return, Goto, IInv, TypeOK, Threads
  <2>2. who["strand"] \in Sockets => phase'[who["strand"]] = phase[who["strand"]]
    BY <1>1, <1>5 DEF FreeFor, Threads, IInv, TypeOK
  <2>3. pc["strand"] \in Admitting \cup {"cMark", "cDone"}
          => who["strand"] \in Sockets
    BY DEF IInv, LocalsOK, Admitting, Sockets
  <2> QED
    BY <1>2, <1>3, <2>1, <2>2, <2>3 DEF ClientFrame, Admitting
<1> QED
  BY <1>4, <1>5 DEF Threads

\* A step of thread t that settles, given what it hands to Settle.
LEMMA SettleStepFrame ==
  ASSUME IInv, NEW t \in Threads, NEW skts, NEW allow, NEW ph, NEW rem, NEW ann,
         Settle(t, skts, allow, ph, rem, ann),
         \A v \in ClientVecs : skts[v] \subseteq sockets[v],
         \A x \in Sockets : \/ ph[x] = phase[x]
                            \/ ph[x] = "established" /\ t = "strand"
                            \/ ph[x] = "closed" /\ FreeFor(t, x),
         link' = link, newLink' = newLink, maxSocketCount' = maxSocketCount,
         t = "strand" => /\ pc'["strand"] \notin Admitting \cup {"cMark"}
                         /\ pc["strand"] = "cDone"
                              => ph[who["strand"]] = "established",
         t = "timer" => /\ pc'["strand"] = pc["strand"]
                        /\ cv'["strand"] = cv["strand"]
                        /\ who'["strand"] = who["strand"]
  PROVE  ClientFrame
<1>1. /\ \A v \in Vecs : /\ sockets'[v] = {} \/ sockets'[v] = skts[v]
                         /\ v \in Held \ Held' => sockets'[v] = {}
      /\ \A x \in Sockets :
           \/ phase'[x] = ph[x]
           \/ phase'[x] = "closed" /\ FreeFor(t, x)
  BY SettleFrame
<1>3. \A v \in ClientVecs :
        /\ sockets'[v] \subseteq sockets[v]
        /\ v \in Held \ Held' => sockets'[v] = {}
        /\ \A m \in sockets'[v] :
             /\ link'[m] = link[m]
             /\ \/ phase'[m] = phase[m] \/ phase[m] = "none"
               \/ phase'[m] \in {"established", "closed"}
  <2>1. \A v \in ClientVecs : v \in Vecs /\ sockets[v] \subseteq Sockets
    BY DEF IInv, TypeOK, Vecs
  <2> QED
    BY <1>1, <2>1
<1>2. pc["strand"] \in Admitting \cup {"cMark", "cDone"}
        => who["strand"] \in Sockets
  BY DEF IInv, LocalsOK, Admitting, Sockets
<1>4. CASE t = "strand"
  BY <1>1, <1>2, <1>3, <1>4 DEF ClientFrame, Admitting
<1>5. CASE t = "timer"
  <2>1. who["strand"] \in Sockets => phase'[who["strand"]] = phase[who["strand"]]
    BY <1>1, <1>5 DEF FreeFor, Threads
  <2> QED
    BY <1>2, <1>3, <1>5, <2>1 DEF ClientFrame, Admitting
<1> QED
  BY <1>4, <1>5 DEF Threads

LEMMA StrandFrame ==
  ASSUME IInv, Unreferring, StrandStep
  PROVE  ClientFrame \/ ClientAuthMark \/ ClientAuthInsert
           \/ \E c \in Clients : ClientAuthCheck(c)
<1> USE DEF IInv, TypeOK, LocalsOK, Threads, At, Goto
<1>1. ASSUME NEW s \in Servers, ServerAuthAssign(s) PROVE ClientFrame
  BY <1>1, HubAssumption
  DEF ServerAuthAssign, ClientFrame, Admitting, Held, FindOrNew, Vecs, Sockets
<1>2. ASSUME NEW s \in Servers,
             AcceptCommand(s) \/ AbortAllClient(s)
               \/ \E c \in Clients : ToClient(s, c)
      PROVE  ClientFrame
  BY <1>2, HeldClient, HubAssumption
  DEF AcceptCommand, AbortAllClient, ToClient, Receives, ClientFrame,
      Admitting, Unreferring, Vecs
<1>3. CASE ServerAuthInsert
  BY <1>3, HubAssumption
  DEF ServerAuthInsert, ClientFrame, Admitting, Held, Vecs, Sockets
<1>4. CASE PushAllClients \/ AdvertiseOnline
  BY <1>4 DEF PushAllClients, AdvertiseOnline, ClientFrame, Admitting, Held
<1>5. CASE ServerAuthDone \/ SendbackOnline \/ ClientAuthDone
             \/ MarkAllowAccept \/ ClientReached \/ Forwarded
  <2>1. pc'["strand"] = "idle"
    BY <1>5 DEF ServerAuthDone, SendbackOnline, ClientAuthDone, MarkAllowAccept,
                ClientReached, Forwarded, Return
  <2>2. CASE ServerAuthDone
    <3> DEFINE ph == [phase EXCEPT ![who["strand"]] = "established"]
    <3>1. Settle("strand", sockets, allowAccept, ph,
                 remote \cup {who["strand"]}, announced)
      BY <2>2 DEF ServerAuthDone
    <3>2. \A x \in Sockets : ph[x] = phase[x] \/ ph[x] = "established"
      OBVIOUS
    <3> HIDE DEF ph
    <3> QED
      BY <2>1, <2>2, <3>1, <3>2, SettleStepFrame DEF ServerAuthDone, Admitting
  <2>3. CASE SendbackOnline \/ MarkAllowAccept \/ Forwarded
    BY <2>1, <2>3, SettleStepFrame
    DEF SendbackOnline, MarkAllowAccept, Forwarded, Admitting, peer
  <2>4. CASE ClientAuthDone
    <3> DEFINE ph == [phase EXCEPT ![who["strand"]] = "established"]
    <3>1. Settle("strand", sockets, allowAccept, ph, remote, announced)
      BY <2>4 DEF ClientAuthDone
    <3>2. /\ \A x \in Sockets : ph[x] = phase[x] \/ ph[x] = "established"
          /\ ph[who["strand"]] = "established"
      BY <2>4 DEF ClientAuthDone, Sockets
    <3> HIDE DEF ph
    <3> QED
      BY <2>1, <2>4, <3>1, <3>2, SettleStepFrame DEF ClientAuthDone, Admitting
  <2>5. CASE ClientReached
    <3> DEFINE c == target["strand"]
               kicked == IF At("strand", "kick") THEN "closed" ELSE phase[c]
               ph == [phase EXCEPT ![c] = kicked]
    <3>1. Settle("strand", sockets, allowAccept, ph, remote, announced)
      BY <2>5, Zenon DEF ClientReached
    <3>2. FreeFor("strand", c)
      BY <2>5 DEF ClientReached
    <3>3. \A x \in Sockets : \/ ph[x] = phase[x]
                             \/ ph[x] = "closed" /\ FreeFor("strand", x)
      <4>1. kicked = "closed" \/ kicked = phase[c]
        OBVIOUS
      <4>2. DOMAIN phase = Sockets
        OBVIOUS
      <4> HIDE DEF kicked
      <4>3. \A x \in Sockets : ph[x] = phase[x] \/ (x = c /\ ph[x] = kicked)
        BY <4>2
      <4> HIDE DEF ph
      <4> QED
        BY <3>2, <4>1, <4>3
    <3> HIDE DEF ph
    <3> QED
      BY <2>1, <2>5, <3>1, <3>3, SettleStepFrame DEF ClientReached, Admitting
  <2> QED
    BY <1>5, <2>2, <2>3, <2>4, <2>5
<1>6. ASSUME NEW c \in Clients, Forward(c) PROVE ClientFrame
  BY <1>6, HeldClient DEF Forward, Receives, ClientFrame, Admitting
<1>7. CASE ClientAuthNext \/ ClientAuthAnnounce
  BY <1>7 DEF ClientAuthNext, ClientAuthAnnounce, ClientFrame, Admitting, Held
<1>8. CASE \/ ClientAuthLimit \/ ClientAuthNoServer \/ ClientAuthRefused
           \/ \E c \in Clients : ClientAuthReject(c) \/ ForwardNowhere(c)
           \/ \E s \in Servers : AcceptCommandLost(s)
  <2>1. \E x \in Sockets : Abort("strand", x) /\ FreeFor("strand", x)
    BY <1>8, HubAssumption
    DEF ClientAuthLimit, ClientAuthNoServer, ClientAuthRefused, FreeFor,
        ClientAuthReject, ForwardNowhere, AcceptCommandLost, Sockets
  <2>2. pc["strand"] # "cDone"
    BY <1>8 DEF ClientAuthLimit, ClientAuthNoServer, ClientAuthRefused,
                ClientAuthReject, ForwardNowhere, AcceptCommandLost
  <2> QED
    BY <2>1, <2>2, AbortFrame
<1> QED
  BY <1>1, <1>2, <1>3, <1>4, <1>5, <1>6, <1>7, <1>8 DEF StrandStep

LEMMA CleanupFrame ==
  ASSUME IInv, Unreferring, NEW t \in Threads, AbortStep(t)
  PROVE  ClientFrame
<1> USE DEF IInv, TypeOK, LocalsOK, Threads, At, Goto
<1>1. ASSUME NEW s \in Sockets, AbortBegin(t, s) PROVE ClientFrame
  BY <1>1, AbortFrame DEF AbortBegin
<1>2. CASE AbortFind(t)
  BY <1>2, HeldClient, HubAssumption
  DEF AbortFind, Return, IsServer, ClientFrame, Admitting, Unreferring, Vecs
<1>3. CASE AbortRemove(t)
  <2> DEFINE kept == {m \in sockets[Mine(t)] : link[m] # link[who[t]]}
             skts == [sockets EXCEPT ![Mine(t)] = kept]
  <2>1. Settle(t, skts, allowAccept, phase, remote, announced)
    BY <1>3, Zenon DEF AbortRemove
  <2>2. \A v \in ClientVecs : skts[v] \subseteq sockets[v]
    BY DEF Vecs
  <2> HIDE DEF skts
  <2> QED
    BY <1>3, <2>1, <2>2, SettleStepFrame DEF AbortRemove, Return, Admitting
<1>4. CASE AbortErase(t)
  BY <1>4, SettleStepFrame DEF AbortErase, Admitting
<1>5. CASE AbortRecheck(t)
  BY <1>5, SettleStepFrame DEF AbortRecheck, Return, Admitting
<1>6. CASE SayAbort(t)
  BY <1>6, HeldClient DEF SayAbort, Return, ClientFrame, Admitting, Unreferring
<1>7. CASE Saying(t)
  BY <1>7, SettleStepFrame DEF Saying, Return, Admitting
<1>8. CASE ClearNothing(t)
  <2>1. CASE phase[who[t]] = "closed"
    BY <1>8, <2>1 DEF ClearNothing, ClientFrame, Admitting, Held
  <2>2. CASE phase[who[t]] # "closed"
    <3>1. /\ who[t] \in Sockets /\ Abort(t, who[t])
          /\ t = "strand" => pc["strand"] # "cDone"
      BY <1>8, <2>2 DEF ClearNothing
    <3>2. FreeFor(t, who[t])
      BY <3>1, HubAssumption DEF FreeFor
    <3> QED
      BY <3>1, <3>2, AbortFrame
  <2> QED
    BY <2>1, <2>2
<1>9. CASE ClearFind(t)
  BY <1>9, HeldClient, HubAssumption
  DEF ClearFind, ClientFrame, Admitting, Unreferring, Vecs
<1>10. CASE ClearSnapshot(t)
  BY <1>10 DEF ClearSnapshot, ClientFrame, Admitting, Held
<1>11. CASE ClearRemove(t)
  BY <1>11 DEF ClearRemove, ClientFrame, Admitting, Held, Vecs
<1>12. CASE ClearClose(t)
  BY <1>12, HubAssumption
  DEF ClearClose, ClientFrame, Admitting, Held, FreeFor, Sockets
<1>13. CASE ClearRest(t)
  <2> DEFINE skts == [sockets EXCEPT ![cv[t]] = {}]
             allow == [allowAccept EXCEPT ![cv[t]] = FALSE]
  <2>1. Settle(t, skts, allow, phase, remote, announced)
    BY <1>13 DEF ClearRest
  <2>2. \A v \in ClientVecs : skts[v] \subseteq sockets[v]
    BY DEF Vecs
  <2> HIDE DEF skts, allow
  <2> QED
    BY <1>13, <2>1, <2>2, SettleStepFrame DEF ClearRest, Return, Admitting
<1>14. CASE SendbackOffline(t)
  BY <1>14 DEF SendbackOffline, ClientFrame, Admitting, Held
<1>15. CASE AdvertiseOffline(t)
  BY <1>15, HeldClient DEF AdvertiseOffline, Return, ClientFrame, Admitting,
                           Unreferring
<1> QED
  BY <1>1, <1>2, <1>3, <1>4, <1>5, <1>6, <1>7, <1>8, <1>9, <1>10, <1>11, <1>12,
     <1>13, <1>14, <1>15 DEF AbortStep

LEMMA EnvironmentFrame ==
  ASSUME IInv, Environment \/ UNCHANGED vars
  PROVE  ClientFrame
<1> USE DEF IInv, TypeOK, LocalsOK, ClientFrame, Admitting, Held, local, Vecs, Sockets
<1>1. CASE \E s \in Sockets : Accept(s)
  BY <1>1 DEF Accept
<1>2. CASE \E s \in Sockets : Recycle(s)
  BY <1>2 DEF Recycle, Threads
<1>3. CASE \E s \in Servers : SilentLoss(s)
  BY <1>3 DEF SilentLoss
<1>4. CASE UNCHANGED vars
  BY <1>4 DEF vars
<1> QED
  BY <1>1, <1>2, <1>3, <1>4 DEF Environment

LEMMA StepFrame ==
  ASSUME IInv, Unreferring, [Next]_vars
  PROVE  ClientFrame \/ ClientAuthMark \/ ClientAuthInsert
           \/ \E c \in Clients : ClientAuthCheck(c)
  BY StrandFrame, CleanupFrame, EnvironmentFrame DEF Next

LEMMA ClientVecsFinite ==
  ASSUME TypeOK, NEW v \in ClientVecs
  PROVE  IsFiniteSet(sockets[v]) /\ Cardinality(sockets[v]) \in Nat
  BY HubAssumption, FS_Subset, FS_CardinalityType DEF TypeOK

LEMMA InsertedOne ==
  ASSUME TypeOK, NEW v \in ClientVecs, NEW s
  PROVE  Cardinality(Inserted(v, s)) <= Cardinality(sockets[v]) + 1
<1> DEFINE kept == {m \in sockets[v] : link[m] # link[s]}
<1>1. IsFiniteSet(sockets[v]) /\ Cardinality(sockets[v]) \in Nat
  BY ClientVecsFinite
<1>2. kept \in SUBSET sockets[v]
  OBVIOUS
<1> HIDE DEF kept
<1>3. IsFiniteSet(kept) /\ Cardinality(kept) <= Cardinality(sockets[v])
  BY <1>1, <1>2, FS_Subset
<1>4. Cardinality(kept) \in Nat
  BY <1>3, FS_CardinalityType
<1>5. Cardinality(kept \cup {s}) <= Cardinality(kept) + 1
  <2>1. Cardinality(kept \cup {s})
          = IF s \in kept THEN Cardinality(kept) ELSE Cardinality(kept) + 1
    BY <1>3, FS_AddElement
  <2> QED
    BY <1>4, <2>1
<1>6. Inserted(v, s) = kept \cup {s}
  BY DEF Inserted, kept
<1>7. Cardinality(kept \cup {s}) \in Nat
  BY <1>3, FS_AddElement, FS_CardinalityType
<1> QED
  BY <1>1, <1>3, <1>4, <1>5, <1>6, <1>7

LEMMA RoomStep ==
  ASSUME IInv, Unreferring, RoomLeft, [Next]_vars
  PROVE  RoomLeft'
<1> USE DEF RoomLeft, Admitting
<1>1. CASE ClientFrame
  <2> SUFFICES ASSUME pc'["strand"] \in Admitting
               PROVE  Cardinality(sockets'[cv'["strand"]]) < maxSocketCount'
    OBVIOUS
  <2> DEFINE v == cv["strand"]
  <2>1. /\ pc["strand"] \in Admitting
        /\ cv'["strand"] = v /\ maxSocketCount' = maxSocketCount
    BY <1>1 DEF ClientFrame
  <2>2. v \in ClientVecs
    BY <2>1 DEF IInv, LocalsOK
  <2>3. sockets'[v] \in SUBSET sockets[v]
    BY <1>1, <2>2 DEF ClientFrame
  <2>4. IsFiniteSet(sockets[v]) /\ Cardinality(sockets[v]) \in Nat
    BY <2>2, ClientVecsFinite DEF IInv
  <2>5. /\ Cardinality(sockets'[v]) <= Cardinality(sockets[v])
        /\ Cardinality(sockets'[v]) \in Nat
    BY <2>3, <2>4, FS_Subset, FS_CardinalityType
  <2>6. Cardinality(sockets[v]) < maxSocketCount
    BY <2>1
  <2>7. maxSocketCount \in Nat
    BY HubAssumption DEF IInv, TypeOK
  <2> QED
    BY <2>1, <2>4, <2>5, <2>6, <2>7
<1>2. CASE ClientAuthMark
  <2>1. cv["strand"] \in ClientVecs
    BY <1>2 DEF ClientAuthMark, IInv, LocalsOK, At
  <2>2. Cardinality(sockets[cv["strand"]]) \in Nat /\ maxSocketCount \in Nat
    BY <2>1, ClientVecsFinite, HubAssumption DEF IInv, TypeOK
  <2> QED
    BY <1>2, <2>2 DEF ClientAuthMark, LimitReached
<1>3. CASE ClientAuthInsert
  BY <1>3 DEF ClientAuthInsert, Goto, IInv, TypeOK, Threads
<1>4. CASE \E c \in Clients : ClientAuthCheck(c)
  BY <1>4 DEF ClientAuthCheck, Goto, IInv, TypeOK, Threads
<1> QED
  BY <1>1, <1>2, <1>3, <1>4, StepFrame

\* The limit of the inner server is respected by every insertion, although
\* only the size the vector had two critical sections earlier was compared
\* with it: nothing but the strand inserts, and the strand is busy.
THEOREM Capacity == Spec => CapacityRespected
<1> DEFINE Grown == \A v \in ClientVecs :
                      Cardinality(sockets'[v]) > Cardinality(sockets[v])
                        => Cardinality(sockets'[v]) <= maxSocketCount'
<1>1. Init => IInv /\ Unreferring /\ RoomLeft
  BY InitTyped DEF Init, Unreferring, RoomLeft, Admitting, Threads
<1>2. IInv /\ Unreferring /\ RoomLeft /\ [Next]_vars
        => (IInv /\ Unreferring /\ RoomLeft)'
  BY StepTyped, UnreferringStep, RoomStep
<1>3. IInv /\ Unreferring /\ RoomLeft /\ [Next]_vars => Grown
  <2> SUFFICES ASSUME IInv, Unreferring, RoomLeft, [Next]_vars,
                      NEW v \in ClientVecs,
                      Cardinality(sockets'[v]) > Cardinality(sockets[v])
               PROVE  Cardinality(sockets'[v]) <= maxSocketCount'
    OBVIOUS
  <2>1. IsFiniteSet(sockets[v]) /\ Cardinality(sockets[v]) \in Nat
    BY ClientVecsFinite DEF IInv
  <2>2. sockets'[v] \notin SUBSET sockets[v]
    <3> SUFFICES ASSUME sockets'[v] \in SUBSET sockets[v] PROVE FALSE
      OBVIOUS
    <3>1. /\ Cardinality(sockets'[v]) <= Cardinality(sockets[v])
          /\ Cardinality(sockets'[v]) \in Nat
      BY <2>1, FS_Subset, FS_CardinalityType
    <3> QED
      BY <2>1, <3>1
  <2>3. ClientAuthInsert
    <3>1. ~ClientFrame
      BY <2>2 DEF ClientFrame
    <3>2. ~ClientAuthMark /\ ~\E c \in Clients : ClientAuthCheck(c)
      BY <2>2 DEF ClientAuthMark, ClientAuthCheck
    <3> QED
      BY <3>1, <3>2, StepFrame
  <2>4. v = cv["strand"] /\ sockets'[v] = Inserted(v, who["strand"])
    BY <2>2, <2>3 DEF ClientAuthInsert, IInv, TypeOK, Vecs
  <2>5. Cardinality(sockets[v]) < maxSocketCount
    BY <2>3, <2>4 DEF ClientAuthInsert, At, RoomLeft, Admitting
  <2>6. maxSocketCount' = maxSocketCount /\ maxSocketCount \in Nat
    BY <2>3, HubAssumption DEF ClientAuthInsert, IInv, TypeOK
  <2>7. Cardinality(sockets'[v]) <= Cardinality(sockets[v]) + 1
    BY <2>4, InsertedOne DEF IInv
  <2>8. Cardinality(sockets'[v]) \in Nat
    <3>1. TypeOK'
      BY StepTyped DEF IInv
    <3>2. sockets'[v] \in SUBSET Clients
      BY <3>1 DEF TypeOK
    <3> QED
      BY <3>2, HubAssumption, FS_Subset, FS_CardinalityType
  <2> QED
    BY <2>1, <2>5, <2>6, <2>7, <2>8
<1>4. Spec => [](IInv /\ Unreferring /\ RoomLeft)
  BY <1>1, <1>2, PTL DEF Spec
<1> QED
  BY <1>3, <1>4, PTL DEF Spec, CapacityRespected

-----------------------------------------------------------------------------
(* The number of a client stays its own until the client is in the vector. *)

LEMMA UnreferredStep ==
  ASSUME IInv, Unreferring, Unreferred, [Next]_vars
  PROVE  Unreferred'
<1> USE DEF IInv, TypeOK, Unreferred
<1>1. CASE ClientFrame
  BY <1>1 DEF ClientFrame
<1>2. CASE ClientAuthMark
  BY <1>2 DEF ClientAuthMark, Held
<1>3. CASE ClientAuthInsert
  <2>1. Held' = Held /\ cv["strand"] \in Held
    BY <1>3 DEF ClientAuthInsert, Held, Threads
  <2> QED
    BY <1>3, <2>1 DEF ClientAuthInsert
<1>4. ASSUME NEW c \in Clients, ClientAuthCheck(c) PROVE Unreferred'
  <2> SUFFICES ASSUME NEW v \in ClientVecs, v \notin Held' PROVE sockets'[v] = {}
    OBVIOUS
  <2>1. v \notin Held
    <3> SUFFICES ASSUME v \in Held PROVE FALSE
      OBVIOUS
    <3>1. \/ clientTable = v /\ clientTable' # v
          \/ \E t \in Threads : cv[t] = v /\ cv'[t] # v
      BY HeldClient
    <3>2. clientTable = v => clientTable' = v
      BY <1>4, HubAssumption DEF ClientAuthCheck, FindOrNew, Vecs
    <3>3. \A t \in Threads : cv[t] = v => cv'[t] = v
      BY <1>4, HubAssumption
      DEF ClientAuthCheck, Unreferring, At, Threads, Vecs
    <3> QED
      BY <3>1, <3>2, <3>3
  <2> QED
    BY <1>4, <2>1 DEF ClientAuthCheck
<1> QED
  BY <1>1, <1>2, <1>3, <1>4, StepFrame

LEMMA OutsideStep ==
  ASSUME IInv, Unreferring, Outside, [Next]_vars
  PROVE  Outside'
<1> USE DEF IInv, TypeOK, Outside, Admitting
<1>1. CASE ClientFrame
  BY <1>1 DEF ClientFrame
<1>2. CASE ClientAuthMark
  BY <1>2 DEF ClientAuthMark, At, Goto, Threads
<1>3. CASE ClientAuthInsert
  BY <1>3 DEF ClientAuthInsert, At, Goto, Threads, Inserted
<1>4. ASSUME NEW c \in Clients, ClientAuthCheck(c) PROVE Outside'
  BY <1>4 DEF ClientAuthCheck, At, Goto, Threads
<1> QED
  BY <1>1, <1>2, <1>3, <1>4, StepFrame

LEMMA NumberLeftStep ==
  ASSUME \A n \in MaxFDs : n < Cardinality(LinkNos),
         IInv, Unreferring, RoomLeft, NumberLeft, [Next]_vars
  PROVE  NumberLeft'
<1> SUFFICES ASSUME NEW v \in ClientVecs
             PROVE  Cardinality(sockets'[v]) < Cardinality(LinkNos)
  BY DEF NumberLeft
<1>1. IsFiniteSet(sockets[v]) /\ Cardinality(sockets[v]) \in Nat
  BY ClientVecsFinite DEF IInv
<1>2. Cardinality(LinkNos) \in Nat /\ Cardinality(sockets[v]) < Cardinality(LinkNos)
  BY HubAssumption, FS_CardinalityType DEF NumberLeft
<1>3. IsFiniteSet(sockets'[v]) /\ Cardinality(sockets'[v]) \in Nat
  <2>1. TypeOK'
    BY StepTyped DEF IInv
  <2>2. sockets'[v] \in SUBSET Clients
    BY <2>1 DEF TypeOK
  <2> QED
    BY <2>2, HubAssumption, FS_Subset, FS_CardinalityType
<1>4. CASE sockets'[v] \in SUBSET sockets[v]
  BY <1>1, <1>2, <1>3, <1>4, FS_Subset
<1>5. CASE sockets'[v] \notin SUBSET sockets[v]
  <2>1. ClientAuthInsert
    BY <1>5, StepFrame DEF ClientFrame, ClientAuthMark, ClientAuthCheck
  <2>2. v = cv["strand"] /\ sockets'[v] = Inserted(v, who["strand"])
    BY <1>5, <2>1 DEF ClientAuthInsert, IInv, TypeOK, Vecs
  <2>3. Cardinality(sockets[v]) < maxSocketCount
    BY <2>1, <2>2 DEF ClientAuthInsert, At, RoomLeft, Admitting
  <2>4. maxSocketCount \in Nat /\ maxSocketCount < Cardinality(LinkNos)
    BY <1>1, <1>2, <2>3, HubAssumption DEF IInv, TypeOK
  <2>5. Cardinality(sockets'[v]) <= Cardinality(sockets[v]) + 1
    BY <2>2, InsertedOne DEF IInv
  <2> QED
    BY <1>1, <1>2, <1>3, <2>3, <2>4, <2>5
<1> QED
  BY <1>4, <1>5

\* Fewer members than numbers: one of them is free.
LEMMA FreeNumber ==
  ASSUME TypeOK, NEW v \in ClientVecs,
         Cardinality(sockets[v]) < Cardinality(LinkNos)
  PROVE  ~(LinkNos \subseteq LinksIn(v))
<1> SUFFICES ASSUME LinkNos \subseteq LinksIn(v) PROVE FALSE
  OBVIOUS
<1> DEFINE f == [m \in sockets[v] |-> link[m]]
<1>1. IsFiniteSet(sockets[v]) /\ Cardinality(sockets[v]) \in Nat
  BY ClientVecsFinite
<1>2. LinksIn(v) = {link[m] : m \in sockets[v]}
  BY HubAssumption DEF LinksIn, Members, Vecs
<1>3. f \in Surjection(sockets[v], LinksIn(v))
  BY <1>2 DEF Surjection
<1>4. /\ IsFiniteSet(LinksIn(v))
      /\ Cardinality(LinksIn(v)) <= Cardinality(sockets[v])
  BY <1>1, <1>3, FS_Surjection
<1>5. /\ Cardinality(LinkNos) <= Cardinality(LinksIn(v))
      /\ Cardinality(LinkNos) \in Nat /\ Cardinality(LinksIn(v)) \in Nat
  BY <1>4, FS_Subset, FS_CardinalityType
<1> QED
  BY <1>1, <1>4, <1>5

LEMMA NumberFreeStep ==
  ASSUME IInv, Unreferring, Unreferred, Outside, NumberLeft, NumberFree,
         [Next]_vars
  PROVE  NumberFree'
<1> USE DEF IInv, TypeOK, Admitting
<1>1. CASE ClientFrame
  <2>1. pc["strand"] \in Admitting \cup {"cMark"} => cv["strand"] \in ClientVecs
    BY DEF LocalsOK
  <2> QED
    BY <1>1, <2>1 DEF ClientFrame, NumberFree
<1>2. CASE ClientAuthMark
  <2>1. /\ cv["strand"] \in ClientVecs /\ who["strand"] \in Clients
        /\ phase[who["strand"]] = "opened" /\ At("strand", "cMark")
    BY <1>2 DEF ClientAuthMark, At, LocalsOK, Outside
  <2>2. who["strand"] \notin sockets[cv["strand"]]
    BY <2>1 DEF Outside, At
  <2>3. \A m \in sockets[cv["strand"]] : link[m] # newLink /\ m \in Sockets
    BY <2>1 DEF NumberFree, At, Vecs
  <2>4. /\ link' = [link EXCEPT ![who["strand"]] = newLink]
        /\ sockets' = sockets /\ cv' = cv /\ who' = who
        /\ pc'["strand"] = "cSend"
    BY <1>2 DEF ClientAuthMark, Goto, Threads
  <2>5. link'[who["strand"]] = newLink
    BY <2>1, <2>4 DEF Sockets
  <2>6. \A m \in sockets[cv["strand"]] : link'[m] = link[m]
    BY <2>2, <2>3, <2>4
  <2> QED
    BY <2>3, <2>4, <2>5, <2>6 DEF NumberFree
<1>3. CASE ClientAuthInsert
  BY <1>3 DEF ClientAuthInsert, Goto, Threads, NumberFree
<1>4. ASSUME NEW c \in Clients, ClientAuthCheck(c) PROVE NumberFree'
  <2>1. PICK v \in FindOrNew(clientTable, ClientVecs) :
          clientTable' = v /\ cv' = [cv EXCEPT !["strand"] = v]
    BY <1>4, Zenon DEF ClientAuthCheck
  <2>2. /\ newLink' \in NewLinkNo(clientTable, ClientVecs)
        /\ sockets' = sockets /\ link' = link /\ pc'["strand"] = "cMark"
    BY <1>4 DEF ClientAuthCheck, Goto, Threads
  <2>3. cv'["strand"] = v
    BY <2>1 DEF Threads
  <2>4. \A m \in sockets[v] : link[m] # newLink'
    <3>1. CASE clientTable = NoVec
      BY <2>1, <3>1 DEF FindOrNew, Unreferred
    <3>2. CASE clientTable # NoVec
      <4>1. v = clientTable /\ v \in ClientVecs
        BY <2>1, <3>2 DEF FindOrNew
      <4>2. ~(LinkNos \subseteq LinksIn(v))
        BY <4>1, FreeNumber DEF NumberLeft
      <4>3. newLink' \in LinkNos \ LinksIn(v)
        BY <2>2, <4>1, <4>2 DEF NewLinkNo
      <4> QED
        BY <3>2, <4>1, <4>3 DEF LinksIn, Members
    <3> QED
      BY <3>1, <3>2
  <2> QED
    BY <2>2, <2>3, <2>4 DEF NumberFree
<1> QED
  BY <1>1, <1>2, <1>3, <1>4, StepFrame

LEMMA PlacingInit ==
  ASSUME Init, LinkNos # {}
  PROVE  RoomLeft /\ Placing
<1>1. RoomLeft /\ Unreferring /\ Unreferred /\ NumberFree
  BY DEF Init, RoomLeft, Unreferring, Unreferred, NumberFree, Admitting, Threads,
         Vecs
<1>2. Outside
  BY DEF Init, Outside, Admitting, Threads, Vecs
<1>3. NumberLeft
  <2>1. \A v \in ClientVecs : sockets[v] = {}
    BY DEF Init, Vecs
  <2>2. Cardinality(LinkNos) \in Nat /\ Cardinality(LinkNos) # 0
    BY HubAssumption, FS_CardinalityType, FS_EmptySet
  <2> QED
    BY <2>1, <2>2, FS_EmptySet DEF NumberLeft
<1> QED
  BY <1>1, <1>2, <1>3 DEF Placing

LEMMA PlacingStep ==
  ASSUME \A n \in MaxFDs : n < Cardinality(LinkNos),
         IInv, RoomLeft, Placing, [Next]_vars
  PROVE  RoomLeft' /\ Placing'
BY RoomStep, UnreferringStep, UnreferredStep, OutsideStep, NumberLeftStep,
   NumberFreeStep DEF Placing

\* A client is never inserted under a number that another member holds, so no
\* client is displaced, as long as no inner server may ask for as many clients
\* as there are numbers: NewLinkNo reserves nothing, and its number is used
\* three critical sections after it was looked up.
THEOREM NumbersUnique ==
  ASSUME \A n \in MaxFDs : n < Cardinality(LinkNos), LinkNos # {}
  PROVE  Spec => []NothingDisplaced
<1> DEFINE Inv == IInv /\ RoomLeft /\ Placing
<1>1. Init => Inv
  BY InitTyped, PlacingInit
<1>2. Inv /\ [Next]_vars => Inv'
  BY StepTyped, PlacingStep
<1>3. Inv => NothingDisplaced
  BY DEF Placing, NumberFree, NothingDisplaced, At, Admitting
<1> QED
  BY <1>1, <1>2, <1>3, PTL DEF Spec

-----------------------------------------------------------------------------
(* Sockets that are closed stay closed.                                    *)

Authenticating == {"sInsert", "sDone", "cMark", "cSend", "cSending", "cInsert",
                   "cDone"}

\* The socket under authentication is open: its mutex keeps the timer away.
Open == pc["strand"] \in Authenticating => phase[who["strand"]] # "closed"

\* What every step does: the socket under authentication is left open and a
\* closed one is not established.
Spared ==
  /\ Open'
  /\ \A s \in Sockets : phase[s] = "closed" => phase'[s] # "established"

LEMMA SettleSpares ==
  ASSUME IInv, Open, NEW t \in Threads,
         NEW skts, NEW allow, NEW ph, NEW rem, NEW ann,
         Settle(t, skts, allow, ph, rem, ann),
         \A x \in Sockets : \/ ph[x] = phase[x]
                            \/ ph[x] = "established" /\ phase[x] # "closed"
                            \/ ph[x] = "closed" /\ FreeFor(t, x),
         t = "strand" => pc'["strand"] \notin Authenticating,
         t = "timer" => /\ pc'["strand"] = pc["strand"]
                        /\ who'["strand"] = who["strand"]
  PROVE  Spared
<1>1. \A x \in Sockets : \/ phase'[x] = ph[x]
                         \/ phase'[x] = "closed" /\ FreeFor(t, x)
  BY SettleFrame
<1>2. CASE t = "strand"
  BY <1>1, <1>2 DEF Spared, Open
<1>3. CASE t = "timer"
  <2>1. pc["strand"] \in Authenticating => who["strand"] \in Sockets
    BY DEF IInv, LocalsOK, Authenticating, Sockets
  <2>2. ~FreeFor(t, who["strand"])
    BY <1>3 DEF FreeFor, Threads
  <2> QED
    BY <1>1, <1>3, <2>1, <2>2 DEF Spared, Open
<1> QED
  BY <1>2, <1>3 DEF Threads

LEMMA AbortSpares ==
  ASSUME IInv, Open, NEW t \in Threads, NEW s \in Sockets, Abort(t, s),
         FreeFor(t, s)
  PROVE  Spared
<1> DEFINE ph == [phase EXCEPT ![s] = "closed"]
<1>1. Settle(t, sockets, allowAccept, ph, remote, announced)
  BY DEF Abort
<1>2. \A x \in Sockets : \/ ph[x] = phase[x]
                         \/ ph[x] = "closed" /\ FreeFor(t, x)
  BY DEF IInv, TypeOK
<1>3. t = "strand" => pc'["strand"] \notin Authenticating
  BY DEF Abort, Return, Goto, Authenticating, IInv, TypeOK
<1>4. t = "timer" => /\ pc'["strand"] = pc["strand"]
                     /\ who'["strand"] = who["strand"]
  BY DEF Abort, Return, Goto, IInv, TypeOK, Threads
<1> HIDE DEF ph
<1> QED
  BY <1>1, <1>2, <1>3, <1>4, SettleSpares

LEMMA StrandSpares == IInv /\ Open /\ StrandStep => Spared
<1> SUFFICES ASSUME IInv, Open, StrandStep PROVE Spared
  OBVIOUS
<1> USE DEF IInv, TypeOK, Threads, At, Goto
<1>1. ASSUME NEW s \in Servers,
             ServerAuthAssign(s) \/ AcceptCommand(s) \/ AbortAllClient(s)
               \/ \E c \in Clients : ToClient(s, c)
      PROVE  Spared
  BY <1>1 DEF ServerAuthAssign, AcceptCommand, AbortAllClient, ToClient, Receives,
     Spared, Open, Authenticating, Sockets
<1>2. ASSUME NEW c \in Clients, ClientAuthCheck(c) \/ Forward(c) PROVE Spared
  BY <1>2 DEF ClientAuthCheck, Forward, Receives, Spared, Open, Authenticating,
     Sockets
<1>3. CASE ServerAuthInsert
  BY <1>3 DEF ServerAuthInsert, Spared, Open, Authenticating, LocalsOK, Sockets
<1>4. CASE PushAllClients \/ AdvertiseOnline
  BY <1>4 DEF PushAllClients, AdvertiseOnline, Spared, Open, Authenticating
<1>5. CASE ClientAuthMark \/ ClientAuthNext \/ ClientAuthAnnounce
             \/ ClientAuthInsert
  BY <1>5 DEF ClientAuthMark, ClientAuthNext, ClientAuthAnnounce,
     ClientAuthInsert, Spared, Open, Authenticating
<1>6. CASE SendbackOnline \/ MarkAllowAccept \/ Forwarded
  <2>1. \E allow, rem :
          Settle("strand", sockets, allow, phase, rem, announced)
    BY <1>6 DEF SendbackOnline, MarkAllowAccept, Forwarded
  <2>2. pc'["strand"] \notin Authenticating
    BY <1>6 DEF SendbackOnline, MarkAllowAccept, Forwarded, Return, Authenticating
  <2> QED
    BY <2>1, <2>2, SettleSpares
<1>7. CASE ServerAuthDone \/ ClientAuthDone
  <2> DEFINE ph == [phase EXCEPT ![who["strand"]] = "established"]
  <2>1. \E rem : Settle("strand", sockets, allowAccept, ph, rem, announced)
    BY <1>7 DEF ServerAuthDone, ClientAuthDone
  <2>2. \A x \in Sockets : \/ ph[x] = phase[x]
                           \/ ph[x] = "established" /\ phase[x] # "closed"
    BY <1>7 DEF ServerAuthDone, ClientAuthDone, Open, Authenticating
  <2>3. pc'["strand"] \notin Authenticating
    BY <1>7 DEF ServerAuthDone, ClientAuthDone, Return, Authenticating
  <2> HIDE DEF ph
  <2> QED
    BY <2>1, <2>2, <2>3, SettleSpares
<1>8. CASE ClientReached
  <2> DEFINE kicked == IF pc["strand"] = "kick" THEN "closed"
                       ELSE phase[target["strand"]]
             ph == [phase EXCEPT ![target["strand"]] = kicked]
  <2>1. /\ Settle("strand", sockets, allowAccept, ph, remote, announced)
        /\ FreeFor("strand", target["strand"])
    BY <1>8 DEF ClientReached
  <2>2. \A x \in Sockets : \/ ph[x] = phase[x]
                           \/ ph[x] = "closed" /\ FreeFor("strand", x)
    BY <2>1
  <2>3. pc'["strand"] \notin Authenticating
    BY <1>8 DEF ClientReached, Return, Authenticating
  <2> HIDE DEF ph
  <2> QED
    BY <2>1, <2>2, <2>3, SettleSpares
<1>9. CASE \/ \E c \in Clients : ClientAuthReject(c) \/ ForwardNowhere(c)
           \/ \E s \in Servers : AcceptCommandLost(s)
           \/ ClientAuthLimit \/ ClientAuthNoServer \/ ClientAuthRefused
  <2>1. \E x \in Sockets : Abort("strand", x) /\ FreeFor("strand", x)
    BY <1>9, HubAssumption
    DEF ClientAuthReject, ForwardNowhere, AcceptCommandLost, ClientAuthLimit,
        ClientAuthNoServer, ClientAuthRefused, LocalsOK, FreeFor, Sockets
  <2> QED
    BY <2>1, AbortSpares
<1> QED
  BY <1>1, <1>2, <1>3, <1>4, <1>5, <1>6, <1>7, <1>8, <1>9 DEF StrandStep

LEMMA CleanupSpares ==
  ASSUME IInv, Open, NEW t \in Threads, AbortStep(t)
  PROVE  Spared
<1> USE DEF IInv, TypeOK, Threads, At, Goto
<1>1. ASSUME NEW s \in Sockets, AbortBegin(t, s) PROVE Spared
  BY <1>1, AbortSpares DEF AbortBegin
<1>2. CASE AbortFind(t) \/ SayAbort(t) \/ AdvertiseOffline(t)
  BY <1>2 DEF AbortFind, SayAbort, AdvertiseOffline, Return, Spared, Open,
     Authenticating
<1>3. CASE ClearFind(t) \/ ClearSnapshot(t) \/ ClearRemove(t)
             \/ SendbackOffline(t)
  BY <1>3 DEF ClearFind, ClearSnapshot, ClearRemove, SendbackOffline, Spared,
     Open, Authenticating
<1>4. CASE \/ AbortRemove(t) \/ AbortErase(t) \/ AbortRecheck(t) \/ Saying(t)
           \/ ClearRest(t)
  <2>1. \E skts, allow, ann : Settle(t, skts, allow, phase, remote, ann)
    BY <1>4 DEF AbortRemove, AbortErase, AbortRecheck, Saying, ClearRest
  <2>2. t = "strand" => pc'["strand"] \notin Authenticating
    BY <1>4 DEF AbortRemove, AbortErase, AbortRecheck, Saying, ClearRest, Return,
       Authenticating
  <2>3. t = "timer" => /\ pc'["strand"] = pc["strand"]
                       /\ who'["strand"] = who["strand"]
    BY <1>4 DEF AbortRemove, AbortErase, AbortRecheck, Saying, ClearRest, Return
  <2> QED
    BY <2>1, <2>2, <2>3, SettleSpares
<1>5. CASE ClearClose(t)
  BY <1>5 DEF ClearClose, FreeFor, Spared, Open, Authenticating, LocalsOK, Sockets
<1>6. CASE ClearNothing(t)
  <2>1. CASE phase[who[t]] = "closed"
    BY <1>6, <2>1 DEF ClearNothing, Spared, Open, Authenticating
  <2>2. CASE phase[who[t]] # "closed"
    <3>1. who[t] \in Sockets /\ Abort(t, who[t]) /\ FreeFor(t, who[t])
      BY <1>6, <2>2, HubAssumption DEF ClearNothing, LocalsOK, FreeFor, Sockets
    <3> QED
      BY <3>1, AbortSpares
  <2> QED
    BY <2>1, <2>2
<1> QED
  BY <1>1, <1>2, <1>3, <1>4, <1>5, <1>6 DEF AbortStep

LEMMA StepSpares == IInv /\ Open /\ [Next]_vars => Spared
<1> SUFFICES ASSUME IInv, Open, [Next]_vars PROVE Spared
  OBVIOUS
<1>1. CASE Environment
  BY <1>1 DEF Environment, Accept, Recycle, SilentLoss, local, IInv, TypeOK,
     LocalsOK, Spared, Open, Authenticating, Sockets, Threads
<1>2. CASE UNCHANGED vars
  BY <1>2 DEF vars, local, Spared, Open
<1> QED
  BY <1>1, <1>2, StrandSpares, CleanupSpares DEF Next

\* A socket that the timer disposed is never marked established afterwards:
\* whoever closes a socket has its mutex, which its authentication keeps from
\* the first check until CompletelyAuthentication.
THEOREM ClosedForGood == Spec => NoResurrection
<1>1. Init => IInv /\ Open
  BY InitTyped DEF Init, Open, Authenticating, Threads
<1>2. IInv /\ Open /\ [Next]_vars => (IInv /\ Open)'
  BY StepTyped, StepSpares DEF Spared
<1>3. IInv /\ Open /\ [Next]_vars
        => [\A s \in Sockets :
              phase[s] = "closed" => phase'[s] # "established"]_vars
  BY StepSpares DEF Spared
<1> QED
  BY <1>1, <1>2, <1>3, PTL DEF Spec, NoResurrection

-----------------------------------------------------------------------------
(* The server table and the established channels.                          *)

\* Thread t, at label p with socket w locked, is registering an inner server
\* or removing one.
Acting(p, w) == \/ p \in {"sInsert", "sDone"}
                \/ p \in {"find", "remove"} /\ w \in Servers

\* A member has a number, and is established or closed, or about to be
\* established by the strand.
MemberNamed(ph, lk, sk, pcs, ws) ==
  \A v \in ServerVecs : \A m \in sk[v] :
    /\ lk[m] # NoLink
    /\ \/ ph[m] \in {"established", "closed"}
       \/ ph[m] = "opened" /\ pcs["strand"] = "sDone" /\ ws["strand"] = m

\* No two members of the server vectors have the same number, not even of
\* different vectors, and no socket is in two of them.
MembersApart(lk, sk) ==
  \A u, v \in ServerVecs : \A m \in sk[u], n \in sk[v] :
    lk[m] = lk[n] => u = v /\ m = n

\* An inner server with a number is in a vector from its registration on, and
\* an established one is in a vector.
ServerKnown(ph, lk, sk, pcs, ws) ==
  \A s \in Servers :
    /\ ph[s] = "none" => lk[s] = NoLink
    /\ ph[s] = "opened" /\ lk[s] # NoLink
         => ws["strand"] = s /\ pcs["strand"] \in {"sInsert", "sDone"}
    /\ ph[s] = "established" => \E v \in ServerVecs : s \in sk[v]

\* The inner server being registered.
Registering(ph, lk, sk, pcs, ws, vs) ==
  /\ pcs["strand"] = "sInsert" =>
       /\ ph[ws["strand"]] = "opened" /\ lk[ws["strand"]] # NoLink
       /\ \A v \in ServerVecs : \A m \in sk[v] : lk[m] # lk[ws["strand"]]
  /\ pcs["strand"] = "sDone" =>
       /\ ph[ws["strand"]] = "opened"
       /\ ws["strand"] \in sk[vs["strand"]]

\* The inner servers being removed.
Removing(ph, sk, pcs, ws) ==
  \A t \in Threads : pcs[t] \in {"find", "remove"} /\ ws[t] \in Servers =>
    /\ ph[ws[t]] = "closed"
    /\ \E v \in ServerVecs : ws[t] \in sk[v]

\* A closed socket in the vector of the table is about to be removed from it.
ClosedLeaves(ph, sk, tb, pcs, ws, vs) ==
  tb # NoVec => \A m \in sk[tb] : ph[m] = "closed" =>
    \E t \in Threads : /\ ws[t] = m /\ pcs[t] \in {"find", "remove"}
                       /\ pcs[t] = "remove" => vs[t] = tb

Hosted(ph, lk, sk, tb, pcs, ws, vs) ==
  /\ MemberNamed(ph, lk, sk, pcs, ws)
  /\ MembersApart(lk, sk)
  /\ ServerKnown(ph, lk, sk, pcs, ws)
  /\ Registering(ph, lk, sk, pcs, ws, vs)
  /\ Removing(ph, sk, pcs, ws)
  /\ ClosedLeaves(ph, sk, tb, pcs, ws, vs)

\* Which handler steps refer to a server vector.
ServerUnreferring ==
  \A t \in Threads :
    \/ pc[t] \in {"idle", "find", "clearFind", "sayAbort", "offline", "advertise",
                  "snapshot", "closing", "closeOne", "kick", "down"}
    \/ pc[t] \in {"remove", "erase", "recheck"} /\ who[t] \in Clients
    => sv[t] = NoVec

\* A server vector nobody refers to is empty.
ServerUnreferred == \A v \in ServerVecs : v \notin Held => sockets[v] = {}

TableInv ==
  /\ ServerUnreferring
  /\ ServerUnreferred
  /\ Hosted(phase, link, sockets, serverTable, pc, who, sv)

\* A step that leaves the inner servers and their vectors alone, and the
\* threads that register or remove one, keeps Hosted.
LEMMA HostedKept ==
  ASSUME NEW ph, NEW lk, NEW sk, NEW tb, NEW pcs, NEW ws, NEW vs,
         NEW ph2, NEW lk2, NEW sk2, NEW pcs2, NEW ws2, NEW vs2,
         Hosted(ph, lk, sk, tb, pcs, ws, vs),
         \A v \in ServerVecs : sk[v] \subseteq Servers /\ sk2[v] = sk[v],
         tb \in ServerVecs \cup {NoVec},
         \A s \in Servers : ph2[s] = ph[s] /\ lk2[s] = lk[s],
         pcs["strand"] \in {"sInsert", "sDone"} => ws["strand"] \in Servers,
         pcs["strand"] = "sDone" => vs["strand"] \in ServerVecs,
         \A t \in Threads : \/ pcs2[t] = pcs[t] /\ ws2[t] = ws[t] /\ vs2[t] = vs[t]
                            \/ ~Acting(pcs[t], ws[t]) /\ ~Acting(pcs2[t], ws2[t])
  PROVE  Hosted(ph2, lk2, sk2, tb, pcs2, ws2, vs2)
<1> USE DEF Hosted, Acting, Threads
<1>1. MemberNamed(ph2, lk2, sk2, pcs2, ws2)
  BY DEF MemberNamed
<1>2. MembersApart(lk2, sk2)
  BY DEF MembersApart
<1>3. ServerKnown(ph2, lk2, sk2, pcs2, ws2)
  BY DEF ServerKnown
<1>4. Registering(ph2, lk2, sk2, pcs2, ws2, vs2)
  <2>1. CASE pcs2["strand"] \in {"sInsert", "sDone"}
    <3>1. /\ pcs2["strand"] = pcs["strand"] /\ ws2["strand"] = ws["strand"]
          /\ vs2["strand"] = vs["strand"]
      BY <2>1
    <3>2. ws["strand"] \in Servers
      BY <2>1, <3>1
    <3> QED
      BY <3>1, <3>2 DEF Registering
  <2>2. CASE pcs2["strand"] \notin {"sInsert", "sDone"}
    BY <2>2 DEF Registering
  <2> QED
    BY <2>1, <2>2
<1>5. Removing(ph2, sk2, pcs2, ws2)
  BY DEF Removing
<1>6. ClosedLeaves(ph2, sk2, tb, pcs2, ws2, vs2)
  BY DEF ClosedLeaves
<1> QED
  BY <1>1, <1>2, <1>3, <1>4, <1>5, <1>6

\* The vectors that go with the last reference to them: their members are
\* closed, and none of them is in use by a thread that registers or removes.
LEMMA HostedDestroyed ==
  ASSUME NEW ph, NEW lk, NEW sk, NEW tb, NEW pcs, NEW ws, NEW vs,
         NEW ph2, NEW sk2, NEW dead,
         Hosted(ph, lk, sk, tb, pcs, ws, vs),
         \A v \in ServerVecs : sk[v] \subseteq Servers,
         tb \in ServerVecs \cup {NoVec}, tb \notin dead,
         pcs["strand"] \in {"sInsert", "sDone"} => ws["strand"] \in Servers,
         pcs["strand"] = "sDone" => vs["strand"] \in ServerVecs,
         \A v \in ServerVecs : sk2[v] = IF v \in dead THEN {} ELSE sk[v],
         \A s \in Servers :
           IF \E v \in ServerVecs \cap dead : s \in sk[v]
             THEN /\ ph2[s] = "closed"
                  /\ \A t \in Threads : ws[t] = s => ~Acting(pcs[t], s)
             ELSE ph2[s] = ph[s]
  PROVE  Hosted(ph2, lk, sk2, tb, pcs, ws, vs)
<1> USE DEF Hosted, Acting, Threads
<1>1. MemberNamed(ph2, lk, sk2, pcs, ws)
  BY DEF MemberNamed
<1>2. MembersApart(lk, sk2)
  BY DEF MembersApart
<1>3. ServerKnown(ph2, lk, sk2, pcs, ws)
  BY DEF ServerKnown
<1>4. Registering(ph2, lk, sk2, pcs, ws, vs)
  BY DEF Registering
<1>5. Removing(ph2, sk2, pcs, ws)
  BY DEF Removing
<1>6. ClosedLeaves(ph2, sk2, tb, pcs, ws, vs)
  <2> SUFFICES ASSUME tb \in ServerVecs, NEW m \in sk[tb], ph2[m] = "closed"
               PROVE  ph[m] = "closed"
    BY DEF ClosedLeaves
  <2>1. \A v \in ServerVecs : m \in sk[v] => v = tb
    BY DEF MembersApart
  <2> QED
    BY <2>1
<1> QED
  BY <1>1, <1>2, <1>3, <1>4, <1>5, <1>6

HostedNow == Hosted(phase, link, sockets, serverTable, pc, who, sv)
HostedNext == Hosted(phase', link', sockets', serverTable', pc', who', sv')

LEMMA ServerLocals ==
  ASSUME IInv
  PROVE  /\ pc["strand"] \in {"sInsert", "sDone"} => who["strand"] \in Servers
         /\ pc["strand"] = "sDone" => sv["strand"] \in ServerVecs
         /\ serverTable \in ServerVecs \cup {NoVec}
         /\ \A v \in ServerVecs : sockets[v] \subseteq Servers
         /\ \A v \in ServerVecs : v \in Vecs
  BY DEF IInv, TypeOK, LocalsOK, Vecs

LEMMA HeldServer ==
  ASSUME TypeOK, NEW v \in ServerVecs, v \in Held \ Held'
  PROVE  \/ serverTable = v /\ serverTable' # v
         \/ \E t \in Threads : sv[t] = v /\ sv'[t] # v
  BY HubAssumption DEF TypeOK, Held, Vecs

\* Settle, given what the handler itself made of the vectors and the sockets.
LEMMA TableSettle ==
  ASSUME IInv, IInv', ServerUnreferred, NEW t \in Threads,
         NEW skts \in [Vecs -> SUBSET Sockets], NEW allow,
         NEW ph \in [Sockets -> Phases], NEW rem, NEW ann,
         Settle(t, skts, allow, ph, rem, ann),
         \A v \in ServerVecs : skts[v] \subseteq sockets[v],
         \A v \in ClientVecs : skts[v] \subseteq Clients,
         Hosted(ph, link', skts, serverTable', pc', who', sv'),
         \A u \in Threads \ {t} : who'[u] = who[u],
         \/ ~Acting(pc'[t], who'[t])
         \/ \A v \in ServerVecs : v \in Held => v \in Held'
  PROVE  HostedNext /\ ServerUnreferred'
<1> DEFINE dead == Vecs \cap (Held \ Held')
           victims == UNION {skts[v] : v \in dead}
<1>1. /\ \A s \in victims : FreeFor(t, s)
      /\ sockets' = [v \in Vecs |-> IF v \in dead THEN {} ELSE skts[v]]
      /\ phase' = [s \in Sockets |-> IF s \in victims THEN "closed" ELSE ph[s]]
  BY Zenon DEF Settle
<1>2. \A v \in ServerVecs : v \in Vecs /\ skts[v] \subseteq Servers
  BY DEF IInv, TypeOK, Vecs
<1>3. \A s \in Servers : s \in victims <=> \E v \in ServerVecs \cap dead : s \in skts[v]
  BY HubAssumption DEF Vecs
<1>4. serverTable' \notin dead
  BY DEF Held
<1>5. ServerUnreferred'
  <2> SUFFICES ASSUME NEW v \in ServerVecs, v \notin Held' PROVE sockets'[v] = {}
    BY DEF ServerUnreferred
  <2>1. CASE v \in Held
    BY <1>1, <1>2, <2>1
  <2>2. CASE v \notin Held
    <3>1. skts[v] = {}
      BY <2>2 DEF ServerUnreferred
    <3> QED
      BY <1>1, <1>2, <3>1
  <2> QED
    BY <2>1, <2>2
<1>6. HostedNext
  <2>1. \A v \in ServerVecs : sockets'[v] = IF v \in dead THEN {} ELSE skts[v]
    BY <1>1, <1>2
  <2>2. \A s \in Servers :
          IF \E v \in ServerVecs \cap dead : s \in skts[v]
            THEN /\ phase'[s] = "closed"
                 /\ \A u \in Threads : who'[u] = s => ~Acting(pc'[u], s)
            ELSE phase'[s] = ph[s]
    <3> SUFFICES ASSUME NEW s \in Servers
                 PROVE  IF \E v \in ServerVecs \cap dead : s \in skts[v]
                          THEN /\ phase'[s] = "closed"
                               /\ \A u \in Threads : who'[u] = s => ~Acting(pc'[u], s)
                          ELSE phase'[s] = ph[s]
      OBVIOUS
    <3>1. CASE s \notin victims
      BY <1>1, <1>3, <3>1 DEF Sockets
    <3>2. CASE s \in victims
      <4>1. phase'[s] = "closed"
        BY <1>1, <3>2 DEF Sockets
      <4>2. \A u \in Threads \ {t} : who'[u] # s
        BY <1>1, <3>2 DEF FreeFor
      <4>3. PICK v \in ServerVecs : v \in dead
        BY <1>3, <3>2
      <4>4. v \in Held /\ v \notin Held'
        BY <4>3
      <4>5. ~Acting(pc'[t], who'[t])
        BY <4>4
      <4> HIDE DEF victims
      <4> QED
        BY <1>3, <3>2, <4>1, <4>2, <4>5
    <3> QED
      BY <3>1, <3>2
  <2>3. /\ pc'["strand"] \in {"sInsert", "sDone"} => who'["strand"] \in Servers
        /\ pc'["strand"] = "sDone" => sv'["strand"] \in ServerVecs
        /\ serverTable' \in ServerVecs \cup {NoVec}
    BY DEF IInv, TypeOK, LocalsOK
  <2> HIDE DEF dead, victims
  <2>4. \A v \in ServerVecs : skts[v] \subseteq Servers
    BY <1>2
  <2> QED
    BY <1>4, <2>1, <2>2, <2>3, <2>4, HostedDestroyed DEF HostedNext
<1> QED
  BY <1>5, <1>6

\* A step that leaves the server side alone and destroys nothing.
LEMMA TableKept ==
  ASSUME IInv, HostedNow, ServerUnreferred,
         \A v \in ServerVecs : sockets'[v] = sockets[v],
         \A s \in Servers : phase'[s] = phase[s] /\ link'[s] = link[s],
         serverTable' = serverTable,
         \A v \in ServerVecs : v \in Held => v \in Held',
         \A u \in Threads :
           \/ pc'[u] = pc[u] /\ who'[u] = who[u] /\ sv'[u] = sv[u]
           \/ ~Acting(pc[u], who[u]) /\ ~Acting(pc'[u], who'[u])
  PROVE  HostedNext /\ ServerUnreferred'
<1>1. ServerUnreferred'
  BY DEF ServerUnreferred
<1>2. HostedNext
  BY ServerLocals, HostedKept DEF HostedNow, HostedNext
<1> QED
  BY <1>1, <1>2

\* A step of thread t that leaves the server side alone but for what Settle
\* destroys.
LEMMA TableSettleKept ==
  ASSUME IInv, IInv', HostedNow, ServerUnreferred, NEW t \in Threads,
         NEW skts \in [Vecs -> SUBSET Sockets], NEW allow,
         NEW ph \in [Sockets -> Phases], NEW rem, NEW ann,
         Settle(t, skts, allow, ph, rem, ann),
         \A v \in ServerVecs : skts[v] = sockets[v],
         \A v \in ClientVecs : skts[v] \subseteq Clients,
         \A s \in Servers : ph[s] = phase[s] /\ link'[s] = link[s],
         serverTable' = serverTable,
         ~Acting(pc[t], who[t]), ~Acting(pc'[t], who'[t]),
         \A u \in Threads \ {t} :
           pc'[u] = pc[u] /\ who'[u] = who[u] /\ sv'[u] = sv[u]
  PROVE  HostedNext /\ ServerUnreferred'
<1>1. Hosted(ph, link', skts, serverTable', pc', who', sv')
  BY ServerLocals, HostedKept DEF HostedNow
<1> QED
  BY <1>1, TableSettle

LEMMA ServerUnreferringStep ==
  IInv /\ ServerUnreferring /\ [Next]_vars => ServerUnreferring'
<1> SUFFICES ASSUME IInv, ServerUnreferring, [Next]_vars
             PROVE  ServerUnreferring'
  OBVIOUS
<1> USE HubAssumption
    DEF IInv, TypeOK, LocalsOK, ServerUnreferring, Threads, At, Goto
<1>1. ASSUME NEW t \in Threads, NEW s \in Sockets, Abort(t, s)
      PROVE  ServerUnreferring'
  BY <1>1 DEF Abort, Return
<1>2. CASE StrandStep
  <2>1. ASSUME NEW s \in Servers,
               ServerAuthAssign(s) \/ AcceptCommand(s) \/ AbortAllClient(s)
                 \/ \E c \in Clients : ToClient(s, c)
        PROVE  ServerUnreferring'
    BY <2>1 DEF ServerAuthAssign, AcceptCommand, AbortAllClient, ToClient, Receives
  <2>2. CASE ServerAuthInsert \/ PushAllClients \/ AdvertiseOnline
    BY <2>2 DEF ServerAuthInsert, PushAllClients, AdvertiseOnline
  <2>3. CASE ServerAuthDone \/ SendbackOnline \/ ClientAuthDone
                 \/ MarkAllowAccept \/ ClientReached \/ Forwarded
    BY <2>3 DEF ServerAuthDone, SendbackOnline, ClientAuthDone, MarkAllowAccept,
                ClientReached, Forwarded, Return
  <2>4. ASSUME NEW c \in Clients, ClientAuthCheck(c) \/ Forward(c)
        PROVE  ServerUnreferring'
    BY <2>4 DEF ClientAuthCheck, Forward, Receives
  <2>5. CASE ClientAuthMark \/ ClientAuthNext \/ ClientAuthAnnounce
                 \/ ClientAuthInsert
    BY <2>5 DEF ClientAuthMark, ClientAuthNext, ClientAuthAnnounce,
                ClientAuthInsert
  <2>6. CASE ClientAuthLimit \/ ClientAuthNoServer \/ ClientAuthRefused
    <3>1. who["strand"] \in Sockets /\ Abort("strand", who["strand"])
      BY <2>6 DEF ClientAuthLimit, ClientAuthNoServer, ClientAuthRefused, Sockets
    <3> QED
      BY <3>1, <1>1
  <2>7. CASE \/ \E c \in Clients : ClientAuthReject(c) \/ ForwardNowhere(c)
             \/ \E s \in Servers : AcceptCommandLost(s)
    <3>1. \E x \in Sockets : Abort("strand", x)
      BY <2>7 DEF ClientAuthReject, ForwardNowhere, AcceptCommandLost, Sockets
    <3> QED
      BY <3>1, <1>1
  <2> QED
    BY <1>2, <2>1, <2>2, <2>3, <2>4, <2>5, <2>6, <2>7 DEF StrandStep
<1>3. ASSUME NEW t \in Threads, AbortStep(t) PROVE ServerUnreferring'
  <2>1. ASSUME NEW s \in Sockets, AbortBegin(t, s) PROVE ServerUnreferring'
    BY <2>1, <1>1 DEF AbortBegin
  <2>2. CASE AbortFind(t) \/ AbortRemove(t) \/ AbortErase(t)
    BY <2>2 DEF AbortFind, AbortRemove, AbortErase, Return, IsServer
  <2>3. CASE AbortRecheck(t)
    BY <2>3 DEF AbortRecheck, Return, IsServer, Sockets
  <2>4. CASE SayAbort(t) \/ Saying(t)
    BY <2>4 DEF SayAbort, Saying, Return
  <2>5. CASE ClearNothing(t)
    <3>1. CASE phase[who[t]] = "closed"
      BY <2>5, <3>1 DEF ClearNothing
    <3>2. CASE phase[who[t]] # "closed"
      BY <2>5, <3>2, <1>1 DEF ClearNothing
    <3> QED
      BY <3>1, <3>2
  <2>6. CASE ClearFind(t) \/ ClearSnapshot(t) \/ ClearRemove(t) \/ ClearClose(t)
    BY <2>6 DEF ClearFind, ClearSnapshot, ClearRemove, ClearClose
  <2>7. CASE ClearRest(t)
    BY <2>7 DEF ClearRest, Return
  <2>8. CASE SendbackOffline(t) \/ AdvertiseOffline(t)
    BY <2>8 DEF SendbackOffline, AdvertiseOffline, Return
  <2> QED
    BY <1>3, <2>1, <2>2, <2>3, <2>4, <2>5, <2>6, <2>7, <2>8 DEF AbortStep
<1>4. CASE Environment
  BY <1>4 DEF Environment, Accept, Recycle, SilentLoss, local
<1>5. CASE UNCHANGED vars
  BY <1>5 DEF vars, local
<1> QED
  BY <1>2, <1>3, <1>4, <1>5 DEF Next

LEMMA AbortClientTable ==
  ASSUME IInv, IInv', HostedNow, ServerUnreferred, NEW t \in Threads,
         NEW s \in Clients, Abort(t, s), ~Acting(pc[t], who[t])
  PROVE  HostedNext /\ ServerUnreferred'
<1> DEFINE ph == [phase EXCEPT ![s] = "closed"]
<1>1. /\ Settle(t, sockets, allowAccept, ph, remote, announced)
      /\ link' = link /\ serverTable' = serverTable
  BY DEF Abort
<1>2. /\ ph \in [Sockets -> Phases] /\ sockets \in [Vecs -> SUBSET Sockets]
      /\ \A x \in Servers : ph[x] = phase[x]
      /\ \A v \in ClientVecs : sockets[v] \subseteq Clients
  BY HubAssumption DEF IInv, TypeOK, Phases, Sockets
<1>3. ~Acting(pc'[t], who'[t])
  BY HubAssumption DEF Abort, Return, Goto, IInv, TypeOK, Acting
<1>4. \A u \in Threads \ {t} :
        pc'[u] = pc[u] /\ who'[u] = who[u] /\ sv'[u] = sv[u]
  BY DEF Abort, Return, Goto, IInv, TypeOK
<1> HIDE DEF ph
<1> QED
  BY <1>1, <1>2, <1>3, <1>4, TableSettleKept

\* The inner server that is aborted has a number only if it is established:
\* then it is in a vector, and will be removed from it.
LEMMA AbortServerTable ==
  ASSUME IInv, IInv', HostedNow, ServerUnreferring, ServerUnreferred,
         NEW t \in Threads, NEW s \in Servers, Abort(t, s), FreeFor(t, s),
         pc[t] \in {"idle", "clearFind"}, phase[s] # "closed"
  PROVE  HostedNext /\ ServerUnreferred'
<1> DEFINE ph == [phase EXCEPT ![s] = "closed"]
<1>1. /\ Settle(t, sockets, allowAccept, ph, remote, announced)
      /\ link' = link /\ serverTable' = serverTable
  BY DEF Abort
<1>2. /\ ph \in [Sockets -> Phases] /\ sockets \in [Vecs -> SUBSET Sockets]
      /\ \A x \in Servers : ph[x] = IF x = s THEN "closed" ELSE phase[x]
      /\ \A v \in ClientVecs : sockets[v] \subseteq Clients
      /\ \A v \in ServerVecs : sockets[v] \subseteq Servers
  BY DEF IInv, TypeOK, Phases, Sockets
<1>3. IF link[s] = NoLink
        THEN pc'[t] = "idle"
        ELSE pc'[t] = "find" /\ who'[t] = s
  BY DEF Abort, Return, Goto, IInv, TypeOK
<1>4. \A u \in Threads \ {t} :
        pc'[u] = pc[u] /\ who'[u] = who[u] /\ sv'[u] = sv[u]
  BY DEF Abort, Return, Goto, IInv, TypeOK
<1>5. link[s] # NoLink => \E v \in ServerVecs : s \in sockets[v]
  <2>1. phase[s] \in {"none", "opened", "established"}
    BY DEF IInv, TypeOK, Sockets
  <2>2. ~(who["strand"] = s /\ pc["strand"] \in {"sInsert", "sDone"})
    BY DEF FreeFor, Threads
  <2> QED
    BY <2>1, <2>2 DEF HostedNow, Hosted, ServerKnown
<1>6. link[s] = NoLink => \A v \in ServerVecs : s \notin sockets[v]
  BY DEF HostedNow, Hosted, MemberNamed
<1>7. \A v \in ServerVecs : v \in Held => v \in Held'
  <2> SUFFICES ASSUME NEW v \in ServerVecs, v \in Held, v \notin Held'
               PROVE  FALSE
    OBVIOUS
  <2>1. sv[t] = NoVec
    BY DEF ServerUnreferring
  <2>2. \E u \in Threads : sv[u] = v /\ sv'[u] # v
    BY <1>1, HeldServer DEF IInv
  <2> QED
    BY <1>4, <2>1, <2>2, HubAssumption DEF Vecs
<1>8. Hosted(ph, link', sockets, serverTable', pc', who', sv')
  <2> HIDE DEF ph
  <2> USE <1>1, <1>2, <1>3, <1>4 DEF HostedNow, Hosted, Threads
  <2>0. \/ t = "strand"
        \/ /\ pc'["strand"] = pc["strand"] /\ who'["strand"] = who["strand"]
           /\ sv'["strand"] = sv["strand"]
    OBVIOUS
  <2>1. MemberNamed(ph, link', sockets, pc', who')
    <3> SUFFICES ASSUME NEW v \in ServerVecs, NEW m \in sockets[v]
                 PROVE  /\ link[m] # NoLink
                        /\ \/ ph[m] \in {"established", "closed"}
                           \/ /\ ph[m] = "opened" /\ pc'["strand"] = "sDone"
                              /\ who'["strand"] = m
      BY DEF MemberNamed
    <3>1. /\ link[m] # NoLink
          /\ \/ phase[m] \in {"established", "closed"}
             \/ /\ phase[m] = "opened" /\ pc["strand"] = "sDone"
                /\ who["strand"] = m
      BY DEF MemberNamed
    <3>2. m \in Servers
      BY <1>2
    <3>3. ph[m] = IF m = s THEN "closed" ELSE phase[m]
      BY <1>2, <3>2
    <3> QED
      BY <2>0, <3>1, <3>3
  <2>2. MembersApart(link', sockets)
    BY DEF MembersApart
  <2>3. ServerKnown(ph, link', sockets, pc', who')
    BY <2>0 DEF ServerKnown
  <2>4. Registering(ph, link', sockets, pc', who', sv')
    <3>1. who["strand"] = s => t = "strand"
      BY DEF FreeFor
    <3>2. pc["strand"] \in {"sInsert", "sDone"} => who["strand"] \in Servers
      BY ServerLocals
    <3> QED
      BY <2>0, <3>1, <3>2 DEF Registering
  <2>5. Removing(ph, sockets, pc', who')
    <3> SUFFICES ASSUME NEW u \in Threads, pc'[u] \in {"find", "remove"},
                        who'[u] \in Servers
                 PROVE  /\ ph[who'[u]] = "closed"
                        /\ \E v \in ServerVecs : who'[u] \in sockets[v]
      BY DEF Removing
    <3>1. CASE u = t
      BY <1>5, <3>1
    <3>2. CASE u # t
      BY <3>2 DEF Removing
    <3> QED
      BY <3>1, <3>2
  <2>6. ClosedLeaves(ph, sockets, serverTable', pc', who', sv')
    <3> SUFFICES ASSUME serverTable \in ServerVecs, NEW m \in sockets[serverTable],
                        ph[m] = "closed"
                 PROVE  \E u \in Threads :
                          /\ who'[u] = m /\ pc'[u] \in {"find", "remove"}
                          /\ pc'[u] = "remove" => sv'[u] = serverTable
      BY ServerLocals DEF ClosedLeaves
    <3>1. CASE m = s
      BY <1>6, <3>1
    <3>2. CASE m # s
      <4>1. phase[m] = "closed"
        BY <3>2
      <4>2. PICK u \in Threads :
                /\ who[u] = m /\ pc[u] \in {"find", "remove"}
                /\ pc[u] = "remove" => sv[u] = serverTable
        BY <4>1, HubAssumption DEF ClosedLeaves, Vecs
      <4> QED
        BY <4>2
    <3> QED
      BY <3>1, <3>2
  <2> QED
    BY <2>1, <2>2, <2>3, <2>4, <2>5, <2>6
<1> HIDE DEF ph
<1> QED
  BY <1>1, <1>2, <1>4, <1>7, <1>8, TableSettle

\* There are numbers enough for the inner servers, so that one is left which
\* no member of any server vector has.
LEMMA FreshNumber ==
  ASSUME TypeOK, Cardinality(Servers) <= Cardinality(LinkNos),
         \/ "wrap" \notin Faults
         \/ \A v \in ServerVecs : v # serverTable => sockets[v] = {},
         NEW s \in Servers, \A v \in ServerVecs : s \notin sockets[v],
         NEW n \in NewLinkNo(serverTable, ServerVecs)
  PROVE  n \in LinkNos /\ \A v \in ServerVecs : \A m \in sockets[v] : link[m] # n
<1> DEFINE used == UNION {LinksIn(u) : u \in ServerVecs}
           named == UNION {sockets[u] : u \in ServerVecs}
           f == [m \in named |-> link[m]]
<1>1. \A u \in ServerVecs : /\ LinksIn(u) = {link[m] : m \in sockets[u]}
                            /\ sockets[u] \subseteq Servers
  BY HubAssumption DEF LinksIn, Members, Vecs, TypeOK
<1>2. named \in SUBSET (Servers \ {s})
  BY <1>1
<1>3. \A x : x \in used <=> \E m \in named : x = link[m]
  BY <1>1
<1>4. f \in Surjection(named, used)
  <2>1. \A m \in named : f[m] \in used
    BY <1>3
  <2>2. \A x \in used : \E m \in named : f[m] = x
    BY <1>3
  <2> HIDE DEF used, named
  <2> QED
    BY <2>1, <2>2 DEF Surjection
<1>5. IsFiniteSet(Servers) /\ IsFiniteSet(LinkNos)
  BY HubAssumption
<1>6. /\ IsFiniteSet(Servers \ {s})
      /\ Cardinality(Servers \ {s}) = Cardinality(Servers) - 1
      /\ Cardinality(Servers) \in Nat /\ Cardinality(LinkNos) \in Nat
  BY <1>5, FS_RemoveElement, FS_CardinalityType
<1> HIDE DEF used, named, f
<1>7. /\ IsFiniteSet(named) /\ Cardinality(named) <= Cardinality(Servers \ {s})
      /\ Cardinality(named) \in Nat
  BY <1>2, <1>6, FS_Subset, FS_CardinalityType
<1>8. /\ IsFiniteSet(used) /\ Cardinality(used) <= Cardinality(named)
      /\ Cardinality(used) \in Nat
  BY <1>4, <1>7, FS_Surjection, FS_CardinalityType
<1>9. ~(LinkNos \subseteq used)
  <2> SUFFICES ASSUME LinkNos \in SUBSET used PROVE FALSE
    OBVIOUS
  <2>1. Cardinality(LinkNos) <= Cardinality(used)
    BY <1>8, FS_Subset
  <2> QED
    BY <1>6, <1>7, <1>8, <2>1
<1>10. LinksIn(serverTable) \subseteq used
  <2>1. CASE serverTable = NoVec
    BY <2>1 DEF LinksIn, Members
  <2>2. CASE serverTable # NoVec
    <3>1. serverTable \in ServerVecs
      BY <2>2 DEF TypeOK
    <3> QED
      BY <3>1 DEF used
  <2> QED
    BY <2>1, <2>2
<1>11. NewLinkNo(serverTable, ServerVecs) = LinkNos \ used
  <2>1. LinkNos \ LinksIn(serverTable) # {} /\ LinkNos \ used # {}
    BY <1>9, <1>10
  <2>2. CASE "wrap" \notin Faults
    BY <2>1, <2>2 DEF NewLinkNo, used
  <2>3. CASE \A v \in ServerVecs : v # serverTable => sockets[v] = {}
    <3>1. used \subseteq LinksIn(serverTable)
      <4> SUFFICES ASSUME NEW u \in ServerVecs, NEW x \in LinksIn(u)
                   PROVE  x \in LinksIn(serverTable)
        BY DEF used
      <4>1. u = serverTable
        BY <1>1, <2>3
      <4> QED
        BY <4>1
    <3> QED
      BY <1>10, <2>1, <3>1 DEF NewLinkNo, used
  <2> QED
    BY <2>2, <2>3
<1> QED
  BY <1>3, <1>11 DEF named

LEMMA AssignTable ==
  ASSUME IInv, HostedNow, ServerUnreferring, ServerUnreferred,
         "wrap" \notin Faults \/ pc["timer"] = "idle",
         Cardinality(Servers) <= Cardinality(LinkNos),
         NEW s \in Servers, ServerAuthAssign(s)
  PROVE  HostedNext /\ ServerUnreferred'
<1>1. /\ pc["strand"] = "idle" /\ phase[s] = "opened" /\ FreeFor("strand", s)
      /\ who' = [who EXCEPT !["strand"] = s]
      /\ pc' = [pc EXCEPT !["strand"] = "sInsert"]
      /\ phase' = phase /\ sockets' = sockets
  BY DEF ServerAuthAssign, At, Goto
<1>2. PICK n \in NewLinkNo(serverTable, ServerVecs) : link' = [link EXCEPT ![s] = n]
  BY Zenon DEF ServerAuthAssign
<1>3. PICK v \in FindOrNew(serverTable, ServerVecs) :
        serverTable' = v /\ sv' = [sv EXCEPT !["strand"] = v]
  BY Zenon DEF ServerAuthAssign
<1> USE DEF HostedNow, Hosted
<1>4. \A u \in ServerVecs : s \notin sockets[u]
  BY <1>1 DEF MemberNamed
<1>5. n \in LinkNos /\ \A u \in ServerVecs : \A m \in sockets[u] : link[m] # n
  <2>1. ASSUME pc["timer"] = "idle"
        PROVE  \A u \in ServerVecs : u # serverTable => sockets[u] = {}
    <3>1. \A t \in Threads : sv[t] = NoVec
      BY <1>1, <2>1 DEF ServerUnreferring, Threads
    <3>2. \A u \in ServerVecs : u # serverTable => u \notin Held
      BY <3>1, HubAssumption DEF Held, IInv, TypeOK, Vecs
    <3> QED
      BY <3>2 DEF ServerUnreferred
  <2> QED
    BY <1>4, <2>1, FreshNumber DEF IInv
<1>6. n # NoLink
  BY <1>5, HubAssumption
<1>7. /\ \A x \in Servers : link'[x] = IF x = s THEN n ELSE link[x]
      /\ pc'["strand"] = "sInsert" /\ who'["strand"] = s
      /\ pc'["timer"] = pc["timer"] /\ who'["timer"] = who["timer"]
      /\ sv'["timer"] = sv["timer"]
      /\ \A u \in ServerVecs : sockets[u] \subseteq Servers
  BY <1>1, <1>2, <1>3 DEF IInv, TypeOK, Threads, Sockets
<1>8. v \in ServerVecs /\ (serverTable = NoVec => sockets[v] = {})
         /\ (serverTable # NoVec => v = serverTable)
  BY <1>3 DEF FindOrNew, ServerUnreferred, IInv, TypeOK
<1>9. MemberNamed(phase', link', sockets', pc', who')
  BY <1>1, <1>4, <1>7 DEF MemberNamed
<1>10. MembersApart(link', sockets')
  BY <1>1, <1>4, <1>7 DEF MembersApart
<1>11. ServerKnown(phase', link', sockets', pc', who')
  BY <1>1, <1>7 DEF ServerKnown
<1>12. Registering(phase', link', sockets', pc', who', sv')
  <2>1. link'[s] = n /\ \A u \in ServerVecs : \A m \in sockets[u] : link'[m] # n
    BY <1>4, <1>5, <1>7
  <2> QED
    BY <1>1, <1>6, <1>7, <2>1 DEF Registering
<1>13. Removing(phase', sockets', pc', who')
  BY <1>1, <1>7 DEF Removing, Threads
<1>14. ClosedLeaves(phase', sockets', serverTable', pc', who', sv')
  <2>1. CASE serverTable = NoVec
    BY <1>1, <1>3, <1>8, <2>1 DEF ClosedLeaves
  <2>2. CASE serverTable # NoVec
    BY <1>1, <1>3, <1>7, <1>8, <2>2 DEF ClosedLeaves, Threads
  <2> QED
    BY <2>1, <2>2
<1>15. ServerUnreferred'
  <2> SUFFICES ASSUME NEW u \in ServerVecs, u \notin Held' PROVE sockets'[u] = {}
    BY DEF ServerUnreferred
  <2>1. u \notin Held
    <3> SUFFICES ASSUME u \in Held PROVE FALSE
      OBVIOUS
    <3>1. \/ serverTable = u /\ serverTable' # u
          \/ \E t \in Threads : sv[t] = u /\ sv'[t] # u
      BY HeldServer DEF IInv
    <3>2. sv["strand"] = NoVec
      BY <1>1 DEF ServerUnreferring, Threads
    <3> QED
      BY <1>3, <1>7, <1>8, <3>1, <3>2, HubAssumption DEF Threads, Vecs
  <2> QED
    BY <1>1, <2>1 DEF ServerUnreferred
<1> QED
  BY <1>9, <1>10, <1>11, <1>12, <1>13, <1>14, <1>15 DEF HostedNext

LEMMA InsertTable ==
  ASSUME IInv, HostedNow, ServerUnreferred, ServerAuthInsert
  PROVE  HostedNext /\ ServerUnreferred'
<1> DEFINE s == who["strand"]
           w == sv["strand"]
           first == Inserted(w, s) = {s}
<1> USE DEF HostedNow, Hosted
<1>1. /\ pc["strand"] = "sInsert" /\ s \in Servers /\ w \in ServerVecs
      /\ who' = who /\ sv' = sv /\ link' = link /\ serverTable' = serverTable
      /\ clientTable' = clientTable /\ cv' = cv
      /\ sockets' = [sockets EXCEPT ![w] = Inserted(w, s)]
      /\ phase' = [phase EXCEPT ![s] = IF first THEN "established" ELSE @]
      /\ pc' = [pc EXCEPT !["strand"] = IF first THEN "sPush" ELSE "sDone"]
  BY DEF ServerAuthInsert, At, Goto, IInv, LocalsOK
<1>2. /\ phase[s] = "opened" /\ link[s] # NoLink
      /\ \A v \in ServerVecs : \A m \in sockets[v] : link[m] # link[s]
  BY <1>1 DEF Registering
<1>3. \A v \in ServerVecs : /\ sockets[v] \subseteq Servers
                            /\ sockets'[v] = IF v = w THEN sockets[v] \cup {s}
                                             ELSE sockets[v]
  BY <1>1, <1>2 DEF Inserted, IInv, TypeOK, Vecs
<1>4. \A x \in Servers :
        phase'[x] = IF x = s THEN (IF first THEN "established" ELSE "opened")
                    ELSE phase[x]
  BY <1>1, <1>2 DEF IInv, TypeOK, Sockets
<1>5. /\ pc'["strand"] = IF first THEN "sPush" ELSE "sDone"
      /\ pc'["timer"] = pc["timer"] /\ who["timer"] # s
  BY <1>1, HubAssumption DEF IInv, TypeOK, LocalsOK, Threads, Sockets
<1>6. \A v \in ServerVecs : s \notin sockets[v]
  BY <1>2
<1>0. who["strand"] = s /\ who'["strand"] = s /\ sv["strand"] = w /\ sv'["strand"] = w
  BY <1>1
<1>c. /\ s \in Servers /\ w \in ServerVecs /\ who' = who /\ sv' = sv
      /\ link' = link /\ serverTable' = serverTable
  BY <1>1
<1> HIDE DEF first, s, w
<1>a. \A v \in ServerVecs : \A m \in sockets'[v] :
        IF m = s THEN v = w ELSE m \in sockets[v]
  BY <1>3, <1>6
<1>b. \A v \in ServerVecs : \A m \in sockets[v] : m \in Servers /\ m # s
  BY <1>3, <1>6
<1>7. MemberNamed(phase', link', sockets', pc', who')
  BY <1>1, <1>0, <1>2, <1>a, <1>b, <1>4, <1>5 DEF MemberNamed
<1>8. MembersApart(link', sockets')
  BY <1>1, <1>2, <1>a, <1>b DEF MembersApart
<1>9. ServerKnown(phase', link', sockets', pc', who')
  <2> SUFFICES ASSUME NEW x \in Servers
               PROVE  /\ phase'[x] = "none" => link[x] = NoLink
                      /\ phase'[x] = "opened" /\ link[x] # NoLink
                           => x = s /\ pc'["strand"] \in {"sInsert", "sDone"}
                      /\ phase'[x] = "established"
                           => \E v \in ServerVecs : x \in sockets'[v]
    BY <1>1, <1>0 DEF ServerKnown
  <2>1. CASE x = s
    BY <1>0, <1>2, <1>c, <1>3, <1>4, <1>5, <2>1
  <2>2. CASE x # s
    <3>1. /\ phase[x] = "none" => link[x] = NoLink
          /\ ~(phase[x] = "opened" /\ link[x] # NoLink)
          /\ phase[x] = "established" => \E v \in ServerVecs : x \in sockets[v]
      BY <1>0, <2>2 DEF ServerKnown
    <3> QED
      BY <1>3, <1>4, <2>2, <3>1
  <2> QED
    BY <2>1, <2>2
<1>10. Registering(phase', link', sockets', pc', who', sv')
  <2>1. pc'["strand"] # "sInsert"
    BY <1>5
  <2>2. pc'["strand"] = "sDone" => phase'[s] = "opened"
    BY <1>5, <1>4, <1>c
  <2>3. s \in sockets'[w]
    BY <1>3, <1>c
  <2> QED
    BY <1>0, <2>1, <2>2, <2>3 DEF Registering
<1>11. Removing(phase', sockets', pc', who')
  <2>1. \A t \in Threads : pc'[t] \in {"find", "remove"} => t = "timer"
    BY <1>5 DEF Threads
  <2>2. pc["timer"] \in {"find", "remove"} /\ who["timer"] \in Servers =>
          /\ phase[who["timer"]] = "closed"
          /\ \E v \in ServerVecs : who["timer"] \in sockets[v]
    BY DEF Removing, Threads
  <2> QED
    <3>1. \A x \in Servers : (\E v \in ServerVecs : x \in sockets[v])
                               => \E v \in ServerVecs : x \in sockets'[v]
      BY <1>3
    <3> QED
      BY <1>c, <1>4, <1>5, <2>1, <2>2, <3>1 DEF Removing
<1>12. ClosedLeaves(phase', sockets', serverTable', pc', who', sv')
  <2> SUFFICES ASSUME serverTable \in ServerVecs, NEW m \in sockets'[serverTable],
                      phase'[m] = "closed"
               PROVE  \E t \in Threads :
                        /\ who'[t] = m /\ pc'[t] \in {"find", "remove"}
                        /\ pc'[t] = "remove" => sv'[t] = serverTable
    BY <1>1, ServerLocals DEF ClosedLeaves
  <2>1. m # s
    BY <1>1, <1>4
  <2>2. m \in sockets[serverTable] /\ phase[m] = "closed"
    BY <1>4, <1>a, <1>b, <2>1
  <2>3. PICK t \in Threads : /\ who[t] = m /\ pc[t] \in {"find", "remove"}
                             /\ pc[t] = "remove" => sv[t] = serverTable
    BY <2>2, HubAssumption DEF ClosedLeaves, Vecs
  <2>4. t = "timer"
    BY <1>1, <2>3 DEF Threads
  <2> QED
    BY <1>1, <1>5, <2>3, <2>4
<1>13. ServerUnreferred'
  <2>1. Held' = Held /\ w \in Held
    BY <1>0, <1>1 DEF Held, Threads
  <2> QED
    BY <1>3, <2>1 DEF ServerUnreferred
<1> QED
  BY <1>7, <1>8, <1>9, <1>10, <1>11, <1>12, <1>13 DEF HostedNext

LEMMA DoneTable ==
  ASSUME IInv, IInv', HostedNow, ServerUnreferred, ServerAuthDone
  PROVE  HostedNext /\ ServerUnreferred'
<1> DEFINE s == who["strand"]
           ph == [phase EXCEPT ![s] = "established"]
<1> USE DEF HostedNow, Hosted
<1>1. /\ pc["strand"] = "sDone" /\ s \in Servers
      /\ Settle("strand", sockets, allowAccept, ph, remote \cup {s}, announced)
      /\ link' = link /\ serverTable' = serverTable
  BY DEF ServerAuthDone, At, IInv, LocalsOK
<1>2. /\ ph \in [Sockets -> Phases] /\ sockets \in [Vecs -> SUBSET Sockets]
      /\ \A x \in Servers : ph[x] = IF x = s THEN "established" ELSE phase[x]
      /\ \A v \in ClientVecs : sockets[v] \subseteq Clients
      /\ \A v \in ServerVecs : sockets[v] \subseteq Servers
  BY DEF IInv, TypeOK, Phases, Sockets
<1>3. /\ pc'["strand"] = "idle" /\ pc'["timer"] = pc["timer"]
      /\ who'["timer"] = who["timer"] /\ sv'["timer"] = sv["timer"]
      /\ who["timer"] # s
  BY <1>1, HubAssumption
  DEF ServerAuthDone, Return, Goto, IInv, TypeOK, LocalsOK, Threads, Sockets
<1>4. phase[s] = "opened" /\ s \in sockets[sv["strand"]] /\ sv["strand"] \in ServerVecs
  BY <1>1, ServerLocals DEF Registering
<1>5. Hosted(ph, link', sockets, serverTable', pc', who', sv')
  <2> HIDE DEF ph
  <2>1. MemberNamed(ph, link', sockets, pc', who')
    BY <1>1, <1>2, <1>3 DEF MemberNamed
  <2>2. MembersApart(link', sockets)
    BY <1>1 DEF MembersApart
  <2>3. ServerKnown(ph, link', sockets, pc', who')
    BY <1>1, <1>2, <1>4 DEF ServerKnown
  <2>4. Registering(ph, link', sockets, pc', who', sv')
    BY <1>3 DEF Registering
  <2>5. Removing(ph, sockets, pc', who')
    BY <1>2, <1>3 DEF Removing, Threads
  <2>6. ClosedLeaves(ph, sockets, serverTable', pc', who', sv')
    <3> SUFFICES ASSUME serverTable \in ServerVecs, NEW m \in sockets[serverTable],
                        ph[m] = "closed"
                 PROVE  \E t \in Threads :
                          /\ who'[t] = m /\ pc'[t] \in {"find", "remove"}
                          /\ pc'[t] = "remove" => sv'[t] = serverTable
      BY <1>1, ServerLocals DEF ClosedLeaves
    <3>1. phase[m] = "closed"
      BY <1>1, <1>2
    <3>2. PICK t \in Threads : /\ who[t] = m /\ pc[t] \in {"find", "remove"}
                               /\ pc[t] = "remove" => sv[t] = serverTable
      BY <3>1, HubAssumption DEF ClosedLeaves, Vecs
    <3>3. t = "timer"
      BY <1>1, <3>2 DEF Threads
    <3> QED
      BY <1>3, <3>2, <3>3
  <2> QED
    BY <2>1, <2>2, <2>3, <2>4, <2>5, <2>6
<1>6. ~Acting(pc'["strand"], who'["strand"])
  BY <1>3 DEF Acting
<1>7. \A u \in Threads \ {"strand"} : who'[u] = who[u]
  BY <1>3 DEF Threads
<1> HIDE DEF ph, s
<1> QED
  BY <1>1, <1>2, <1>5, <1>6, <1>7, TableSettle DEF Threads

LEMMA FindTable ==
  ASSUME IInv, HostedNow, ServerUnreferring, ServerUnreferred, NEW t \in Threads,
         AbortFind(t)
  PROVE  HostedNext /\ ServerUnreferred'
<1> USE DEF HostedNow, Hosted
<1>1. /\ pc[t] = "find"
      /\ phase' = phase /\ link' = link /\ sockets' = sockets
      /\ serverTable' = serverTable
  BY DEF AbortFind, At
<1>2. \A u \in Threads \ {t} :
        pc'[u] = pc[u] /\ who'[u] = who[u] /\ sv'[u] = sv[u]
  BY DEF AbortFind, Return, Goto, IInv, TypeOK
<1>3. \A v \in ServerVecs : v \in Held => v \in Held'
  <2> SUFFICES ASSUME NEW v \in ServerVecs, v \in Held, v \notin Held'
               PROVE  FALSE
    OBVIOUS
  <2>1. \E u \in Threads : sv[u] = v /\ sv'[u] # v
    BY <1>1, HeldServer DEF IInv
  <2>2. sv[t] = NoVec
    BY <1>1 DEF ServerUnreferring
  <2> QED
    BY <1>2, <2>1, <2>2, HubAssumption DEF Vecs
<1>4. CASE who[t] \notin Servers
  <2>1. ~Acting(pc[t], who[t]) /\ ~Acting(pc'[t], who'[t])
    BY <1>1, <1>4, HubAssumption
    DEF Acting, AbortFind, Return, Goto, IsServer, IInv, TypeOK
  <2> QED
    BY <1>1, <1>2, <1>3, <2>1, TableKept
<1>5. CASE who[t] \in Servers
  <2>1. IF serverTable = NoVec
          THEN pc'[t] = "idle"
          ELSE pc'[t] = "remove" /\ who'[t] = who[t] /\ sv'[t] = serverTable
    BY <1>1, <1>5 DEF AbortFind, Return, Goto, IsServer, IInv, TypeOK
  <2>2. pc'["strand"] \in {"sInsert", "sDone"} =>
          /\ pc'["strand"] = pc["strand"] /\ who'["strand"] = who["strand"]
          /\ sv'["strand"] = sv["strand"]
    BY <1>2, <2>1 DEF Threads
  <2>3. pc["strand"] \in {"sInsert", "sDone"} =>
          /\ pc'["strand"] = pc["strand"] /\ who'["strand"] = who["strand"]
          /\ sv'["strand"] = sv["strand"]
    BY <1>1, <1>2 DEF Threads
  <2>4. MemberNamed(phase', link', sockets', pc', who')
    BY <1>1, <2>3 DEF MemberNamed
  <2>5. MembersApart(link', sockets')
    BY <1>1
  <2>6. ServerKnown(phase', link', sockets', pc', who')
    BY <1>1, <2>3 DEF ServerKnown
  <2>7. Registering(phase', link', sockets', pc', who', sv')
    BY <1>1, <2>2 DEF Registering
  <2>8. Removing(phase', sockets', pc', who')
    BY <1>1, <1>2, <2>1 DEF Removing
  <2>9. ClosedLeaves(phase', sockets', serverTable', pc', who', sv')
    BY <1>1, <1>2, <2>1 DEF ClosedLeaves
  <2> QED
    BY <1>1, <1>3, <2>4, <2>5, <2>6, <2>7, <2>8, <2>9
    DEF HostedNext, ServerUnreferred
<1> QED
  BY <1>4, <1>5

\* The number of a removed inner server is its own, so that the removal takes
\* nobody else out of a vector; and it is in the vector of the table, if that
\* is the one it is removed from.
LEMMA RemoveTable ==
  ASSUME IInv, IInv', HostedNow, ServerUnreferred, NEW t \in Threads,
         AbortRemove(t)
  PROVE  HostedNext /\ ServerUnreferred'
<1> DEFINE v == Mine(t)
           kept == {m \in sockets[v] : link[m] # link[who[t]]}
           skts == [sockets EXCEPT ![v] = kept]
<1> USE DEF HostedNow, Hosted
<1>1. /\ pc[t] = "remove"
      /\ Settle(t, skts, allowAccept, phase, remote, announced)
      /\ link' = link /\ serverTable' = serverTable
      /\ IF kept = sockets[v]
           THEN Return(t)
           ELSE Goto(t, "erase") /\ UNCHANGED <<who, sv, cv, target, handles>>
  BY Zenon DEF AbortRemove, At
<1>2. \A u \in Threads \ {t} :
        pc'[u] = pc[u] /\ who'[u] = who[u] /\ sv'[u] = sv[u]
  BY <1>1 DEF Return, Goto, IInv, TypeOK
<1>3. pc'[t] \in {"idle", "erase"}
  BY <1>1 DEF Return, Goto, IInv, TypeOK
<1>4. ~Acting(pc'[t], who'[t])
  BY <1>3 DEF Acting
<1>5. /\ skts \in [Vecs -> SUBSET Sockets]
      /\ phase \in [Sockets -> Phases]
      /\ \A u \in ServerVecs : skts[u] \subseteq sockets[u]
      /\ \A u \in ClientVecs : skts[u] \subseteq Clients
  BY DEF IInv, TypeOK, Phases, Vecs
<1>6. CASE who[t] \notin Servers
  <2>1. v \in ClientVecs /\ ~Acting(pc[t], who[t])
    BY <1>1, <1>6 DEF IInv, LocalsOK, Mine, IsServer, Acting
  <2>2. \A u \in ServerVecs : skts[u] = sockets[u]
    BY <2>1, HubAssumption DEF IInv, TypeOK, Vecs
  <2> HIDE DEF skts, v, kept
  <2> QED
    BY <1>1, <1>2, <1>4, <1>5, <2>1, <2>2, TableSettleKept
<1>7. CASE who[t] \in Servers
  <2> DEFINE s == who[t]
  <2>1. v = sv[t] /\ v \in ServerVecs
    BY <1>1, <1>7 DEF IInv, LocalsOK, Mine, IsServer
  <2>2. phase[s] = "closed" /\ \E u \in ServerVecs : s \in sockets[u]
    BY <1>1, <1>7 DEF Removing
  <2>3. \A u \in ServerVecs : /\ sockets[u] \subseteq Servers
                              /\ skts[u] = IF u = v THEN sockets[u] \ {s}
                                           ELSE sockets[u]
    <3>1. kept = sockets[v] \ {s}
      BY <2>1, <2>2 DEF MembersApart
    <3> QED
      BY <2>1, <3>1 DEF IInv, TypeOK, Vecs
  <2>4. \A u \in Threads : who[u] = s => u = t
    BY <1>7, HubAssumption DEF IInv, LocalsOK, Threads, Sockets
  <2>5. pc'["strand"] \in {"sInsert", "sDone"} \/ pc["strand"] \in {"sInsert", "sDone"}
          => /\ pc'["strand"] = pc["strand"] /\ who'["strand"] = who["strand"]
             /\ sv'["strand"] = sv["strand"] /\ who["strand"] # s
    BY <1>1, <1>2, <1>3, <2>4 DEF Threads
  <2> HIDE DEF skts, kept, s, v
  <2>6. \A u \in ServerVecs : \A m \in skts[u] : m \in sockets[u] /\ m \in Servers
    BY <2>3
  <2>7. \A x \in Servers \ {s} : (\E u \in ServerVecs : x \in sockets[u])
                                   => \E u \in ServerVecs : x \in skts[u]
    BY <2>3
  <2>8. MemberNamed(phase, link', skts, pc', who')
    BY <1>1, <2>5, <2>6 DEF MemberNamed
  <2>9. MembersApart(link', skts)
    BY <1>1, <2>6 DEF MembersApart
  <2>10. ServerKnown(phase, link', skts, pc', who')
    <3> SUFFICES ASSUME NEW x \in Servers
                 PROVE  /\ phase[x] = "none" => link[x] = NoLink
                        /\ phase[x] = "opened" /\ link[x] # NoLink
                             => /\ who'["strand"] = x
                                /\ pc'["strand"] \in {"sInsert", "sDone"}
                        /\ phase[x] = "established"
                             => \E u \in ServerVecs : x \in skts[u]
      BY <1>1 DEF ServerKnown
    <3>1. /\ phase[x] = "none" => link[x] = NoLink
          /\ phase[x] = "opened" /\ link[x] # NoLink
               => who["strand"] = x /\ pc["strand"] \in {"sInsert", "sDone"}
          /\ phase[x] = "established" => \E u \in ServerVecs : x \in sockets[u]
      BY DEF ServerKnown
    <3> QED
      BY <2>2, <2>5, <2>7, <3>1
  <2>11. Registering(phase, link', skts, pc', who', sv')
    <3>1. pc["strand"] = "sDone" => sv["strand"] \in ServerVecs
      BY ServerLocals
    <3> QED
      BY <1>1, <2>3, <2>5, <2>6, <3>1 DEF Registering
  <2>12. Removing(phase, skts, pc', who')
    <3> SUFFICES ASSUME NEW u \in Threads, pc'[u] \in {"find", "remove"},
                        who'[u] \in Servers
                 PROVE  /\ phase[who'[u]] = "closed"
                        /\ \E w \in ServerVecs : who'[u] \in skts[w]
      BY DEF Removing
    <3>1. u # t /\ pc'[u] = pc[u] /\ who'[u] = who[u]
      BY <1>2, <1>3
    <3>2. /\ phase[who[u]] = "closed" /\ who[u] # s
          /\ \E w \in ServerVecs : who[u] \in sockets[w]
      BY <2>4, <3>1 DEF Removing
    <3> QED
      BY <2>7, <3>1, <3>2
  <2>13. ClosedLeaves(phase, skts, serverTable', pc', who', sv')
    <3> SUFFICES ASSUME serverTable \in ServerVecs, NEW m \in skts[serverTable],
                        phase[m] = "closed"
                 PROVE  \E u \in Threads :
                          /\ who'[u] = m /\ pc'[u] \in {"find", "remove"}
                          /\ pc'[u] = "remove" => sv'[u] = serverTable
      BY <1>1, ServerLocals DEF ClosedLeaves
    <3>1. m \in sockets[serverTable]
      BY <2>6
    <3>2. PICK u \in Threads : /\ who[u] = m /\ pc[u] \in {"find", "remove"}
                               /\ pc[u] = "remove" => sv[u] = serverTable
      BY <3>1, HubAssumption DEF ClosedLeaves, Vecs
    <3>3. CASE u = t
      <4>1. m = s /\ v = serverTable
        BY <1>1, <2>1, <3>2, <3>3 DEF s
      <4> QED
        BY <2>3, <4>1
    <3>4. CASE u # t
      BY <1>2, <3>2, <3>4
    <3> QED
      BY <3>3, <3>4
  <2>14. Hosted(phase, link', skts, serverTable', pc', who', sv')
    BY <2>8, <2>9, <2>10, <2>11, <2>12, <2>13
  <2> QED
    BY <1>1, <1>2, <1>4, <1>5, <2>14, TableSettle
<1> QED
  BY <1>6, <1>7

\* The table may lose a vector that still has members, as long as nothing is
\* left behind: the vector goes with the last handler that refers to it.
LEMMA EraseTable ==
  ASSUME IInv, IInv', HostedNow, ServerUnreferred, NEW t \in Threads,
         AbortErase(t)
  PROVE  HostedNext /\ ServerUnreferred'
<1> USE DEF HostedNow, Hosted
<1>1. /\ pc[t] = "erase" /\ pc'[t] = "recheck"
      /\ Settle(t, sockets, allowAccept, phase, remote, announced)
      /\ link' = link /\ who' = who /\ sv' = sv
      /\ serverTable' \in {serverTable, NoVec}
  BY DEF AbortErase, At, Goto, IInv, TypeOK
<1>2. \A u \in Threads \ {t} : pc'[u] = pc[u]
  BY DEF AbortErase, Goto, IInv, TypeOK
<1>3. /\ sockets \in [Vecs -> SUBSET Sockets] /\ phase \in [Sockets -> Phases]
      /\ \A u \in ClientVecs : sockets[u] \subseteq Clients
  BY DEF IInv, TypeOK, Phases
<1>4. ~Acting(pc[t], who[t]) /\ ~Acting(pc'[t], who'[t])
  BY <1>1 DEF Acting
<1>5. Hosted(phase, link', sockets, serverTable, pc', who', sv')
  BY <1>1, <1>2, <1>4, ServerLocals, HostedKept
<1>6. Hosted(phase, link', sockets, serverTable', pc', who', sv')
  <2>1. ClosedLeaves(phase, sockets, serverTable', pc', who', sv')
    BY <1>1, <1>5 DEF ClosedLeaves
  <2> QED
    BY <1>5, <2>1
<1> HIDE DEF Hosted
<1> QED
  BY <1>1, <1>3, <1>4, <1>6, TableSettle

LEMMA EnvironmentTable ==
  ASSUME IInv, HostedNow, ServerUnreferred, Environment
  PROVE  HostedNext /\ ServerUnreferred'
<1> USE DEF HostedNow, Hosted
<1>1. /\ pc' = pc /\ who' = who /\ sv' = sv /\ sockets' = sockets
      /\ serverTable' = serverTable /\ Held' = Held
  BY DEF Environment, Accept, Recycle, SilentLoss, local, Held
<1>2. ServerUnreferred'
  BY <1>1 DEF ServerUnreferred
<1>3. /\ pc["strand"] \in {"sInsert", "sDone"} => who["strand"] \in Servers
      /\ \A v \in ServerVecs : sockets[v] \subseteq Servers
      /\ serverTable \in ServerVecs \cup {NoVec}
  BY ServerLocals
<1>4. ASSUME NEW s \in Sockets, Accept(s) PROVE HostedNext
  <2>1. /\ \A x \in Sockets : phase'[x] = IF x = s THEN "opened" ELSE phase[x]
        /\ phase[s] = "none" /\ link' = link
    BY <1>4 DEF Accept, IInv, TypeOK
  <2>2. s \in Servers => link[s] = NoLink
    BY <2>1 DEF ServerKnown
  <2>3. MemberNamed(phase', link', sockets', pc', who')
    BY <1>1, <1>3, <2>1 DEF MemberNamed, Sockets
  <2>4. MembersApart(link', sockets')
    BY <1>1, <2>1
  <2>5. ServerKnown(phase', link', sockets', pc', who')
    BY <1>1, <2>1, <2>2 DEF ServerKnown, Sockets
  <2>6. Registering(phase', link', sockets', pc', who', sv')
    BY <1>1, <1>3, <2>1 DEF Registering, Sockets
  <2>7. Removing(phase', sockets', pc', who')
    BY <1>1, <2>1 DEF Removing, Sockets
  <2>8. ClosedLeaves(phase', sockets', serverTable', pc', who', sv')
    BY <1>1, <1>3, <2>1 DEF ClosedLeaves, Sockets
  <2> QED
    BY <2>3, <2>4, <2>5, <2>6, <2>7, <2>8 DEF HostedNext
<1>5. ASSUME NEW s \in Sockets, Recycle(s) PROVE HostedNext
  <2>1. /\ \A x \in Sockets : /\ phase'[x] = IF x = s THEN "none" ELSE phase[x]
                              /\ link'[x] = IF x = s THEN NoLink ELSE link[x]
        /\ \A v \in ServerVecs : s \notin sockets[v]
        /\ phase[s] = "closed"
        /\ \A t \in Threads : who[t] # s
    BY <1>5 DEF Recycle, IInv, TypeOK, Vecs
  <2>2. \A v \in ServerVecs : \A m \in sockets[v] :
          link'[m] = link[m] /\ phase'[m] = phase[m]
    BY <1>3, <2>1 DEF Sockets
  <2>3. MemberNamed(phase', link', sockets', pc', who')
    BY <1>1, <2>2 DEF MemberNamed
  <2>4. MembersApart(link', sockets')
    BY <1>1, <2>2 DEF MembersApart
  <2>5. ServerKnown(phase', link', sockets', pc', who')
    BY <1>1, <2>1 DEF ServerKnown, Sockets
  <2>6. Registering(phase', link', sockets', pc', who', sv')
    BY <1>1, <1>3, <2>1, <2>2 DEF Registering, Sockets, Threads
  <2>7. Removing(phase', sockets', pc', who')
    BY <1>1, <2>1 DEF Removing, Sockets
  <2>8. ClosedLeaves(phase', sockets', serverTable', pc', who', sv')
    BY <1>1, <1>3, <2>2 DEF ClosedLeaves
  <2> QED
    BY <2>3, <2>4, <2>5, <2>6, <2>7, <2>8 DEF HostedNext
<1>6. ASSUME NEW s \in Servers, SilentLoss(s) PROVE HostedNext
  BY <1>1, <1>6 DEF SilentLoss, HostedNext
<1> QED
  BY <1>2, <1>4, <1>5, <1>6 DEF Environment

\* The steps of the strand that neither register nor remove an inner server.
LEMMA StrandTable ==
  ASSUME IInv, IInv', HostedNow, ServerUnreferring, ServerUnreferred, StrandStep,
         \A s \in Servers : ~ServerAuthAssign(s),
         ~ServerAuthInsert, ~ServerAuthDone
  PROVE  HostedNext /\ ServerUnreferred'
<1> USE DEF IInv, TypeOK, LocalsOK, Threads, At, Goto
<1>1. ASSUME NEW s \in Servers,
             AcceptCommand(s) \/ AbortAllClient(s)
               \/ \E c \in Clients : ToClient(s, c)
      PROVE  HostedNext /\ ServerUnreferred'
  <2>1. \A v \in ServerVecs : v \in Held => v \in Held'
    BY <1>1, HeldServer, HubAssumption
    DEF AcceptCommand, AbortAllClient, ToClient, Receives, ServerUnreferring, Vecs
  <2> QED
    BY <1>1, <2>1, TableKept
    DEF AcceptCommand, AbortAllClient, ToClient, Receives, Acting
<1>2. CASE PushAllClients \/ AdvertiseOnline
  BY <1>2, TableKept DEF PushAllClients, AdvertiseOnline, Acting, Held
<1>3. ASSUME NEW c \in Clients, ClientAuthCheck(c) \/ Forward(c)
      PROVE  HostedNext /\ ServerUnreferred'
  <2>1. \A v \in ServerVecs : v \in Held => v \in Held'
    BY <1>3, HeldServer, HubAssumption
    DEF ClientAuthCheck, Forward, Receives, ServerUnreferring, Vecs
  <2> QED
    BY <1>3, <2>1, TableKept DEF ClientAuthCheck, Forward, Receives, Acting
<1>4. CASE ClientAuthMark \/ ClientAuthNext \/ ClientAuthAnnounce
  BY <1>4, TableKept, HubAssumption
  DEF ClientAuthMark, ClientAuthNext, ClientAuthAnnounce, Acting, Held, Sockets
<1>5. CASE ClientAuthInsert
  <2>1. \A v \in ServerVecs : sockets'[v] = sockets[v]
    BY <1>5, HubAssumption DEF ClientAuthInsert, Vecs
  <2> QED
    BY <1>5, <2>1, TableKept DEF ClientAuthInsert, Acting, Held
<1>6. CASE SendbackOnline \/ MarkAllowAccept \/ Forwarded
  <2>1. \E allow : Settle("strand", sockets, allow, phase, remote, announced)
    BY <1>6 DEF SendbackOnline, MarkAllowAccept, Forwarded
  <2>2. ~Acting(pc["strand"], who["strand"]) /\ ~Acting(pc'["strand"], who'["strand"])
    BY <1>6 DEF SendbackOnline, MarkAllowAccept, Forwarded, Return, Acting
  <2>3. \A u \in Threads \ {"strand"} :
          pc'[u] = pc[u] /\ who'[u] = who[u] /\ sv'[u] = sv[u]
    BY <1>6 DEF SendbackOnline, MarkAllowAccept, Forwarded, Return
  <2>4. link' = link /\ serverTable' = serverTable
    BY <1>6 DEF SendbackOnline, MarkAllowAccept, Forwarded
  <2> QED
    BY <2>1, <2>2, <2>3, <2>4, TableSettleKept DEF Phases
<1>7. CASE ClientAuthDone \/ ClientReached
  <2>1. /\ ~Acting(pc["strand"], who["strand"])
        /\ ~Acting(pc'["strand"], who'["strand"])
    BY <1>7 DEF ClientAuthDone, ClientReached, Return, Acting
  <2>2. \A u \in Threads \ {"strand"} :
          pc'[u] = pc[u] /\ who'[u] = who[u] /\ sv'[u] = sv[u]
    BY <1>7 DEF ClientAuthDone, ClientReached, Return
  <2>3. link' = link /\ serverTable' = serverTable
    BY <1>7 DEF ClientAuthDone, ClientReached
  <2>4. PICK c \in Clients, p \in Phases :
          Settle("strand", sockets, allowAccept, [phase EXCEPT ![c] = p], remote,
                 announced)
    <3>1. CASE ClientAuthDone
      BY <3>1 DEF ClientAuthDone, Phases
    <3>2. CASE ClientReached
      BY <3>2 DEF ClientReached, Phases, Sockets
    <3> QED
      BY <1>7, <3>1, <3>2
  <2> DEFINE ph == [phase EXCEPT ![c] = p]
  <2>5. /\ ph \in [Sockets -> Phases]
        /\ \A x \in Servers : ph[x] = phase[x]
    BY HubAssumption DEF Phases, Sockets
  <2>6. Settle("strand", sockets, allowAccept, ph, remote, announced)
    BY <2>4
  <2>7. /\ sockets \in [Vecs -> SUBSET Sockets]
        /\ \A v \in ClientVecs : sockets[v] \subseteq Clients
    OBVIOUS
  <2> HIDE DEF ph, IInv, TypeOK, LocalsOK
  <2> QED
    BY <2>1, <2>2, <2>3, <2>5, <2>6, <2>7, TableSettleKept
<1>8. CASE \/ ClientAuthLimit \/ ClientAuthNoServer \/ ClientAuthRefused
           \/ \E c \in Clients : ClientAuthReject(c) \/ ForwardNowhere(c)
  <2>1. \E x \in Clients : Abort("strand", x)
    BY <1>8 DEF ClientAuthLimit, ClientAuthNoServer, ClientAuthRefused,
                ClientAuthReject, ForwardNowhere
  <2>2. ~Acting(pc["strand"], who["strand"])
    BY <1>8 DEF ClientAuthLimit, ClientAuthNoServer, ClientAuthRefused,
                ClientAuthReject, ForwardNowhere, Acting
  <2> QED
    BY <2>1, <2>2, AbortClientTable
<1>9. ASSUME NEW s \in Servers, AcceptCommandLost(s)
      PROVE  HostedNext /\ ServerUnreferred'
  BY <1>9, AbortServerTable DEF AcceptCommandLost
<1> QED
  BY <1>1, <1>2, <1>3, <1>4, <1>5, <1>6, <1>7, <1>8, <1>9 DEF StrandStep

\* The cleanup of an aborted socket, by either thread.
LEMMA CleanupTable ==
  ASSUME IInv, IInv', HostedNow, ServerUnreferring, ServerUnreferred,
         NEW t \in Threads, AbortStep(t)
  PROVE  HostedNext /\ ServerUnreferred'
<1> USE DEF IInv, TypeOK, LocalsOK, Threads, At, Goto
<1>1. ASSUME NEW s \in Sockets, AbortBegin(t, s)
      PROVE  HostedNext /\ ServerUnreferred'
  <2>1. Abort(t, s) /\ FreeFor(t, s) /\ pc[t] = "idle" /\ phase[s] # "closed"
    BY <1>1 DEF AbortBegin
  <2>2. ~Acting(pc[t], who[t])
    BY <2>1 DEF Acting
  <2> QED
    BY <2>1, <2>2, AbortClientTable, AbortServerTable DEF Sockets
<1>2. CASE AbortFind(t)
  BY <1>2, FindTable
<1>3. CASE AbortRemove(t)
  BY <1>3, RemoveTable
<1>4. CASE AbortErase(t)
  BY <1>4, EraseTable
<1>5. CASE AbortRecheck(t) \/ Saying(t)
  <2>1. \E allow, ann : Settle(t, sockets, allow, phase, remote, ann)
    BY <1>5 DEF AbortRecheck, Saying
  <2>2. ~Acting(pc[t], who[t]) /\ ~Acting(pc'[t], who'[t])
    BY <1>5 DEF AbortRecheck, Saying, Return, Acting
  <2>3. \A u \in Threads \ {t} :
          pc'[u] = pc[u] /\ who'[u] = who[u] /\ sv'[u] = sv[u]
    BY <1>5 DEF AbortRecheck, Saying, Return
  <2>4. link' = link /\ serverTable' = serverTable
    BY <1>5 DEF AbortRecheck, Saying
  <2> QED
    BY <2>1, <2>2, <2>3, <2>4, TableSettleKept DEF Phases
<1>6. CASE SayAbort(t) \/ AdvertiseOffline(t)
  <2>1. \A v \in ServerVecs : v \in Held => v \in Held'
    BY <1>6, HeldServer, HubAssumption
    DEF SayAbort, AdvertiseOffline, Return, ServerUnreferring, Vecs
  <2> QED
    BY <1>6, <2>1, TableKept DEF SayAbort, AdvertiseOffline, Return, Acting
<1>7. CASE ClearNothing(t)
  <2>1. CASE phase[who[t]] = "closed"
    BY <1>7, <2>1, TableKept DEF ClearNothing, Acting, Held
  <2>2. CASE phase[who[t]] # "closed"
    <3>1. /\ who[t] \in Sockets /\ Abort(t, who[t]) /\ pc[t] = "clearFind"
      BY <1>7, <2>2 DEF ClearNothing
    <3>2. FreeFor(t, who[t]) /\ ~Acting(pc[t], who[t])
      BY <3>1, HubAssumption DEF FreeFor, Acting
    <3> QED
      BY <2>2, <3>1, <3>2, AbortClientTable, AbortServerTable DEF Sockets
  <2> QED
    BY <2>1, <2>2
<1>8. CASE ClearFind(t) \/ ClearSnapshot(t) \/ SendbackOffline(t)
  <2>1. \A v \in ServerVecs : v \in Held => v \in Held'
    BY <1>8, HeldServer, HubAssumption
    DEF ClearFind, ClearSnapshot, SendbackOffline, Vecs
  <2> QED
    BY <1>8, <2>1, TableKept DEF ClearFind, ClearSnapshot, SendbackOffline, Acting
<1>9. CASE ClearRemove(t)
  <2>1. \A v \in ServerVecs : sockets'[v] = sockets[v]
    BY <1>9, HubAssumption DEF ClearRemove, Vecs
  <2> QED
    BY <1>9, <2>1, TableKept DEF ClearRemove, Acting, Held
<1>10. CASE ClearClose(t)
  BY <1>10, HubAssumption, TableKept DEF ClearClose, Acting, Held, Sockets
<1>11. CASE ClearRest(t)
  <2> DEFINE skts == [sockets EXCEPT ![cv[t]] = {}]
  <2>1. \E allow : Settle(t, skts, allow, phase, remote, announced)
    BY <1>11 DEF ClearRest
  <2>2. /\ skts \in [Vecs -> SUBSET Sockets]
        /\ \A v \in ServerVecs : skts[v] = sockets[v]
        /\ \A v \in ClientVecs : skts[v] \subseteq Clients
    BY <1>11, HubAssumption DEF ClearRest, Vecs
  <2>3. ~Acting(pc[t], who[t]) /\ ~Acting(pc'[t], who'[t])
    BY <1>11 DEF ClearRest, Return, Acting
  <2>4. \A u \in Threads \ {t} :
          pc'[u] = pc[u] /\ who'[u] = who[u] /\ sv'[u] = sv[u]
    BY <1>11 DEF ClearRest, Return
  <2>5. link' = link /\ serverTable' = serverTable
    BY <1>11 DEF ClearRest
  <2> HIDE DEF skts
  <2> QED
    BY <2>1, <2>2, <2>3, <2>4, <2>5, TableSettleKept DEF Phases
<1> QED
  BY <1>1, <1>2, <1>3, <1>4, <1>5, <1>6, <1>7, <1>8, <1>9, <1>10, <1>11
  DEF AbortStep

LEMMA TableStep ==
  ASSUME "wrap" \notin Faults \/ pc["timer"] = "idle",
         Cardinality(Servers) <= Cardinality(LinkNos),
         IInv, TableInv, [Next]_vars
  PROVE  TableInv'
<1>1. IInv' /\ ServerUnreferring'
  BY StepTyped, ServerUnreferringStep DEF TableInv
<1>2. HostedNow /\ ServerUnreferring /\ ServerUnreferred
  BY DEF TableInv, HostedNow
<1>3. HostedNext /\ ServerUnreferred'
  <2>1. CASE StrandStep
    BY <1>1, <1>2, <2>1, AssignTable, InsertTable, DoneTable, StrandTable
  <2>2. ASSUME NEW t \in Threads, AbortStep(t) PROVE HostedNext /\ ServerUnreferred'
    BY <1>1, <1>2, <2>2, CleanupTable
  <2>3. CASE Environment
    BY <1>2, <2>3, EnvironmentTable
  <2>4. CASE UNCHANGED vars
    BY <1>2, <2>4 DEF vars, local, HostedNow, HostedNext, ServerUnreferred, Held
  <2> QED
    BY <2>1, <2>2, <2>3, <2>4 DEF Next
<1> QED
  BY <1>1, <1>3 DEF TableInv, HostedNext

LEMMA TableInit == Init => IInv /\ TableInv
<1> SUFFICES ASSUME Init PROVE TableInv
  BY InitTyped
<1>1. /\ \A v \in ServerVecs : sockets[v] = {}
      /\ \A s \in Servers : phase[s] = "none" /\ link[s] = NoLink
      /\ \A t \in Threads : pc[t] = "idle" /\ sv[t] = NoVec
      /\ serverTable = NoVec
  BY DEF Init, Vecs, Sockets
<1> QED
  BY <1>1
  DEF TableInv, ServerUnreferring, ServerUnreferred, Hosted, MemberNamed,
      MembersApart, ServerKnown, Registering, Removing, ClosedLeaves, Threads

\* Where no socket is overdue, the timer aborts none.
TimerQuiet == "timer" \notin Faults => pc["timer"] = "idle"

LEMMA TimerStays ==
  ASSUME IInv, StrandStep \/ AbortStep("strand") \/ Environment
  PROVE  /\ pc'["timer"] = pc["timer"] /\ who'["timer"] = who["timer"]
         /\ sv'["timer"] = sv["timer"] /\ cv'["timer"] = cv["timer"]
<1> USE DEF IInv, TypeOK, Threads, At, Goto, Return, Abort
<1>1. CASE StrandStep
  <2>1. ASSUME NEW s \in Servers,
               \/ ServerAuthAssign(s) \/ AcceptCommand(s) \/ AcceptCommandLost(s)
               \/ AbortAllClient(s) \/ \E c \in Clients : ToClient(s, c)
        PROVE  /\ pc'["timer"] = pc["timer"] /\ who'["timer"] = who["timer"]
               /\ sv'["timer"] = sv["timer"] /\ cv'["timer"] = cv["timer"]
    BY <2>1 DEF ServerAuthAssign, AcceptCommand, AcceptCommandLost,
                AbortAllClient, ToClient, Receives
  <2>2. CASE \/ ServerAuthInsert \/ ServerAuthDone \/ PushAllClients
             \/ AdvertiseOnline \/ SendbackOnline
    BY <2>2 DEF ServerAuthInsert, ServerAuthDone, PushAllClients,
                AdvertiseOnline, SendbackOnline
  <2>3. ASSUME NEW c \in Clients,
               \/ ClientAuthReject(c) \/ ClientAuthCheck(c)
               \/ ForwardNowhere(c) \/ Forward(c)
        PROVE  /\ pc'["timer"] = pc["timer"] /\ who'["timer"] = who["timer"]
               /\ sv'["timer"] = sv["timer"] /\ cv'["timer"] = cv["timer"]
    BY <2>3 DEF ClientAuthReject, ClientAuthCheck, ForwardNowhere, Forward, Receives
  <2>4. CASE \/ ClientAuthLimit \/ ClientAuthMark \/ ClientAuthNext
             \/ ClientAuthNoServer \/ ClientAuthAnnounce \/ ClientAuthRefused
    BY <2>4 DEF ClientAuthLimit, ClientAuthMark, ClientAuthNext,
                ClientAuthNoServer, ClientAuthAnnounce, ClientAuthRefused
  <2>5. CASE \/ ClientAuthInsert \/ ClientAuthDone \/ MarkAllowAccept
             \/ ClientReached \/ Forwarded
    BY <2>5 DEF ClientAuthInsert, ClientAuthDone, MarkAllowAccept,
                ClientReached, Forwarded
  <2> QED
    BY <1>1, <2>1, <2>2, <2>3, <2>4, <2>5 DEF StrandStep
<1>2. CASE AbortStep("strand")
  <2>1. CASE \E s \in Sockets : AbortBegin("strand", s)
    BY <2>1 DEF AbortBegin
  <2>5. CASE AbortFind("strand") \/ AbortErase("strand")
    BY <2>5 DEF AbortFind, AbortErase
  <2>6. CASE AbortRemove("strand")
    BY <2>6 DEF AbortRemove
  <2>2. CASE AbortRecheck("strand") \/ SayAbort("strand") \/ Saying("strand")
    BY <2>2 DEF AbortRecheck, SayAbort, Saying
  <2>3. CASE \/ ClearNothing("strand") \/ ClearFind("strand")
             \/ ClearSnapshot("strand") \/ ClearRemove("strand")
             \/ ClearClose("strand") \/ ClearRest("strand")
    BY <2>3 DEF ClearNothing, ClearFind, ClearSnapshot, ClearRemove, ClearClose,
                ClearRest
  <2>4. CASE SendbackOffline("strand") \/ AdvertiseOffline("strand")
    BY <2>4 DEF SendbackOffline, AdvertiseOffline
  <2> QED
    BY <1>2, <2>1, <2>2, <2>3, <2>4, <2>5, <2>6 DEF AbortStep
<1>3. CASE Environment
  BY <1>3 DEF Environment, Accept, Recycle, SilentLoss, local
<1> QED
  BY <1>1, <1>2, <1>3

LEMMA StrandOrTimer ==
  ASSUME Next, "timer" \notin Faults, pc["timer"] = "idle"
  PROVE  StrandStep \/ AbortStep("strand") \/ Environment
<1>1. ~AbortStep("timer")
  BY DEF AbortStep, AbortBegin, AbortFind, AbortRemove, AbortErase, AbortRecheck,
         SayAbort, Saying, ClearNothing, ClearFind, ClearSnapshot, ClearRemove,
         ClearClose, ClearRest, SendbackOffline, AdvertiseOffline, At
<1> QED
  BY <1>1 DEF Next, Threads

LEMMA TimerQuietStep ==
  ASSUME IInv, TimerQuiet, [Next]_vars
  PROVE  TimerQuiet'
<1> SUFFICES ASSUME "timer" \notin Faults PROVE pc'["timer"] = "idle"
  BY DEF TimerQuiet
<1>1. CASE Next
  BY <1>1, StrandOrTimer, TimerStays DEF TimerQuiet
<1>2. CASE UNCHANGED vars
  BY <1>2 DEF vars, local, TimerQuiet
<1> QED
  BY <1>1, <1>2

\* Whenever no handler runs, the vector in the server table holds exactly the
\* established inner servers, whatever the timer and the strand interleave and
\* however many inner servers there are: as long as no number comes back while
\* a vector that has left the table is still in use, or the strand is alone,
\* and there are numbers for all inner servers.
THEOREM TableExact ==
  ASSUME ~({"wrap", "timer"} \subseteq Faults),
         Cardinality(Servers) <= Cardinality(LinkNos)
  PROVE  Spec => []ServerTableExact
<1>1. Init => IInv /\ TimerQuiet /\ TableInv
  BY TableInit DEF Init, TimerQuiet, Threads
<1>2. IInv /\ TimerQuiet /\ TableInv /\ [Next]_vars
        => (IInv /\ TimerQuiet /\ TableInv)'
  <2> SUFFICES ASSUME IInv, TimerQuiet, TableInv, [Next]_vars
               PROVE  IInv' /\ TimerQuiet' /\ TableInv'
    OBVIOUS
  <2>1. "wrap" \notin Faults \/ pc["timer"] = "idle"
    BY DEF TimerQuiet
  <2> QED
    BY <2>1, StepTyped, TimerQuietStep, TableStep
<1>3. IInv /\ TableInv => ServerTableExact
  <2> SUFFICES ASSUME IInv, TableInv, Quiet
               PROVE  Members(serverTable) = Established(Servers)
    BY DEF ServerTableExact
  <2>1. /\ \A t \in Threads : pc[t] = "idle" /\ sv[t] = NoVec
        /\ \A v \in ServerVecs : sockets[v] \subseteq Servers
        /\ serverTable \in ServerVecs \cup {NoVec}
    BY DEF Quiet, At, TableInv, ServerUnreferring, IInv, TypeOK
  <2>2. \A v \in ServerVecs : v # serverTable => sockets[v] = {}
    BY <2>1, HubAssumption
    DEF TableInv, ServerUnreferred, Held, IInv, TypeOK, Vecs
  <2>3. \A s \in Established(Servers) : s \in Members(serverTable)
    <3> SUFFICES ASSUME NEW s \in Servers, phase[s] = "established"
                 PROVE  s \in Members(serverTable)
      BY DEF Established
    <3>1. PICK v \in ServerVecs : s \in sockets[v]
      BY DEF TableInv, Hosted, ServerKnown
    <3>2. v = serverTable /\ v # NoVec
      BY <2>2, <3>1, HubAssumption DEF Vecs
    <3> QED
      BY <3>1, <3>2 DEF Members
  <2>4. \A m \in Members(serverTable) : m \in Established(Servers)
    <3> SUFFICES ASSUME serverTable \in ServerVecs, NEW m \in sockets[serverTable]
                 PROVE  m \in Servers /\ phase[m] = "established"
      BY <2>1 DEF Members, Established
    <3>1. m \in Servers
      BY <2>1
    <3>2. phase[m] \in {"established", "closed"}
      BY <2>1 DEF TableInv, Hosted, MemberNamed, Threads
    <3>3. phase[m] # "closed"
      BY <2>1, HubAssumption DEF TableInv, Hosted, ClosedLeaves, Vecs
    <3> QED
      BY <3>1, <3>2, <3>3
  <2> QED
    BY <2>3, <2>4
<1> QED
  BY <1>1, <1>2, <1>3, PTL DEF Spec

-----------------------------------------------------------------------------
(* The strand alone: what the registry's views say of one another.         *)

\* Without the timer the tables' vectors are the only ones with members, and
\* the strand refers to no others but for one it has just emptied.
Lone ==
  /\ pc["timer"] = "idle"
  /\ \A v \in ServerVecs : v # serverTable => sockets[v] = {}
  /\ \A v \in ClientVecs : v # clientTable => sockets[v] = {}
  /\ \/ sv["strand"] \in {NoVec, serverTable}
     \/ pc["strand"] = "recheck" /\ serverTable = NoVec
  /\ \/ cv["strand"] \in {NoVec, clientTable}
     \/ pc["strand"] = "recheck" /\ clientTable = NoVec
  /\ pc["strand"] \in {"cSending", "saying"}
       => target["strand"] \in Members(serverTable)
  /\ pc["strand"] \in {"clearFind", "snapshot", "closing", "closeOne"}
       => who["strand"] \in Servers

NoneUp(ph) == \A s \in Servers : ph[s] # "established"

\* Handlers that run only while some inner server is established.
Backed == {"sDone", "sPush", "sAdvertise", "sOnline",
           "cMark", "cSend", "cSending", "cInsert", "cDone"}

Clearing == {"clearFind", "snapshot", "closing", "closeOne"}

\* The cleanup of an inner server that was closed, up to the test of whether
\* it was the last, and what follows if it was.
Leaving(p, w) == w \in Servers /\ p \in {"find", "remove", "erase", "recheck"}
Left(p, w, ph) ==
  \/ p = "offline"
  \/ p \in Clearing /\ ph[w] = "closed"

\* No one is about to tell the peers anything.
InView(p, w, ph) ==
  /\ ~Leaving(p, w) /\ ~Left(p, w, ph)
  /\ p \notin {"sPush", "sAdvertise", "sOnline", "advertise"}

\* Peers know whether an inner server is established, unless the strand is at
\* p about to tell them.
PeersAt(p, w, ph, adv, off) ==
  /\ p \in Backed => ~NoneUp(ph)
  /\ p = "sOnline" => adv
  /\ Leaving(p, w) => ph[w] = "closed" /\ adv /\ ~off
  /\ Left(p, w, ph) => adv /\ ~off /\ NoneUp(ph)
  /\ p = "advertise" => off /\ NoneUp(ph)
  /\ InView(p, w, ph) => (adv <=> ~NoneUp(ph)) /\ (off => NoneUp(ph))

PeersInv == PeersAt(pc["strand"], who["strand"], phase, advertised, offline)

\* The cleanup of a client that was closed.
Dropping(p, w) ==
  w \in Clients /\ p \in {"find", "remove", "erase", "recheck", "sayAbort", "saying"}

\* M is the client table: its members have numbers of their own, and it has
\* every established client, but for one the strand has taken out to close.
ClientsAt(p, w, x, h, M, lk, ph) ==
  /\ \A c \in Clients : lk[c] # NoLink /\ ph[c] \in {"none", "opened"}
       => c = w /\ p \in {"cSend", "cSending", "cInsert", "cDone"}
  /\ \A m \in M : lk[m] # NoLink
  /\ p \in {"cSend", "cSending", "cInsert"} => lk[w] # NoLink
  /\ \A m, n \in M : lk[m] = lk[n] => m = n
  /\ \A c \in Clients : ph[c] = "established"
       => c \in M \/ (p = "closeOne" /\ c = x)
  /\ p = "cDone" => w \in M
  /\ Dropping(p, w) => ph[w] = "closed"
  /\ Dropping(p, w) /\ p \in {"find", "remove"}
       => \A m \in M : lk[m] = lk[w] => m = w
  /\ p \in {"closing", "closeOne"} => \A m \in M : lk[m] \in h

ClientsInv ==
  ClientsAt(pc["strand"], who["strand"], target["strand"], handles["strand"],
            Members(clientTable), link, phase)

Live(S, ph) == {s \in S : ph[s] = "established"}

\* The inner server knows the established clients, unless the strand is at p
\* about to tell it or to do what it has asked for.
KnownAt(p, w, x, up, ann) ==
  /\ p \in {"cInsert", "cDone"} => ann = up \cup {w}
  /\ p = "kick" => ann = up \ {x}
  /\ Dropping(p, w) => ann \ {w} = up
  /\ \/ p \in Clearing \cup {"cInsert", "cDone", "kick"} \/ Dropping(p, w)
     \/ ann = up

SeenAt(p, w, x, M, ph, rem, ann) ==
  /\ rem = Live(Servers, ph)
  /\ rem = {} => ann = {}
  /\ p \in Clearing => ann = {}
  /\ rem # {} => KnownAt(p, w, x, Live(Clients, ph), ann)
  /\ Dropping(p, w) /\ p \in {"find", "remove"} /\ w \in ann => w \in M
  /\ p = "sPush" => M = {}
  /\ rem = {} => M = {} \/ Leaving(p, w) \/ p \in Clearing

SeenInv ==
  SeenAt(pc["strand"], who["strand"], target["strand"], Members(clientTable),
         phase, remote, announced)

-----------------------------------------------------------------------------
(* Steps of the strand alone destroy nothing.                              *)

\* What Settle comes to when no vector with members goes.
Calmly(skts, ph, rem, ann) ==
  /\ sockets' = skts
  /\ phase' = ph
  /\ remote' = {s \in rem : ph[s] = "established"}
  /\ announced' = IF remote' = {} THEN {} ELSE ann

LEMMA NothingDestroyed ==
  ASSUME NEW t, NEW skts \in [Vecs -> SUBSET Sockets], NEW allow,
         NEW ph \in [Sockets -> Phases], NEW rem \in SUBSET Servers, NEW ann,
         Settle(t, skts, allow, ph, rem, ann),
         \A v \in Vecs : v \notin {serverTable', clientTable'} => skts[v] = {}
  PROVE  Calmly(skts, ph, rem, ann)
<1> DEFINE dead == Vecs \cap (Held \ Held')
           victims == UNION {skts[v] : v \in dead}
<1>1. /\ sockets' = [v \in Vecs |-> IF v \in dead THEN {} ELSE skts[v]]
      /\ phase' = [s \in Sockets |-> IF s \in victims THEN "closed" ELSE ph[s]]
      /\ remote' = {s \in rem : phase'[s] = "established"}
      /\ announced' = IF remote' = {} THEN {} ELSE ann
  BY Zenon DEF Settle
<1>2. \A v \in dead : v \in Vecs /\ skts[v] = {}
  BY DEF Held
<1>3. victims = {}
  BY <1>2
<1> HIDE DEF dead, victims
<1>4. sockets' = skts
  BY <1>1, <1>2
<1>5. phase' = ph
  BY <1>1, <1>3
<1> QED
  BY <1>1, <1>4, <1>5 DEF Calmly

LEMMA CalmAbort ==
  ASSUME IInv, Lone, NEW s \in Sockets, Abort("strand", s)
  PROVE  Calmly(sockets, [phase EXCEPT ![s] = "closed"], remote, announced)
<1>1. [phase EXCEPT ![s] = "closed"] \in [Sockets -> Phases]
  BY DEF IInv, TypeOK, Phases
<1>2. \A v \in Vecs : v \notin {serverTable', clientTable'} => sockets[v] = {}
  BY DEF Lone, Abort, Vecs
<1> QED
  BY <1>1, <1>2, NothingDestroyed DEF Abort, IInv, TypeOK

LEMMA CalmReturns ==
  ASSUME IInv, Lone
  PROVE  /\ SendbackOnline \/ MarkAllowAccept \/ Forwarded \/ AbortRecheck("strand")
              => Calmly(sockets, phase, remote, announced)
         /\ ServerAuthDone
              => Calmly(sockets, [phase EXCEPT ![who["strand"]] = "established"],
                        remote \cup {who["strand"]}, announced)
         /\ ClientAuthDone
              => Calmly(sockets, [phase EXCEPT ![who["strand"]] = "established"],
                        remote, announced)
         /\ At("strand", "kick") /\ ClientReached
              => Calmly(sockets, [phase EXCEPT ![target["strand"]] = "closed"],
                        remote, announced)
         /\ At("strand", "down") /\ ClientReached
              => Calmly(sockets, phase, remote, announced)
         /\ Saying("strand")
              => \E told : /\ Calmly(sockets, phase, remote, told)
                           /\ told = IF /\ phase[target["strand"]] # "closed"
                                        /\ target["strand"] \in remote
                                       THEN announced \ {who["strand"]}
                                       ELSE announced
<1> USE DEF IInv, TypeOK, Phases
<1>1. ASSUME serverTable' = serverTable, clientTable' = clientTable
      PROVE  \A v \in Vecs : v \notin {serverTable', clientTable'} => sockets[v] = {}
  BY <1>1 DEF Lone, Vecs
<1>2. ASSUME SendbackOnline \/ MarkAllowAccept \/ Forwarded \/ AbortRecheck("strand")
      PROVE  Calmly(sockets, phase, remote, announced)
  <2>1. /\ serverTable' = serverTable /\ clientTable' = clientTable
        /\ \E allow : Settle("strand", sockets, allow, phase, remote, announced)
    BY <1>2 DEF SendbackOnline, MarkAllowAccept, Forwarded, AbortRecheck
  <2> QED
    BY <1>1, <2>1, NothingDestroyed
<1>3. ASSUME ServerAuthDone
      PROVE  Calmly(sockets, [phase EXCEPT ![who["strand"]] = "established"],
                    remote \cup {who["strand"]}, announced)
  <2>1. /\ [phase EXCEPT ![who["strand"]] = "established"] \in [Sockets -> Phases]
        /\ remote \cup {who["strand"]} \in SUBSET Servers
    BY <1>3 DEF ServerAuthDone, LocalsOK, At
  <2> QED
    BY <1>1, <1>3, <2>1, NothingDestroyed DEF ServerAuthDone
<1>4. ASSUME ClientAuthDone
      PROVE  Calmly(sockets, [phase EXCEPT ![who["strand"]] = "established"],
                    remote, announced)
  <2>1. [phase EXCEPT ![who["strand"]] = "established"] \in [Sockets -> Phases]
    OBVIOUS
  <2> QED
    BY <1>1, <1>4, <2>1, NothingDestroyed DEF ClientAuthDone
<1>5. ASSUME ClientReached
      PROVE  /\ At("strand", "kick")
                  => Calmly(sockets, [phase EXCEPT ![target["strand"]] = "closed"],
                            remote, announced)
             /\ At("strand", "down") => Calmly(sockets, phase, remote, announced)
  <2> DEFINE ph(p) == [phase EXCEPT ![target["strand"]] = p]
  <2>1. \A p \in Phases : ph(p) \in [Sockets -> Phases]
    OBVIOUS
  <2>2. target["strand"] \in Sockets
    BY <1>5 DEF ClientReached, LocalsOK, Sockets
  <2>3. ph(phase[target["strand"]]) = phase
    BY <2>2
  <2>4. /\ At("strand", "kick") => Settle("strand", sockets, allowAccept,
                                          ph("closed"), remote, announced)
        /\ At("strand", "down") => Settle("strand", sockets, allowAccept,
                                          ph(phase[target["strand"]]), remote, announced)
    BY <1>5 DEF ClientReached, At
  <2>5. serverTable' = serverTable /\ clientTable' = clientTable
    BY <1>5 DEF ClientReached
  <2>6. At("strand", "kick") => Calmly(sockets, ph("closed"), remote, announced)
    BY <1>1, <2>1, <2>4, <2>5, NothingDestroyed
  <2>7. At("strand", "down") => Calmly(sockets, phase, remote, announced)
    <3>1. At("strand", "down")
            => Settle("strand", sockets, allowAccept, phase, remote, announced)
      BY <2>3, <2>4
    <3> HIDE DEF ph
    <3> QED
      BY <1>1, <2>5, <3>1, NothingDestroyed
  <2> QED
    BY <2>6, <2>7
<1>6. ASSUME Saying("strand")
      PROVE  \E told : /\ Calmly(sockets, phase, remote, told)
                       /\ told = IF /\ phase[target["strand"]] # "closed"
                                    /\ target["strand"] \in remote
                                   THEN announced \ {who["strand"]}
                                   ELSE announced
  BY <1>1, <1>6, NothingDestroyed DEF Saying
<1> QED
  BY <1>2, <1>3, <1>4, <1>5, <1>6

LEMMA CalmRemovals ==
  ASSUME IInv, Lone
  PROVE  /\ AbortRemove("strand")
              => Calmly([sockets EXCEPT ![Mine("strand")] =
                           {m \in @ : link[m] # link[who["strand"]]}],
                        phase, remote, announced)
         /\ AbortErase("strand") => Calmly(sockets, phase, remote, announced)
         /\ ClearRest("strand")
              => Calmly([sockets EXCEPT ![cv["strand"]] = {}], phase, remote,
                        announced)
<1> USE DEF IInv, TypeOK, Phases
<1>1. ASSUME AbortRemove("strand")
      PROVE  Calmly([sockets EXCEPT ![Mine("strand")] =
                       {m \in @ : link[m] # link[who["strand"]]}],
                    phase, remote, announced)
  <2> DEFINE skts == [sockets EXCEPT ![Mine("strand")] =
                        {m \in @ : link[m] # link[who["strand"]]}]
  <2>1. Mine("strand") \in Vecs
    BY <1>1 DEF AbortRemove, At, LocalsOK, Mine, IsServer, Vecs, Threads
  <2>2. /\ skts \in [Vecs -> SUBSET Sockets]
        /\ \A v \in Vecs : skts[v] \subseteq sockets[v]
        /\ skts = [sockets EXCEPT ![Mine("strand")] =
                     {m \in sockets[Mine("strand")] : link[m] # link[who["strand"]]}]
    BY <2>1
  <2>3. Settle("strand", skts, allowAccept, phase, remote, announced)
    BY <1>1, <2>2 DEF AbortRemove
  <2> HIDE DEF skts
  <2>4. \A v \in Vecs : v \notin {serverTable', clientTable'} => skts[v] = {}
    BY <1>1, <2>2 DEF AbortRemove, Lone, Vecs
  <2> QED
    BY <2>2, <2>3, <2>4, NothingDestroyed DEF skts
<1>2. ASSUME AbortErase("strand")
      PROVE  Calmly(sockets, phase, remote, announced)
  <2>1. ASSUME NEW v \in Vecs, v \notin {serverTable', clientTable'}
        PROVE  sockets[v] = {}
    <3>1. Mine("strand") \in {serverTable, clientTable}
      BY <1>2, HubAssumption DEF AbortErase, At, Lone, LocalsOK, Mine, IsServer, Threads, Vecs
    <3>2. Mine("strand") \in IF who["strand"] \in Servers THEN ServerVecs ELSE ClientVecs
      BY <1>2 DEF AbortErase, At, LocalsOK, Mine, IsServer, Threads
    <3> QED
      BY <1>2, <2>1, <3>1, <3>2, HubAssumption DEF AbortErase, Lone, Vecs, IsServer
  <2> QED
    BY <1>2, <2>1, NothingDestroyed DEF AbortErase
<1>3. ASSUME ClearRest("strand")
      PROVE  Calmly([sockets EXCEPT ![cv["strand"]] = {}], phase, remote, announced)
  <2> DEFINE skts == [sockets EXCEPT ![cv["strand"]] = {}]
  <2>1. /\ skts \in [Vecs -> SUBSET Sockets]
        /\ \A v \in Vecs : skts[v] \subseteq sockets[v]
    OBVIOUS
  <2>2. \A v \in Vecs : v \notin {serverTable', clientTable'} => skts[v] = {}
    BY <1>3, <2>1 DEF ClearRest, Lone, Vecs
  <2>3. \E allow : Settle("strand", skts, allow, phase, remote, announced)
    BY <1>3 DEF ClearRest
  <2> HIDE DEF skts
  <2> QED
    BY <2>1, <2>2, <2>3, NothingDestroyed DEF skts
<1> QED
  BY <1>1, <1>2, <1>3

LEMMA LoneStrand ==
  ASSUME IInv, IInv', Lone, StrandStep
  PROVE  Lone'
<1> USE DEF IInv, TypeOK, LocalsOK, Lone, Threads, At, Goto, Vecs, Members
<1>1. pc'["timer"] = "idle"
  BY TimerStays DEF Lone
<1>2. ASSUME NEW s \in Sockets, Abort("strand", s), pc["strand"] # "recheck"
      PROVE  Lone'
  <2>1. sockets' = sockets
    BY <1>2, CalmAbort DEF Calmly
  <2> QED
    BY <1>1, <1>2, <2>1 DEF Abort, Return
<1>3. ASSUME NEW s \in Servers, ServerAuthAssign(s) PROVE Lone'
  BY <1>1, <1>3, HubAssumption DEF ServerAuthAssign, FindOrNew
<1>4. ASSUME NEW s \in Servers,
             AcceptCommand(s) \/ AbortAllClient(s) \/ \E c \in Clients : ToClient(s, c)
      PROVE  Lone'
  BY <1>1, <1>4 DEF AcceptCommand, AbortAllClient, ToClient, Receives
<1>5. CASE ServerAuthInsert
  BY <1>1, <1>5, HubAssumption DEF ServerAuthInsert
<1>6. CASE PushAllClients \/ AdvertiseOnline
  BY <1>1, <1>6 DEF PushAllClients, AdvertiseOnline
<1>7. CASE \/ ServerAuthDone \/ SendbackOnline \/ ClientAuthDone
           \/ MarkAllowAccept \/ ClientReached \/ Forwarded
  <2>1. sockets' = sockets
    BY <1>7, CalmReturns DEF Calmly, ClientReached
  <2>2. serverTable' = serverTable /\ clientTable' = clientTable /\ Return("strand")
    BY <1>7 DEF ServerAuthDone, SendbackOnline, ClientAuthDone, MarkAllowAccept,
                ClientReached, Forwarded
  <2> QED
    BY <1>1, <2>1, <2>2 DEF Return
<1>8. ASSUME NEW c \in Clients, ClientAuthCheck(c) PROVE Lone'
  BY <1>1, <1>8, HubAssumption DEF ClientAuthCheck, FindOrNew, Admissible
<1>9. ASSUME NEW c \in Clients, Forward(c) PROVE Lone'
  BY <1>1, <1>9 DEF Forward, Receives
<1>10. CASE ClientAuthMark \/ ClientAuthAnnounce
  BY <1>1, <1>10 DEF ClientAuthMark, ClientAuthAnnounce
<1>11. CASE ClientAuthNext
  BY <1>1, <1>11, HubAssumption DEF ClientAuthNext
<1>12. CASE ClientAuthInsert
  BY <1>1, <1>12, HubAssumption DEF ClientAuthInsert
<1>13. CASE \/ ClientAuthLimit \/ ClientAuthNoServer \/ ClientAuthRefused
            \/ \E c \in Clients : ClientAuthReject(c) \/ ForwardNowhere(c)
            \/ \E s \in Servers : AcceptCommandLost(s)
  <2>1. \E x \in Sockets : Abort("strand", x) /\ pc["strand"] # "recheck"
    BY <1>13 DEF ClientAuthLimit, ClientAuthNoServer, ClientAuthRefused,
                 ClientAuthReject, ForwardNowhere, AcceptCommandLost, Sockets
  <2> QED
    BY <1>2, <2>1
<1> QED
  BY <1>3, <1>4, <1>5, <1>6, <1>7, <1>8, <1>9, <1>10, <1>11, <1>12, <1>13
  DEF StrandStep

LEMMA LoneCleanup ==
  ASSUME IInv, IInv', Unreferring', ServerUnreferring', Lone,
         AbortStep("strand") \/ Environment
  PROVE  Lone'
<1> USE DEF IInv, TypeOK, LocalsOK, Lone, Threads, At, Goto, Vecs, Members
<1>1. pc'["timer"] = "idle"
  BY TimerStays DEF Lone
<1>2. ASSUME NEW s \in Sockets, Abort("strand", s), pc["strand"] # "recheck"
      PROVE  Lone'
  <2>1. sockets' = sockets
    BY <1>2, CalmAbort DEF Calmly
  <2> QED
    BY <1>1, <1>2, <2>1 DEF Abort, Return
<1>3. CASE \E s \in Sockets : AbortBegin("strand", s)
  BY <1>2, <1>3 DEF AbortBegin
<1>4. CASE AbortFind("strand")
  BY <1>1, <1>4 DEF AbortFind, Return
<1>5. CASE AbortRemove("strand")
  <2>1. /\ \A v \in Vecs : sockets'[v] \subseteq sockets[v]
        /\ serverTable' = serverTable /\ clientTable' = clientTable
    BY <1>5, CalmRemovals DEF Calmly, AbortRemove
  <2> QED
    BY <1>1, <1>5, <2>1 DEF AbortRemove, Return
<1>6. CASE AbortErase("strand")
  <2>1. sockets' = sockets
    BY <1>6, CalmRemovals DEF Calmly
  <2>2. Mine("strand") = IF who["strand"] \in Servers THEN serverTable ELSE clientTable
    BY <1>6, HubAssumption DEF AbortErase, Mine, IsServer
  <2>3. pc'["strand"] = "recheck"
    BY <1>6 DEF AbortErase
  <2> QED
    BY <1>1, <1>6, <2>1, <2>2, <2>3 DEF AbortErase, IsServer
<1>7. CASE AbortRecheck("strand")
  <2>1. sockets' = sockets
    BY <1>7, CalmReturns DEF Calmly
  <2>2. /\ serverTable' = serverTable /\ clientTable' = clientTable
        /\ pc'["strand"] \in {"sayAbort", "clearFind", "offline", "idle"}
        /\ pc'["strand"] = "clearFind" => who'["strand"] \in Servers
    BY <1>7 DEF AbortRecheck, Return, IsServer
  <2>3. sv'["strand"] = NoVec /\ cv'["strand"] = NoVec
    BY <2>2 DEF Unreferring, ServerUnreferring
  <2> QED
    BY <1>1, <2>1, <2>2, <2>3
<1>8. CASE SayAbort("strand")
  BY <1>1, <1>8 DEF SayAbort, Return
<1>9. CASE Saying("strand")
  <2>1. sockets' = sockets
    BY <1>9, CalmReturns DEF Calmly
  <2> QED
    BY <1>1, <1>9, <2>1 DEF Saying, Return
<1>10. CASE ClearNothing("strand")
  <2>1. CASE phase[who["strand"]] = "closed"
    BY <1>1, <1>10, <2>1 DEF ClearNothing
  <2>2. CASE phase[who["strand"]] # "closed"
    BY <1>2, <1>10, <2>2 DEF ClearNothing
  <2> QED
    BY <2>1, <2>2
<1>11. CASE \/ ClearFind("strand") \/ ClearSnapshot("strand")
            \/ ClearClose("strand") \/ SendbackOffline("strand")
  BY <1>1, <1>11 DEF ClearFind, ClearSnapshot, ClearClose, SendbackOffline
<1>12. CASE ClearRemove("strand")
  <2>1. \A v \in Vecs : sockets'[v] \subseteq sockets[v]
    BY <1>12 DEF ClearRemove
  <2>2. pc'["strand"] \in {"closing", "closeOne"}
    BY <1>12 DEF ClearRemove
  <2> QED
    BY <1>1, <1>12, <2>1, <2>2 DEF ClearRemove
<1>13. CASE ClearRest("strand")
  <2>1. /\ \A v \in Vecs : sockets'[v] \subseteq sockets[v]
        /\ serverTable' = serverTable /\ clientTable' = clientTable
    BY <1>13, CalmRemovals DEF Calmly, ClearRest
  <2> QED
    BY <1>1, <1>13, <2>1 DEF ClearRest, Return
<1>14. CASE AdvertiseOffline("strand")
  BY <1>1, <1>14 DEF AdvertiseOffline, Return
<1>15. CASE Environment
  BY <1>15 DEF Environment, Accept, Recycle, SilentLoss, local
<1> QED
  BY <1>3, <1>4, <1>5, <1>6, <1>7, <1>8, <1>9, <1>10, <1>11, <1>12, <1>13,
     <1>14, <1>15 DEF AbortStep

-----------------------------------------------------------------------------
(* What the peers of the strand alone know.                                *)

\* The server table, as TableInv has it, when the strand is alone.
LEMMA LoneServers ==
  ASSUME IInv, Lone, HostedNow
  PROVE  /\ \A s \in Servers :
              phase[s] = "established" => s \in Members(serverTable)
         /\ \A m \in Members(serverTable) :
              /\ m \in Servers
              /\ \/ phase[m] = "established"
                 \/ pc["strand"] \in {"sDone", "find", "remove"} /\ m = who["strand"]
         /\ pc["strand"] \in {"find", "remove"} /\ who["strand"] \in Servers
              => phase[who["strand"]] = "closed" /\ who["strand"] \in Members(serverTable)
         /\ pc["strand"] = "sInsert"
              => \A m \in Members(serverTable) : link[m] # link[who["strand"]]
         /\ \A s \in Servers :
              phase[s] \in {"none", "opened"} /\ pc["strand"] \notin {"sInsert", "sDone"}
                => link[s] = NoLink
<1> USE DEF IInv, TypeOK, Lone, HostedNow, Hosted, Members, Threads, Vecs
<1>1. \A v \in ServerVecs : \A m \in sockets[v] :
        v = serverTable /\ v # NoVec /\ m \in Members(serverTable) /\ m \in Servers
  BY HubAssumption
<1>2. \A m \in Members(serverTable) : serverTable # NoVec /\ m \in sockets[serverTable]
  OBVIOUS
<1>3. \A m \in Members(serverTable) :
        \/ phase[m] = "established"
        \/ pc["strand"] \in {"sDone", "find", "remove"} /\ m = who["strand"]
  BY <1>2 DEF MemberNamed, ClosedLeaves
<1>4. \A s \in Servers : phase[s] = "established" => s \in Members(serverTable)
  BY <1>1 DEF ServerKnown
<1>5. pc["strand"] \in {"find", "remove"} /\ who["strand"] \in Servers
        => phase[who["strand"]] = "closed" /\ who["strand"] \in Members(serverTable)
  BY <1>1 DEF Removing
<1>6. pc["strand"] = "sInsert"
        => \A m \in Members(serverTable) : link[m] # link[who["strand"]]
  BY <1>2 DEF Registering
<1>7. \A s \in Servers :
        phase[s] \in {"none", "opened"} /\ pc["strand"] \notin {"sInsert", "sDone"}
          => link[s] = NoLink
  BY DEF ServerKnown
<1> QED
  BY <1>1, <1>3, <1>4, <1>5, <1>6, <1>7

LEMMA PeersAbort ==
  ASSUME IInv, Lone, HostedNow, PeersInv, NEW s \in Sockets, Abort("strand", s),
         pc["strand"] \in {"idle", "cMark", "cSend", "cSending", "clearFind"},
         phase[s] # "closed" \/ s \in Clients,
         pc["strand"] = "clearFind" => phase[who["strand"]] # "closed"
  PROVE  PeersInv'
<1> USE DEF IInv, TypeOK, Threads, Goto, Return
<1>1. phase' = [phase EXCEPT ![s] = "closed"]
  BY CalmAbort DEF Calmly
<1>2. advertised' = advertised /\ offline' = offline
  BY DEF Abort, peer
<1>3. /\ link[s] = NoLink => pc'["strand"] = "idle"
      /\ link[s] # NoLink => pc'["strand"] = "find" /\ who'["strand"] = s
  BY DEF Abort
<1>4. (advertised <=> ~NoneUp(phase)) /\ (offline => NoneUp(phase))
  <2>1. InView(pc["strand"], who["strand"], phase)
    BY DEF InView, Leaving, Left, Clearing
  <2> QED
    BY <2>1 DEF PeersInv, PeersAt
<1>5. CASE s \in Servers /\ phase[s] = "established"
  <2>1. advertised /\ ~offline
    BY <1>4, <1>5 DEF NoneUp
  <2>2. link[s] # NoLink
    BY <1>5, LoneServers, HubAssumption
    DEF HostedNow, Hosted, MemberNamed, Members, Vecs
  <2> QED
    BY <1>1, <1>2, <1>3, <1>5, <2>1, <2>2
    DEF PeersInv, PeersAt, InView, Leaving, Left, Backed, Clearing, Sockets
<1>6. CASE ~(s \in Servers /\ phase[s] = "established")
  <2>1. NoneUp(phase') <=> NoneUp(phase)
    BY <1>1, <1>6, HubAssumption DEF NoneUp, Sockets
  <2>2. s \in Servers => link[s] = NoLink
    BY <1>6, LoneServers, HubAssumption DEF Sockets
  <2> HIDE DEF NoneUp
  <2> QED
    BY <1>2, <1>3, <1>4, <2>1, <2>2
    DEF PeersInv, PeersAt, InView, Leaving, Left, Backed, Clearing
<1> QED
  BY <1>5, <1>6

\* A step that tells the peers nothing and changes nothing they should know.
LEMMA PeersPlain ==
  ASSUME NEW p, NEW w, NEW ph, NEW adv, NEW off, NEW p2, NEW w2, NEW ph2,
         PeersAt(p, w, ph, adv, off), InView(p, w, ph), InView(p2, w2, ph2),
         NoneUp(ph2) <=> NoneUp(ph),
         p2 \in Backed => p \in Backed \/ ~NoneUp(ph)
  PROVE  PeersAt(p2, w2, ph2, adv, off)
<1>1. (adv <=> ~NoneUp(ph2)) /\ (off => NoneUp(ph2))
  BY Zenon DEF PeersAt
<1>2. p2 \in Backed => ~NoneUp(ph2)
  BY Zenon DEF PeersAt
<1>3. /\ p2 \notin {"sOnline", "advertise", "offline"}
      /\ ~Leaving(p2, w2) /\ ~Left(p2, w2, ph2)
  BY DEF InView, Left
<1> QED
  BY <1>1, <1>2, <1>3 DEF PeersAt

LEMMA PeersStrand ==
  ASSUME IInv, Lone, HostedNow, PeersInv, StrandStep
  PROVE  PeersInv'
<1> USE DEF IInv, TypeOK, LocalsOK, Threads, At, Goto
<1> DEFINE p == pc["strand"]
           w == who["strand"]
           p2 == pc'["strand"]
           w2 == who'["strand"]
<1>1. ASSUME NEW s \in Servers,
             \/ ServerAuthAssign(s) \/ AcceptCommand(s) \/ AbortAllClient(s)
             \/ \E c \in Clients : ToClient(s, c)
      PROVE  PeersInv'
  <2>1. /\ phase' = phase /\ advertised' = advertised /\ offline' = offline
        /\ p = "idle"
        /\ \/ p2 \in {"sInsert", "mark", "prevent", "kick", "down"}
           \/ p2 = "clearFind" /\ w2 = s /\ phase[s] = "established"
    <3>1. CASE ServerAuthAssign(s)
      <4>1. /\ At("strand", "idle") /\ Goto("strand", "sInsert")
            /\ phase' = phase /\ peer' = peer
        BY <3>1, Zenon DEF ServerAuthAssign
      <4> QED
        BY <4>1 DEF peer
    <3>2. CASE AcceptCommand(s)
      BY <3>2 DEF AcceptCommand, Receives, peer
    <3>3. CASE AbortAllClient(s)
      BY <3>3 DEF AbortAllClient, Receives, peer
    <3>4. CASE \E c \in Clients : ToClient(s, c)
      BY <3>4 DEF ToClient, Receives, peer
    <3> QED
      BY <1>1, <3>1, <3>2, <3>3, <3>4
  <2>2. InView(p, w, phase) /\ InView(p2, w2, phase')
    BY <2>1 DEF InView, Leaving, Left, Clearing
  <2>3. p2 \notin Backed
    BY <2>1 DEF Backed
  <2> QED
    BY <2>1, <2>2, <2>3, PeersPlain DEF PeersInv
<1>2. CASE ServerAuthInsert
  <2>1. /\ p = "sInsert" /\ w \in Servers /\ sv["strand"] = serverTable
        /\ advertised' = advertised /\ offline' = offline /\ w2 = w
        /\ Members(serverTable) = sockets[sv["strand"]]
    BY <1>2, HubAssumption DEF ServerAuthInsert, Lone, peer, Members, Vecs
  <2>2. CASE Inserted(sv["strand"], w) = {w}
    <3>1. phase'[w] = "established" /\ p2 = "sPush"
      BY <1>2, <2>1, <2>2 DEF ServerAuthInsert, Sockets
    <3>2. ~NoneUp(phase')
      BY <2>1, <3>1 DEF NoneUp
    <3> QED
      BY <2>1, <3>1, <3>2 DEF PeersInv, PeersAt, InView, Leaving, Left, Clearing
  <2>3. CASE Inserted(sv["strand"], w) # {w}
    <3>1. phase' = phase /\ p2 = "sDone"
      BY <1>2, <2>1, <2>3 DEF ServerAuthInsert, Sockets
    <3>2. PICK m \in Members(serverTable) : m # w
      BY <2>1, <2>3 DEF Inserted
    <3>3. ~NoneUp(phase)
      BY <2>1, <3>2, LoneServers DEF NoneUp
    <3>4. InView(p, w, phase) /\ InView(p2, w2, phase')
      BY <2>1, <3>1 DEF InView, Leaving, Left, Clearing
    <3> QED
      BY <2>1, <3>1, <3>3, <3>4, PeersPlain DEF PeersInv
  <2> QED
    BY <2>2, <2>3
<1>3. CASE ServerAuthDone
  <2>1. /\ p = "sDone" /\ w \in Servers /\ p2 = "idle"
        /\ phase' = [phase EXCEPT ![w] = "established"]
        /\ advertised' = advertised /\ offline' = offline
    BY <1>3, CalmReturns DEF ServerAuthDone, peer, Return, Calmly
  <2>2. ~NoneUp(phase) /\ ~NoneUp(phase')
    BY <2>1 DEF PeersInv, PeersAt, Backed, NoneUp, Sockets
  <2>3. InView(p, w, phase) /\ InView(p2, w2, phase')
    BY <2>1 DEF InView, Leaving, Left, Clearing
  <2> QED
    BY <2>1, <2>2, <2>3, PeersPlain DEF PeersInv
<1>4. CASE PushAllClients
  BY <1>4 DEF PushAllClients, PeersInv, PeersAt, InView, Leaving, Left, Clearing,
              Backed
<1>5. CASE AdvertiseOnline
  BY <1>5 DEF AdvertiseOnline, PeersInv, PeersAt, InView, Leaving, Left, Clearing,
              Backed
<1>6. CASE SendbackOnline
  <2>1. /\ p = "sOnline" /\ p2 = "idle" /\ phase' = phase
        /\ advertised' = advertised /\ offline' = FALSE
    BY <1>6, CalmReturns DEF SendbackOnline, Return, Calmly
  <2>2. advertised /\ ~NoneUp(phase)
    BY <2>1 DEF PeersInv, PeersAt, Backed
  <2> QED
    BY <2>1, <2>2 DEF PeersInv, PeersAt, InView, Leaving, Left, Clearing, Backed
<1>7. ASSUME NEW c \in Clients, ClientAuthCheck(c) PROVE PeersInv'
  <2>1. /\ phase' = phase /\ advertised' = advertised /\ offline' = offline
        /\ p = "idle" /\ p2 = "cMark" /\ Admissible
    BY <1>7 DEF ClientAuthCheck, peer
  <2>2. PICK m : m \in Members(serverTable)
    BY <2>1 DEF Admissible, Members
  <2>3. ~NoneUp(phase)
    BY <2>1, <2>2, LoneServers DEF NoneUp
  <2>4. InView(p, w, phase) /\ InView(p2, w2, phase')
    BY <2>1 DEF InView, Leaving, Left, Clearing
  <2> QED
    BY <2>1, <2>3, <2>4, PeersPlain DEF PeersInv
<1>8. CASE \/ ClientAuthMark \/ ClientAuthNext \/ ClientAuthAnnounce
           \/ ClientAuthInsert \/ \E c \in Clients : Forward(c)
  <2>1. /\ phase' = phase /\ advertised' = advertised /\ offline' = offline
        /\ \/ p \in {"cMark", "cSend", "cSending", "cInsert"}
              /\ p2 \in {"cSend", "cSending", "cInsert", "cDone"}
           \/ p = "idle" /\ p2 = "forward"
    BY <1>8 DEF ClientAuthMark, ClientAuthNext, ClientAuthAnnounce,
                ClientAuthInsert, Forward, Receives, peer
  <2>2. InView(p, w, phase) /\ InView(p2, w2, phase')
    BY <2>1 DEF InView, Leaving, Left, Clearing
  <2>3. (p2 \in Backed => p \in Backed) /\ p2 \notin Clearing
    BY <2>1 DEF Backed, Clearing
  <2> QED
    BY <2>1, <2>2, <2>3, PeersPlain DEF PeersInv
<1>9. CASE ClientAuthDone \/ MarkAllowAccept \/ ClientReached \/ Forwarded
  <2>1. /\ \A s \in Servers : phase'[s] = phase[s]
        /\ advertised' = advertised /\ offline' = offline
        /\ p \in {"cDone", "mark", "prevent", "kick", "down", "forward"}
        /\ p2 = "idle"
    <3>1. CASE ClientAuthDone \/ ClientReached
      BY <3>1, CalmReturns, HubAssumption
      DEF ClientAuthDone, ClientReached, Return, Calmly, peer, Sockets
    <3>2. CASE MarkAllowAccept \/ Forwarded
      BY <3>2, CalmReturns DEF MarkAllowAccept, Forwarded, Return, Calmly, peer
    <3> QED
      BY <1>9, <3>1, <3>2
  <2>2. NoneUp(phase') <=> NoneUp(phase)
    BY <2>1 DEF NoneUp
  <2>3. InView(p, w, phase) /\ InView(p2, w2, phase')
    BY <2>1 DEF InView, Leaving, Left, Clearing
  <2>4. p2 \notin Backed /\ p2 \notin Clearing
    BY <2>1 DEF Backed, Clearing
  <2> QED
    BY <2>1, <2>2, <2>3, <2>4, PeersPlain DEF PeersInv
<1>10. CASE \/ ClientAuthLimit \/ ClientAuthNoServer \/ ClientAuthRefused
            \/ \E c \in Clients : ClientAuthReject(c) \/ ForwardNowhere(c)
            \/ \E s \in Servers : AcceptCommandLost(s)
  <2>1. \E x \in Sockets :
          /\ Abort("strand", x) /\ p \in {"idle", "cMark", "cSend", "cSending"}
          /\ phase[x] # "closed" \/ x \in Clients
    BY <1>10 DEF ClientAuthLimit, ClientAuthNoServer, ClientAuthRefused,
                 ClientAuthReject, ForwardNowhere, AcceptCommandLost, Sockets
  <2> QED
    BY <2>1, PeersAbort
<1> QED
  BY <1>1, <1>2, <1>3, <1>4, <1>5, <1>6, <1>7, <1>8, <1>9, <1>10 DEF StrandStep

LEMMA PeersCleanup ==
  ASSUME IInv, Lone, HostedNow, PeersInv, AbortStep("strand") \/ Environment
  PROVE  PeersInv'
<1> USE DEF IInv, TypeOK, LocalsOK, Threads, At, Goto
<1> DEFINE p == pc["strand"]
           w == who["strand"]
           p2 == pc'["strand"]
           w2 == who'["strand"]
<1>1. CASE \E s \in Sockets : AbortBegin("strand", s)
  BY <1>1, PeersAbort DEF AbortBegin
<1>2. CASE w \in Clients /\ (AbortFind("strand") \/ AbortRemove("strand")
              \/ AbortErase("strand") \/ AbortRecheck("strand")
              \/ SayAbort("strand") \/ Saying("strand"))
  <2>1. /\ phase' = phase /\ advertised' = advertised /\ offline' = offline
        /\ p \in {"find", "remove", "erase", "recheck", "sayAbort", "saying"}
        /\ \/ p2 = "idle"
           \/ /\ p2 \in {"remove", "erase", "recheck", "sayAbort", "saying"}
              /\ w2 = w
    <3>1. CASE AbortFind("strand")
      BY <3>1 DEF AbortFind, Return, peer
    <3>2. CASE AbortRemove("strand") \/ AbortErase("strand")
      BY <3>2, CalmRemovals DEF AbortRemove, AbortErase, Return, peer, Calmly
    <3>3. CASE AbortRecheck("strand")
      BY <1>2, <3>3, CalmReturns, HubAssumption
      DEF AbortRecheck, Return, peer, Calmly, IsServer
    <3>4. CASE SayAbort("strand") \/ Saying("strand")
      BY <3>4, CalmReturns DEF SayAbort, Saying, Return, peer, Calmly
    <3> QED
      BY <1>2, <3>1, <3>2, <3>3, <3>4
  <2>2. InView(p, w, phase) /\ InView(p2, w2, phase')
    BY <1>2, <2>1, HubAssumption DEF InView, Leaving, Left, Clearing
  <2>3. p2 \notin Backed /\ p2 \notin Clearing
    BY <2>1 DEF Backed, Clearing
  <2> QED
    BY <2>1, <2>2, <2>3, PeersPlain DEF PeersInv
<1>3. CASE w \in Servers /\ (AbortFind("strand") \/ AbortRemove("strand")
              \/ AbortErase("strand"))
  <2>1. p \in {"find", "remove", "erase"}
    BY <1>3 DEF AbortFind, AbortRemove, AbortErase
  <2>2. phase[w] = "closed" /\ advertised /\ ~offline
    BY <1>3, <2>1 DEF PeersInv, PeersAt, Leaving
  <2>3. /\ phase' = phase /\ advertised' = advertised /\ offline' = offline
        /\ p2 \in {"remove", "erase", "recheck"} /\ w2 = w
    <3>1. CASE AbortFind("strand")
      <4>1. serverTable # NoVec
        BY <1>3, <3>1, LoneServers DEF AbortFind, Members
      <4> QED
        BY <1>3, <3>1, <4>1 DEF AbortFind, peer, IsServer
    <3>2. CASE AbortRemove("strand")
      <4>1. w \in sockets[Mine("strand")]
        BY <1>3, <3>2, LoneServers, HubAssumption
        DEF AbortRemove, Members, Mine, IsServer, Lone, Vecs
      <4>2. p2 = "erase" /\ w2 = w
        BY <3>2, <4>1 DEF AbortRemove
      <4> QED
        BY <3>2, <4>2, CalmRemovals DEF AbortRemove, peer, Calmly
    <3>3. CASE AbortErase("strand")
      BY <3>3, CalmRemovals DEF AbortErase, peer, Calmly
    <3> QED
      BY <1>3, <3>1, <3>2, <3>3
  <2>4. Leaving(p2, w2) /\ p2 \notin Backed \cup Clearing
    BY <1>3, <2>3 DEF Leaving, Backed, Clearing
  <2> QED
    BY <2>2, <2>3, <2>4 DEF PeersInv, PeersAt, InView, Left, Clearing
<1>4. CASE w \in Servers /\ AbortRecheck("strand")
  <2>1. p = "recheck" /\ sv["strand"] \in ServerVecs /\ Mine("strand") = sv["strand"]
    BY <1>4 DEF AbortRecheck, Mine, IsServer
  <2>2. phase[w] = "closed" /\ advertised /\ ~offline
    BY <1>4, <2>1 DEF PeersInv, PeersAt, Leaving
  <2>3. phase' = phase /\ advertised' = advertised /\ offline' = offline
    BY <1>4, CalmReturns DEF AbortRecheck, peer, Calmly
  <2>4. CASE sockets[sv["strand"]] = {}
    <3>1. NoneUp(phase)
      BY <2>1, <2>4, LoneServers, HubAssumption DEF NoneUp, Members, Lone, Vecs
    <3>2. p2 \in {"clearFind", "offline"} /\ w2 = w
      BY <1>4, <2>1, <2>4 DEF AbortRecheck, IsServer
    <3>3. Left(p2, w2, phase')
      BY <2>2, <2>3, <3>2 DEF Left, Clearing
    <3> QED
      BY <1>4, <2>2, <2>3, <3>1, <3>2, <3>3
      DEF PeersInv, PeersAt, InView, Leaving, Backed, Clearing
  <2>5. CASE sockets[sv["strand"]] # {}
    <3>1. PICK m : m \in Members(serverTable)
      BY <2>1, <2>5, HubAssumption DEF Lone, Members, Vecs
    <3>2. ~NoneUp(phase)
      BY <2>1, <3>1, LoneServers DEF NoneUp
    <3>3. p2 = "idle"
      BY <1>4, <2>1, <2>5 DEF AbortRecheck, IsServer, Return
    <3> QED
      BY <2>2, <2>3, <3>2, <3>3
      DEF PeersInv, PeersAt, InView, Leaving, Left, Backed, Clearing
  <2> QED
    BY <2>4, <2>5
<1>5. CASE ClearNothing("strand")
  <2>1. CASE phase[w] = "closed"
    <3>1. /\ phase' = phase /\ advertised' = advertised /\ offline' = offline
          /\ p = "clearFind" /\ p2 = "offline" /\ w2 = w
      BY <1>5, <2>1 DEF ClearNothing, peer
    <3> QED
      BY <2>1, <3>1 DEF PeersInv, PeersAt, InView, Leaving, Left, Backed, Clearing
  <2>2. CASE phase[w] # "closed"
    BY <1>5, <2>2, PeersAbort DEF ClearNothing
  <2> QED
    BY <2>1, <2>2
<1>6. CASE \/ ClearFind("strand") \/ ClearSnapshot("strand")
           \/ ClearRemove("strand") \/ ClearClose("strand")
  <2>1. /\ \A s \in Servers : phase'[s] = phase[s]
        /\ advertised' = advertised /\ offline' = offline
        /\ p \in Clearing /\ p2 \in Clearing /\ w2 = w
    <3>1. CASE ClearFind("strand") \/ ClearSnapshot("strand") \/ ClearRemove("strand")
      BY <3>1 DEF ClearFind, ClearSnapshot, ClearRemove, peer, Clearing
    <3>2. CASE ClearClose("strand")
      BY <3>2, HubAssumption DEF ClearClose, peer, Clearing
    <3> QED
      BY <1>6, <3>1, <3>2
  <2>2. /\ NoneUp(phase') <=> NoneUp(phase)
        /\ w \in Servers
    BY <2>1 DEF NoneUp, Lone, Clearing
  <2>3. CASE phase[w] = "closed"
    BY <2>1, <2>2, <2>3 DEF PeersInv, PeersAt, InView, Leaving, Left, Backed, Clearing
  <2>4. CASE phase[w] # "closed"
    <3>1. InView(p, w, phase) /\ InView(p2, w2, phase')
      BY <2>1, <2>2, <2>4 DEF InView, Leaving, Left, Clearing
    <3>2. p2 \notin Backed
      BY <2>1 DEF Backed, Clearing
    <3> QED
      BY <2>1, <2>2, <3>1, <3>2, PeersPlain DEF PeersInv
  <2> QED
    BY <2>3, <2>4
<1>7. CASE ClearRest("strand")
  <2>1. /\ phase' = phase /\ advertised' = advertised /\ offline' = offline
        /\ p = "closing"
    BY <1>7, CalmRemovals DEF ClearRest, peer, Calmly
  <2>2. CASE phase[w] = "closed"
    <3>1. p2 = "offline" /\ w2 = w
      BY <1>7, <2>2 DEF ClearRest
    <3> QED
      BY <2>1, <2>2, <3>1 DEF PeersInv, PeersAt, InView, Leaving, Left, Backed, Clearing
  <2>3. CASE phase[w] # "closed"
    <3>1. p2 = "idle"
      BY <1>7, <2>3 DEF ClearRest, Return
    <3> QED
      BY <2>1, <2>3, <3>1 DEF PeersInv, PeersAt, InView, Leaving, Left, Backed, Clearing
  <2> QED
    BY <2>2, <2>3
<1>8. CASE SendbackOffline("strand")
  BY <1>8 DEF SendbackOffline, PeersInv, PeersAt, InView, Leaving, Left, Backed,
              Clearing
<1>9. CASE AdvertiseOffline("strand")
  BY <1>9 DEF AdvertiseOffline, Return, PeersInv, PeersAt, InView, Leaving, Left,
              Backed, Clearing
<1>10. CASE Environment
  <2>1. /\ p2 = p /\ w2 = w /\ advertised' = advertised /\ offline' = offline
        /\ \A s \in Sockets : /\ phase'[s] = "established" <=> phase[s] = "established"
                              /\ phase'[s] = "closed" => phase[s] = "closed"
                              /\ s = w => (phase'[s] = "closed" <=> phase[s] = "closed")
    BY <1>10 DEF Environment, Accept, Recycle, SilentLoss, local, peer
  <2>2. /\ NoneUp(phase') <=> NoneUp(phase)
        /\ w \in Servers => (phase'[w] = "closed" <=> phase[w] = "closed")
    BY <2>1 DEF NoneUp, Sockets
  <2> QED
    BY <2>1, <2>2 DEF PeersInv, PeersAt, InView, Leaving, Left, Backed, Clearing
<1> QED
  BY <1>1, <1>2, <1>3, <1>4, <1>5, <1>6, <1>7, <1>8, <1>9, <1>10
  DEF AbortStep, AbortFind, AbortRemove, AbortErase, AbortRecheck, SayAbort, Saying,
      Sockets

LEMMA LoneInit ==
  ASSUME Init
  PROVE  Lone /\ PeersInv
<1>1. /\ \A t \in Threads : pc[t] = "idle" /\ sv[t] = NoVec /\ cv[t] = NoVec
      /\ \A v \in Vecs : sockets[v] = {}
      /\ \A s \in Servers : phase[s] = "none"
      /\ ~advertised /\ ~offline
  BY DEF Init, Sockets
<1>2. Lone
  BY <1>1 DEF Lone, Threads, Vecs
<1>3. PeersInv
  BY <1>1 DEF PeersInv, PeersAt, InView, NoneUp, Leaving, Left, Backed, Clearing,
              Threads
<1> QED
  BY <1>2, <1>3

LEMMA LoneStep ==
  ASSUME "timer" \notin Faults, IInv, Unreferring, ServerUnreferring, Lone,
         [Next]_vars
  PROVE  /\ Lone'
         /\ \/ StrandStep \/ AbortStep("strand") \/ Environment
            \/ UNCHANGED vars
<1>1. IInv' /\ Unreferring' /\ ServerUnreferring'
  BY StepTyped, UnreferringStep, ServerUnreferringStep
<1>2. CASE Next
  <2>1. StrandStep \/ AbortStep("strand") \/ Environment
    BY <1>2, StrandOrTimer DEF Lone
  <2> QED
    BY <1>1, <2>1, LoneStrand, LoneCleanup
<1>3. CASE UNCHANGED vars
  BY <1>3 DEF vars, local, Lone, Members
<1> QED
  BY <1>2, <1>3

\* When no handler runs, the other inner servers have last been told that the
\* group is online exactly if one of its inner servers is established, and the
\* sendback controller has it down as offline only if none is: as long as the
\* strand alone runs the handlers, so that the notices of a loss and those of
\* a return cannot pass each other, and there are numbers for all inner
\* servers.
THEOREM PeersTold ==
  ASSUME "timer" \notin Faults, Cardinality(Servers) <= Cardinality(LinkNos)
  PROVE  Spec => []PeersAgree
<1> DEFINE Inv == IInv /\ Unreferring /\ TableInv /\ Lone /\ PeersInv
<1>1. Init => Inv
  BY TableInit, LoneInit DEF Init, Unreferring, Threads
<1>2. Inv /\ [Next]_vars => Inv'
  <2> SUFFICES ASSUME Inv, [Next]_vars PROVE Inv'
    OBVIOUS
  <2>1. IInv' /\ Unreferring' /\ TableInv'
    BY StepTyped, UnreferringStep, TableStep DEF Lone
  <2>2. /\ Lone'
        /\ \/ StrandStep \/ AbortStep("strand") \/ Environment
           \/ UNCHANGED vars
    BY LoneStep DEF TableInv
  <2>3. PeersInv'
    <3>1. HostedNow
      BY DEF TableInv, HostedNow
    <3>2. CASE UNCHANGED vars
      BY <3>2 DEF vars, local, peer, PeersInv
    <3> QED
      BY <2>2, <3>1, <3>2, PeersStrand, PeersCleanup
  <2> QED
    BY <2>1, <2>2, <2>3
<1>3. Inv => PeersAgree
  <2> SUFFICES ASSUME Inv, Quiet
               PROVE  /\ advertised <=> Established(Servers) # {}
                      /\ offline => Established(Servers) = {}
    BY DEF PeersAgree
  <2>1. pc["strand"] = "idle"
    BY DEF Quiet, At, Threads
  <2>2. InView(pc["strand"], who["strand"], phase)
    BY <2>1 DEF InView, Leaving, Left, Clearing
  <2>3. NoneUp(phase) <=> Established(Servers) = {}
    BY DEF NoneUp, Established
  <2> QED
    BY <2>2, <2>3 DEF PeersInv, PeersAt
<1> QED
  BY <1>1, <1>2, <1>3, PTL DEF Spec

-----------------------------------------------------------------------------
(* Where the strand alone keeps the clients.                               *)

\* The client table, as Placing has it, when the strand is alone.
LEMMA LoneClients ==
  ASSUME IInv, Lone, Outside, NumberFree
  PROVE  /\ Members(clientTable) \subseteq Clients
         /\ pc["strand"] \in Admitting \cup {"cMark"} =>
              /\ who["strand"] \in Clients /\ phase[who["strand"]] = "opened"
              /\ who["strand"] \notin Members(clientTable)
              /\ cv["strand"] = clientTable /\ clientTable \in ClientVecs
         /\ pc["strand"] \in Admitting
              => \A m \in Members(clientTable) : link[m] # link[who["strand"]]
         /\ \A m \in Members(clientTable) :
              \/ phase[m] \in {"established", "closed"}
              \/ pc["strand"] = "cDone" /\ m = who["strand"]
<1> USE DEF IInv, TypeOK, LocalsOK, Lone, Members, Vecs, Admitting
<1>1. pc["strand"] \in Admitting \cup {"cMark", "cDone"} =>
        /\ who["strand"] \in Clients
        /\ cv["strand"] = clientTable /\ clientTable \in ClientVecs
        /\ Members(clientTable) = sockets[clientTable]
  BY HubAssumption
<1>2. /\ Members(clientTable) \subseteq Clients
      /\ \A m \in Members(clientTable) :
           \/ phase[m] \in {"established", "closed"}
           \/ pc["strand"] = "cDone" /\ m = who["strand"]
  BY DEF Outside
<1>3. pc["strand"] \in Admitting \cup {"cMark"} =>
        /\ phase[who["strand"]] = "opened"
        /\ who["strand"] \notin Members(clientTable)
  BY <1>2 DEF Outside
<1>4. pc["strand"] \in Admitting
        => \A m \in Members(clientTable) : link[m] # link[who["strand"]]
  BY <1>1 DEF NumberFree
<1> QED
  BY <1>1, <1>2, <1>3, <1>4

\* A step that leaves the clients and their table alone.
LEMMA ClientsPlain ==
  ASSUME NEW p, NEW w, NEW x, NEW h, NEW M, NEW lk, NEW ph,
         NEW p2, NEW w2, NEW x2, NEW h2, NEW lk2, NEW ph2,
         ClientsAt(p, w, x, h, M, lk, ph), M \subseteq Clients,
         \A c \in Clients : lk2[c] = lk[c] /\ ph2[c] = ph[c],
         p \in {"cSend", "cSending", "cInsert"} \/ p2 \in {"cSend", "cSending", "cInsert"}
           => /\ w \in Clients /\ w2 = w
              /\ p \in {"cSend", "cSending", "cInsert"}
              /\ p2 \in {"cSend", "cSending", "cInsert"},
         p \notin {"cDone", "closeOne"},
         Dropping(p2, w2) => /\ Dropping(p, w) /\ w2 = w
                             /\ p2 \in {"find", "remove"} => p \in {"find", "remove"},
         p2 \notin {"cDone", "closing", "closeOne"}
  PROVE  ClientsAt(p2, w2, x2, h2, M, lk2, ph2)
<1>1. ASSUME NEW c \in Clients, lk2[c] # NoLink, ph2[c] \in {"none", "opened"}
      PROVE  c = w2 /\ p2 \in {"cSend", "cSending", "cInsert", "cDone"}
  <2>1. c = w /\ p \in {"cSend", "cSending", "cInsert", "cDone"}
    BY <1>1 DEF ClientsAt
  <2> QED
    BY <2>1
<1>2. /\ \A m, n \in M : lk2[m] = lk2[n] => m = n
      /\ \A m \in M : lk2[m] # NoLink
      /\ p2 \in {"cSend", "cSending", "cInsert"} => lk2[w2] # NoLink
  BY DEF ClientsAt
<1>3. \A c \in Clients : ph2[c] = "established" => c \in M
  BY DEF ClientsAt
<1>4. Dropping(p2, w2) =>
        /\ ph2[w2] = "closed"
        /\ p2 \in {"find", "remove"} => \A m \in M : lk2[m] = lk2[w2] => m = w2
  <2> SUFFICES ASSUME Dropping(p2, w2)
               PROVE  /\ ph2[w2] = "closed"
                      /\ p2 \in {"find", "remove"}
                           => \A m \in M : lk2[m] = lk2[w2] => m = w2
    OBVIOUS
  <2>1. w2 \in Clients /\ Dropping(p, w) /\ w2 = w
    BY DEF Dropping
  <2> HIDE DEF Dropping
  <2> QED
    BY <2>1 DEF ClientsAt
<1> QED
  BY <1>1, <1>2, <1>3, <1>4 DEF ClientsAt

LEMMA ClientsAbort ==
  ASSUME IInv, Lone, Outside, NumberFree, ClientsInv, NEW s \in Sockets,
         Abort("strand", s),
         \/ pc["strand"] = "idle" /\ phase[s] \in {"opened", "established"}
         \/ pc["strand"] \in {"cMark", "cSend", "cSending"} /\ s = who["strand"]
         \/ pc["strand"] = "clearFind" /\ s = who["strand"]
  PROVE  ClientsInv'
<1> USE DEF IInv, TypeOK, Threads, Goto, Return
<1> DEFINE p == pc["strand"]
           w == who["strand"]
           x == target["strand"]
           h == handles["strand"]
           M == Members(clientTable)
           p2 == pc'["strand"]
           w2 == who'["strand"]
           x2 == target'["strand"]
           h2 == handles'["strand"]
<1>1. /\ phase' = [phase EXCEPT ![s] = "closed"] /\ link' = link
      /\ sockets' = sockets /\ clientTable' = clientTable
  BY CalmAbort DEF Calmly, Abort
<1>2. /\ link[s] = NoLink => p2 = "idle"
      /\ link[s] # NoLink => p2 = "find" /\ w2 = s
  BY DEF Abort
<1>3. Members(clientTable)' = M /\ M \subseteq Clients
  BY <1>1, LoneClients DEF Members
<1>4. ClientsAt(p, w, x, h, M, link, phase)
  BY DEF ClientsInv
<1> HIDE DEF M
<1>5. CASE s \in Servers
  <2>1. \A c \in Clients : link'[c] = link[c] /\ phase'[c] = phase[c]
    BY <1>1, <1>5, HubAssumption DEF Sockets
  <2>2. p \in {"idle", "clearFind"}
    BY <1>5, LoneClients, HubAssumption DEF Admitting
  <2>3. p2 \in {"idle", "find"} /\ ~Dropping(p2, w2)
    BY <1>2, <1>5, HubAssumption DEF Dropping
  <2>4. ClientsAt(p2, w2, x2, h2, M, link', phase')
    BY <1>3, <1>4, <2>1, <2>2, <2>3, ClientsPlain
  <2> QED
    BY <1>3, <2>4 DEF ClientsInv
<1>6. CASE s \in Clients
  <2>1. p \in {"idle", "cMark", "cSend", "cSending"}
    BY <1>6, HubAssumption DEF Lone
  <2>2. \A c \in Clients : phase'[c] = IF c = s THEN "closed" ELSE phase[c]
    BY <1>1 DEF Sockets
  <2>3. ASSUME link[s] # NoLink
        PROVE  \A m \in M : link[m] = link[s] => m = s
    <3>1. CASE phase[s] = "established"
      <4>1. s \in M
        BY <1>4, <1>6, <2>1, <3>1 DEF ClientsAt
      <4> QED
        BY <1>4, <4>1 DEF ClientsAt
    <3>2. CASE phase[s] # "established"
      <4>1. phase[s] = "opened"
        BY <2>1, <3>2, LoneClients DEF Admitting
      <4>2. s = w /\ p \in Admitting
        BY <1>4, <1>6, <2>1, <2>3, <4>1 DEF ClientsAt, Admitting
      <4> QED
        BY <4>2, LoneClients DEF M
    <3> QED
      BY <3>1, <3>2
  <2>4. \A c \in Clients : link[c] # NoLink /\ phase'[c] \in {"none", "opened"} => FALSE
    <3> SUFFICES ASSUME NEW c \in Clients, link[c] # NoLink, c # s,
                        phase[c] \in {"none", "opened"}
                 PROVE  FALSE
      BY <2>2
    <3>1. c = w /\ p \in {"cSend", "cSending", "cInsert", "cDone"}
      BY <1>4 DEF ClientsAt
    <3> QED
      BY <3>1
  <2>5. \A c \in Clients : phase'[c] = "established" => c \in M
    BY <1>4, <2>1, <2>2 DEF ClientsAt
  <2>6. \A m, n \in M : link[m] = link[n] => m = n
    BY <1>4 DEF ClientsAt
  <2>7. p2 \in {"idle", "find"} /\ (p2 = "find" => w2 = s /\ link[s] # NoLink)
    BY <1>2
  <2>8. \A m \in M : link[m] # NoLink
    BY <1>4 DEF ClientsAt
  <2>9. ClientsAt(p2, w2, x2, h2, M, link, phase')
    BY <1>6, <2>2, <2>3, <2>4, <2>5, <2>6, <2>7, <2>8 DEF ClientsAt, Dropping
  <2> QED
    BY <1>1, <1>3, <2>9 DEF ClientsInv
<1> QED
  BY <1>5, <1>6 DEF Sockets

LEMMA ClientsStrand ==
  ASSUME IInv, Lone, Outside, NumberFree, ClientsInv, StrandStep
  PROVE  ClientsInv'
<1> USE DEF IInv, TypeOK, LocalsOK, Threads, At, Goto
<1> DEFINE p == pc["strand"]
           w == who["strand"]
           x == target["strand"]
           h == handles["strand"]
           M == Members(clientTable)
           p2 == pc'["strand"]
           w2 == who'["strand"]
           x2 == target'["strand"]
           h2 == handles'["strand"]
           Entering == {"cSend", "cSending", "cInsert"}
           Plain == /\ Members(clientTable)' = M
                    /\ \A c \in Clients : link'[c] = link[c] /\ phase'[c] = phase[c]
                    /\ p \notin {"cDone", "closeOne"}
                    /\ p \in Entering \/ p2 \in Entering
                         => p \in Entering /\ p2 \in Entering /\ w2 = w
                    /\ p2 \notin {"find", "remove", "erase", "recheck", "sayAbort",
                                  "saying", "cDone", "closing", "closeOne"}
<1>1. M \subseteq Clients
  BY LoneClients
<1>2. ClientsAt(p, w, x, h, M, link, phase)
  BY DEF ClientsInv
<1>3. ASSUME Plain PROVE ClientsInv'
  <2>3. p \in Entering => w \in Clients
    OBVIOUS
  <2> HIDE DEF M
  <2>1. ~Dropping(p2, w2)
    BY <1>3 DEF Dropping
  <2>2. ClientsAt(p2, w2, x2, h2, M, link', phase')
    BY <1>1, <1>2, <1>3, <2>1, <2>3, ClientsPlain
  <2> QED
    BY <1>3, <2>2 DEF ClientsInv
<1>4. \A c \in Clients : c \in Sockets /\ c \notin Servers
  BY HubAssumption DEF Sockets
<1>5. ASSUME sockets' = sockets, clientTable' = clientTable
      PROVE  Members(clientTable)' = M
  BY <1>5 DEF Members
<1>6. ASSUME NEW s \in Servers, ServerAuthAssign(s) PROVE ClientsInv'
  <2>1. PICK n : link' = [link EXCEPT ![s] = n]
    BY <1>6, Zenon DEF ServerAuthAssign
  <2>2. /\ At("strand", "idle") /\ Goto("strand", "sInsert")
        /\ phase' = phase /\ sockets' = sockets /\ clientTable' = clientTable
    BY <1>6, Zenon DEF ServerAuthAssign
  <2>3. Plain
    BY <1>4, <1>5, <2>1, <2>2
  <2> QED
    BY <1>3, <2>3
<1>7. ASSUME NEW s \in Servers,
             AcceptCommand(s) \/ AbortAllClient(s) \/ \E c \in Clients : ToClient(s, c)
      PROVE  ClientsInv'
  <2>1. /\ phase' = phase /\ link' = link /\ p = "idle"
        /\ sockets' = sockets /\ clientTable' = clientTable
        /\ p2 \in {"mark", "prevent", "clearFind", "kick", "down"}
    BY <1>7 DEF AcceptCommand, AbortAllClient, ToClient, Receives
  <2> QED
    BY <1>3, <1>5, <2>1
<1>8. CASE ServerAuthInsert
  <2>1. /\ \A c \in Clients : phase'[c] = phase[c]
        /\ link' = link /\ clientTable' = clientTable
        /\ p = "sInsert" /\ p2 \in {"sPush", "sDone"}
    BY <1>4, <1>8 DEF ServerAuthInsert
  <2>2. \A v \in ClientVecs : sockets'[v] = sockets[v]
    BY <1>8, HubAssumption DEF ServerAuthInsert, Vecs
  <2>3. Members(clientTable)' = M
    BY <2>1, <2>2 DEF Members
  <2> QED
    BY <1>3, <2>1, <2>3
<1>9. CASE PushAllClients \/ AdvertiseOnline
  <2>1. /\ phase' = phase /\ link' = link
        /\ sockets' = sockets /\ clientTable' = clientTable
        /\ p \in {"sPush", "sAdvertise"} /\ p2 \in {"sAdvertise", "sOnline"}
    BY <1>9 DEF PushAllClients, AdvertiseOnline
  <2> QED
    BY <1>3, <1>5, <2>1
<1>10. CASE \/ ServerAuthDone \/ SendbackOnline \/ MarkAllowAccept \/ Forwarded
            \/ p = "down" /\ ClientReached
  <2>1. /\ \A c \in Clients : phase'[c] = phase[c]
        /\ sockets' = sockets
    BY <1>4, <1>10, CalmReturns DEF Calmly, ServerAuthDone
  <2>2. /\ link' = link /\ clientTable' = clientTable /\ p2 = "idle"
        /\ p \in {"sDone", "sOnline", "mark", "prevent", "forward", "down"}
    BY <1>10 DEF ServerAuthDone, SendbackOnline, MarkAllowAccept, Forwarded,
                 ClientReached, Return
  <2> QED
    BY <1>3, <1>5, <2>1, <2>2
<1>11. CASE p = "kick" /\ ClientReached
  <2>1. /\ phase' = [phase EXCEPT ![x] = "closed"] /\ sockets' = sockets
    BY <1>11, CalmReturns DEF Calmly
  <2>2. link' = link /\ clientTable' = clientTable /\ p2 = "idle"
    BY <1>11 DEF ClientReached, Return
  <2>3. ClientsAt(p2, w2, x2, h2, M, link, phase')
    BY <1>2, <1>4, <1>11, <2>1, <2>2 DEF ClientsAt, Dropping
  <2> QED
    BY <1>5, <2>1, <2>2, <2>3 DEF ClientsInv
<1>12. ASSUME NEW c \in Clients, ClientAuthCheck(c) PROVE ClientsInv'
  <2>1. PICK v \in FindOrNew(clientTable, ClientVecs) : clientTable' = v
    BY <1>12, Zenon DEF ClientAuthCheck
  <2>2. /\ phase' = phase /\ link' = link /\ sockets' = sockets
        /\ p = "idle" /\ p2 = "cMark"
    BY <1>12 DEF ClientAuthCheck
  <2>3. Members(clientTable)' = M
    <3>1. CASE clientTable = NoVec
      BY <2>1, <2>2, <3>1, HubAssumption DEF Members, FindOrNew, Lone, Vecs
    <3>2. CASE clientTable # NoVec
      BY <2>1, <2>2, <3>2 DEF Members, FindOrNew
    <3> QED
      BY <3>1, <3>2
  <2> QED
    BY <1>3, <2>2, <2>3
<1>13. ASSUME NEW c \in Clients, Forward(c) PROVE ClientsInv'
  <2>1. /\ phase' = phase /\ link' = link /\ sockets' = sockets
        /\ clientTable' = clientTable /\ p = "idle" /\ p2 = "forward"
    BY <1>13 DEF Forward, Receives
  <2> QED
    BY <1>3, <1>5, <2>1
<1>14. CASE ClientAuthNext \/ ClientAuthAnnounce
  <2>1. /\ phase' = phase /\ link' = link /\ sockets' = sockets
        /\ clientTable' = clientTable /\ p \in Entering /\ p2 \in Entering
        /\ w2 = w
    BY <1>14 DEF ClientAuthNext, ClientAuthAnnounce
  <2> QED
    BY <1>3, <1>5, <2>1
<1>15. CASE ClientAuthMark
  <2>1. /\ phase' = phase /\ sockets' = sockets /\ clientTable' = clientTable
        /\ link' = [link EXCEPT ![w] = newLink]
        /\ p = "cMark" /\ p2 = "cSend" /\ w2 = w
    BY <1>15 DEF ClientAuthMark
  <2>2. w \notin M
    BY <2>1, LoneClients
  <2>3. \A m \in M : link'[m] = link[m]
    BY <1>1, <1>4, <2>1, <2>2
  <2>4. \A c \in Clients : c # w => link'[c] = link[c]
    BY <1>4, <2>1
  <2>5. link'[w] # NoLink
    <3>1. w \in Sockets /\ newLink # NoLink
      BY <1>4, <2>1, HubAssumption
    <3> QED
      BY <2>1, <3>1
  <2>6. ClientsAt(p2, w2, x2, h2, M, link', phase)
    BY <1>2, <2>1, <2>3, <2>4, <2>5 DEF ClientsAt, Dropping
  <2> QED
    BY <1>5, <2>1, <2>6 DEF ClientsInv
<1>16. CASE ClientAuthInsert
  <2>1. /\ p = "cInsert" /\ w \in Clients /\ cv["strand"] = clientTable
        /\ clientTable \in ClientVecs /\ M = sockets[clientTable]
        /\ \A m \in M : link[m] # link[w]
    BY <1>16, LoneClients, HubAssumption DEF ClientAuthInsert, Admitting, Members, Vecs
  <2>2. /\ phase' = phase /\ link' = link /\ clientTable' = clientTable
        /\ sockets' = [sockets EXCEPT ![clientTable] = Inserted(clientTable, w)]
        /\ p2 = "cDone" /\ w2 = w
    BY <1>16, <2>1 DEF ClientAuthInsert
  <2>3. Inserted(clientTable, w) = M \cup {w}
    BY <2>1 DEF Inserted
  <2>4. Members(clientTable)' = M \cup {w}
    BY <2>1, <2>2, <2>3, HubAssumption DEF Members, Vecs
  <2> HIDE DEF M
  <2>5. ClientsAt(p2, w2, x2, h2, M \cup {w}, link, phase)
    BY <1>2, <2>1, <2>2 DEF ClientsAt, Dropping
  <2> QED
    BY <2>2, <2>4, <2>5 DEF ClientsInv
<1>17. CASE ClientAuthDone
  <2>1. /\ phase' = [phase EXCEPT ![w] = "established"] /\ sockets' = sockets
    BY <1>17, CalmReturns DEF Calmly
  <2>2. /\ link' = link /\ clientTable' = clientTable /\ p2 = "idle"
        /\ p = "cDone" /\ w \in Clients
    BY <1>17 DEF ClientAuthDone, Return
  <2>3. \A c \in Clients : phase'[c] = IF c = w THEN "established" ELSE phase[c]
    BY <1>4, <2>1
  <2>4. ClientsAt(p2, w2, x2, h2, M, link, phase')
    BY <1>2, <2>2, <2>3 DEF ClientsAt, Dropping
  <2> QED
    BY <1>5, <2>1, <2>2, <2>4 DEF ClientsInv
<1>18. CASE \/ ClientAuthLimit \/ ClientAuthNoServer \/ ClientAuthRefused
            \/ \E c \in Clients : ClientAuthReject(c) \/ ForwardNowhere(c)
            \/ \E s \in Servers : AcceptCommandLost(s)
  <2>1. \E y \in Sockets :
          /\ Abort("strand", y)
          /\ \/ p = "idle" /\ phase[y] \in {"opened", "established"}
             \/ p \in {"cMark", "cSend", "cSending"} /\ y = w
    BY <1>18 DEF ClientAuthLimit, ClientAuthNoServer, ClientAuthRefused,
                 ClientAuthReject, ForwardNowhere, AcceptCommandLost, Sockets
  <2> QED
    BY <2>1, ClientsAbort
<1>19. ClientReached => p = "kick" \/ p = "down"
  BY DEF ClientReached
<1> QED
  BY <1>6, <1>7, <1>8, <1>9, <1>10, <1>11, <1>12, <1>13, <1>14, <1>15, <1>16,
     <1>17, <1>18, <1>19 DEF StrandStep

LEMMA ClientsCleanup ==
  ASSUME IInv, Lone, Outside, NumberFree, ClientsInv,
         AbortStep("strand") \/ Environment
  PROVE  ClientsInv'
<1> USE DEF IInv, TypeOK, LocalsOK, Threads, At, Goto
<1> DEFINE p == pc["strand"]
           w == who["strand"]
           x == target["strand"]
           h == handles["strand"]
           M == Members(clientTable)
           p2 == pc'["strand"]
           w2 == who'["strand"]
           x2 == target'["strand"]
           h2 == handles'["strand"]
           Quitting == {"find", "remove", "erase", "recheck", "sayAbort", "saying"}
           Plain == /\ Members(clientTable)' = M
                    /\ \A c \in Clients : link'[c] = link[c] /\ phase'[c] = phase[c]
                    /\ p \notin {"cSend", "cSending", "cInsert", "cDone", "closeOne"}
                    /\ p2 \notin {"cSend", "cSending", "cInsert", "cDone",
                                  "closing", "closeOne"}
                    /\ p2 \in Quitting =>
                         /\ p \in Quitting /\ w2 = w
                         /\ p2 \in {"find", "remove"} => p \in {"find", "remove"}
<1>1. M \subseteq Clients
  BY LoneClients
<1>2. ClientsAt(p, w, x, h, M, link, phase)
  BY DEF ClientsInv
<1>3. ASSUME Plain PROVE ClientsInv'
  <2> HIDE DEF M
  <2>1. Dropping(p2, w2) => /\ Dropping(p, w) /\ w2 = w
                            /\ p2 \in {"find", "remove"} => p \in {"find", "remove"}
    BY <1>3 DEF Dropping
  <2>2. ClientsAt(p2, w2, x2, h2, M, link', phase')
    BY <1>1, <1>2, <1>3, <2>1, ClientsPlain
  <2> QED
    BY <1>3, <2>2 DEF ClientsInv
<1>4. \A c \in Clients : c \in Sockets /\ c \notin Servers
  BY HubAssumption DEF Sockets
<1>5. ASSUME sockets' = sockets, clientTable' = clientTable
      PROVE  Members(clientTable)' = M
  BY <1>5 DEF Members
<1>6. CASE \E s \in Sockets : AbortBegin("strand", s)
  BY <1>6, ClientsAbort DEF AbortBegin
<1>7. CASE AbortFind("strand")
  <2>1. /\ phase' = phase /\ link' = link /\ sockets' = sockets
        /\ clientTable' = clientTable /\ p = "find"
        /\ p2 = "idle" \/ (p2 = "remove" /\ w2 = w)
    BY <1>7 DEF AbortFind, Return
  <2> QED
    BY <1>3, <1>5, <2>1
<1>8. CASE AbortRemove("strand") /\ w \in Servers
  <2>1. /\ phase' = phase /\ link' = link /\ clientTable' = clientTable
        /\ p = "remove" /\ (p2 = "idle" \/ (p2 = "erase" /\ w2 = w))
    BY <1>8, CalmRemovals DEF AbortRemove, Return, Calmly
  <2>2. \A v \in ClientVecs : sockets'[v] = sockets[v]
    BY <1>8, CalmRemovals, HubAssumption
    DEF AbortRemove, Calmly, Mine, IsServer, Vecs
  <2>3. Members(clientTable)' = M
    BY <2>1, <2>2 DEF Members
  <2> QED
    BY <1>3, <1>8, <2>1, <2>3 DEF AbortRemove
<1>9. CASE AbortRemove("strand") /\ w \in Clients
  <2>1. /\ phase' = phase /\ link' = link /\ clientTable' = clientTable
        /\ p = "remove" /\ (p2 = "idle" \/ (p2 = "erase" /\ w2 = w))
    BY <1>9, CalmRemovals DEF AbortRemove, Return, Calmly
  <2>2. /\ Mine("strand") = clientTable /\ clientTable \in ClientVecs
        /\ M = sockets[clientTable]
    BY <1>4, <1>9, HubAssumption DEF AbortRemove, Mine, IsServer, Lone, Members, Vecs
  <2>3. Members(clientTable)' = {m \in M : link[m] # link[w]}
    BY <1>9, <2>1, <2>2, CalmRemovals, HubAssumption DEF Calmly, Members, Vecs
  <2> DEFINE M2 == {m \in M : link[m] # link[w]}
  <2> HIDE DEF M
  <2>4. \A m \in M : m # w => m \in M2
    BY <1>2, <1>9, <2>1 DEF ClientsAt, Dropping
  <2>5. M2 \subseteq M
    OBVIOUS
  <2> HIDE DEF M2
  <2>6. phase[w] = "closed"
    BY <1>2, <1>9, <2>1 DEF ClientsAt, Dropping
  <2>7. ClientsAt(p2, w2, x2, h2, M2, link, phase)
    BY <1>2, <1>9, <2>1, <2>4, <2>5, <2>6 DEF ClientsAt, Dropping
  <2> QED
    BY <2>1, <2>3, <2>7 DEF ClientsInv, M2
<1>10. CASE AbortErase("strand")
  <2>1. /\ phase' = phase /\ link' = link /\ sockets' = sockets
        /\ p = "erase" /\ p2 = "recheck" /\ w2 = w
    BY <1>10, CalmRemovals DEF AbortErase, Calmly
  <2>2. Members(clientTable)' = M
    <3>1. CASE clientTable' = clientTable
      BY <1>5, <2>1, <3>1
    <3>2. CASE clientTable' # clientTable
      <4>1. /\ w \notin Servers /\ sockets[Mine("strand")] = {} /\ clientTable' = NoVec
        BY <1>10, <3>2 DEF AbortErase, IsServer
      <4>2. Mine("strand") = clientTable
        BY <2>1, <4>1, HubAssumption DEF Mine, IsServer, Lone, Vecs
      <4> QED
        BY <4>1, <4>2 DEF Members
    <3> QED
      BY <3>1, <3>2
  <2> QED
    BY <1>3, <2>1, <2>2
<1>11. CASE AbortRecheck("strand")
  <2>1. /\ phase' = phase /\ link' = link /\ sockets' = sockets
        /\ clientTable' = clientTable /\ p = "recheck"
        /\ \/ p2 \in {"idle", "clearFind", "offline"}
           \/ p2 = "sayAbort" /\ w2 = w
    BY <1>11, CalmReturns DEF AbortRecheck, Return, Calmly
  <2> QED
    BY <1>3, <1>5, <2>1
<1>12. CASE SayAbort("strand") \/ Saying("strand")
  <2>1. /\ phase' = phase /\ link' = link /\ sockets' = sockets
        /\ clientTable' = clientTable /\ p \in {"sayAbort", "saying"}
        /\ p2 = "idle" \/ (p2 = "saying" /\ w2 = w)
    BY <1>12, CalmReturns DEF SayAbort, Saying, Return, Calmly
  <2> QED
    BY <1>3, <1>5, <2>1
<1>13. CASE ClearNothing("strand")
  <2>1. CASE phase[w] = "closed"
    <3>1. /\ phase' = phase /\ link' = link /\ sockets' = sockets
          /\ clientTable' = clientTable /\ p = "clearFind" /\ p2 = "offline"
      BY <1>13, <2>1 DEF ClearNothing
    <3> QED
      BY <1>3, <1>5, <3>1
  <2>2. CASE phase[w] # "closed"
    BY <1>13, <2>2, ClientsAbort DEF ClearNothing
  <2> QED
    BY <2>1, <2>2
<1>14. CASE ClearFind("strand") \/ SendbackOffline("strand") \/ AdvertiseOffline("strand")
  <2>1. /\ phase' = phase /\ link' = link /\ sockets' = sockets
        /\ clientTable' = clientTable /\ p \in {"clearFind", "offline", "advertise"}
        /\ p2 \in {"snapshot", "advertise", "idle"}
    BY <1>14 DEF ClearFind, SendbackOffline, AdvertiseOffline, Return
  <2> QED
    BY <1>3, <1>5, <2>1
<1>15. CASE ClearSnapshot("strand")
  <2>1. /\ phase' = phase /\ link' = link /\ sockets' = sockets
        /\ clientTable' = clientTable /\ p = "snapshot" /\ p2 = "closing"
        /\ h2 = LinksIn(cv["strand"]) /\ cv["strand"] = clientTable
    BY <1>15, HubAssumption DEF ClearSnapshot, Lone, Vecs
  <2>2. \A m \in M : link[m] \in h2
    BY <2>1 DEF LinksIn
  <2>3. ClientsAt(p2, w2, x2, h2, M, link, phase)
    BY <1>2, <2>1, <2>2 DEF ClientsAt, Dropping
  <2> QED
    BY <1>5, <2>1, <2>3 DEF ClientsInv
<1>16. CASE ClearRemove("strand")
  <2>1. /\ phase' = phase /\ link' = link /\ clientTable' = clientTable
        /\ p = "closing" /\ w2 = w
        /\ cv["strand"] = clientTable /\ clientTable \in ClientVecs
        /\ M = sockets[clientTable]
    BY <1>16, HubAssumption DEF ClearRemove, Lone, Members, Vecs
  <2>2. PICK n \in h :
          /\ handles' = [handles EXCEPT !["strand"] = h \ {n}]
          /\ \/ /\ n \notin LinksIn(clientTable)
                /\ UNCHANGED <<pc, target, sockets>>
             \/ \E m \in M :
                  /\ link[m] = n
                  /\ pc' = [pc EXCEPT !["strand"] = "closeOne"]
                  /\ target' = [target EXCEPT !["strand"] = m]
                  /\ sockets' = [sockets EXCEPT ![clientTable] = M \ {m}]
    <3>1. PICK n \in handles["strand"] :
            /\ handles' = [handles EXCEPT !["strand"] = @ \ {n}]
            /\ \/ /\ n \notin LinksIn(cv["strand"])
                  /\ UNCHANGED <<pc, target, sockets>>
               \/ \E m \in sockets[cv["strand"]] :
                    /\ link[m] = n
                    /\ Goto("strand", "closeOne")
                    /\ target' = [target EXCEPT !["strand"] = m]
                    /\ sockets' = [sockets EXCEPT ![cv["strand"]] = @ \ {m}]
      BY <1>16, Zenon DEF ClearRemove
    <3>2. handles' = [handles EXCEPT !["strand"] = h \ {n}]
      BY <3>1
    <3>3. CASE n \notin LinksIn(cv["strand"]) /\ UNCHANGED <<pc, target, sockets>>
      BY <2>1, <3>2, <3>3
    <3>4. ASSUME NEW m \in sockets[cv["strand"]], link[m] = n,
                 Goto("strand", "closeOne"),
                 target' = [target EXCEPT !["strand"] = m],
                 sockets' = [sockets EXCEPT ![cv["strand"]] = @ \ {m}]
          PROVE  /\ m \in M
                 /\ pc' = [pc EXCEPT !["strand"] = "closeOne"]
                 /\ sockets' = [sockets EXCEPT ![clientTable] = M \ {m}]
      BY <2>1, <3>4
    <3> HIDE DEF M
    <3> QED
      BY <3>1, <3>2, <3>3, <3>4
  <2>3. h2 = h \ {n}
    BY <2>2
  <2>4. CASE n \notin LinksIn(clientTable) /\ UNCHANGED <<pc, target, sockets>>
    <3>1. \A m \in M : link[m] # n
      BY <2>4 DEF LinksIn
    <3>2. p2 = "closing" /\ Members(clientTable)' = M
      BY <1>5, <2>1, <2>4
    <3> HIDE DEF M
    <3>3. ClientsAt(p2, w2, x2, h2, M, link, phase)
      BY <1>2, <2>1, <2>3, <3>1, <3>2 DEF ClientsAt, Dropping
    <3> QED
      BY <2>1, <3>2, <3>3 DEF ClientsInv
  <2>5. ASSUME NEW m \in M, link[m] = n,
               pc' = [pc EXCEPT !["strand"] = "closeOne"],
               target' = [target EXCEPT !["strand"] = m],
               sockets' = [sockets EXCEPT ![clientTable] = M \ {m}]
        PROVE  ClientsInv'
    <3>1. p2 = "closeOne" /\ x2 = m
      BY <2>5
    <3>2. Members(clientTable)' = M \ {m}
      BY <2>1, <2>5, HubAssumption DEF Members, Vecs
    <3> HIDE DEF M
    <3>3. ClientsAt(p2, w2, x2, h2, M \ {m}, link, phase)
      BY <1>2, <2>1, <2>3, <2>5, <3>1 DEF ClientsAt, Dropping
    <3> QED
      BY <2>1, <3>2, <3>3 DEF ClientsInv
  <2> QED
    BY <2>2, <2>4, <2>5
<1>17. CASE ClearClose("strand")
  <2>1. /\ phase' = [phase EXCEPT ![x] = "closed"] /\ link' = link
        /\ sockets' = sockets /\ clientTable' = clientTable
        /\ p = "closeOne" /\ p2 = "closing" /\ w2 = w /\ h2 = h
    BY <1>17 DEF ClearClose
  <2>2. \A c \in Clients : phase'[c] = IF c = x THEN "closed" ELSE phase[c]
    BY <1>4, <2>1
  <2> HIDE DEF M
  <2>3. ClientsAt(p2, w2, x2, h2, M, link, phase')
    BY <1>2, <2>1, <2>2 DEF ClientsAt, Dropping
  <2> QED
    BY <1>5, <2>1, <2>3 DEF ClientsInv
<1>18. CASE ClearRest("strand")
  <2>1. /\ phase' = phase /\ link' = link /\ clientTable' = clientTable
        /\ p = "closing" /\ h = {} /\ p2 \in {"offline", "idle"}
        /\ cv["strand"] = clientTable /\ clientTable \in ClientVecs
        /\ sockets' = [sockets EXCEPT ![clientTable] = {}]
    BY <1>18, CalmRemovals, HubAssumption DEF ClearRest, Return, Calmly, Lone, Vecs
  <2>2. M = {}
    BY <1>2, <2>1 DEF ClientsAt
  <2>3. Members(clientTable)' = {}
    BY <2>1, HubAssumption DEF Members, Vecs
  <2> QED
    BY <1>3, <2>1, <2>2, <2>3
<1>19. CASE Environment
  <2>1. /\ p2 = p /\ w2 = w /\ x2 = x /\ h2 = h
        /\ sockets' = sockets /\ clientTable' = clientTable
    BY <1>19 DEF Environment, Accept, Recycle, SilentLoss, local
  <2> HIDE DEF M
  <2>2. ASSUME NEW s \in Sockets, Accept(s) PROVE ClientsInv'
    <3>1. /\ \A c \in Sockets : phase'[c] = IF c = s THEN "opened" ELSE phase[c]
          /\ phase[s] = "none" /\ link' = link
      BY <2>2 DEF Accept
    <3>2. Dropping(p, w) => w # s
      BY <1>2, <3>1 DEF ClientsAt
    <3>3. ClientsAt(p, w, x, h, M, link, phase')
      BY <1>2, <1>4, <3>1, <3>2 DEF ClientsAt, Dropping
    <3> QED
      BY <1>5, <2>1, <3>1, <3>3 DEF ClientsInv
  <2>3. ASSUME NEW s \in Sockets, Recycle(s) PROVE ClientsInv'
    <3>1. /\ \A c \in Sockets : /\ phase'[c] = IF c = s THEN "none" ELSE phase[c]
                                /\ link'[c] = IF c = s THEN NoLink ELSE link[c]
          /\ w # s /\ s \notin M
      BY <2>3, HubAssumption DEF Recycle, M, Members, Vecs
    <3>2. \A m \in M : link'[m] = link[m]
      BY <1>1, <1>4, <3>1
    <3>3. ClientsAt(p, w, x, h, M, link', phase')
      BY <1>2, <1>4, <3>1, <3>2 DEF ClientsAt, Dropping
    <3> QED
      BY <1>5, <2>1, <3>3 DEF ClientsInv
  <2>4. ASSUME NEW s \in Servers, SilentLoss(s) PROVE ClientsInv'
    <3>1. phase' = phase /\ link' = link
      BY <2>4 DEF SilentLoss
    <3> QED
      BY <1>2, <1>5, <2>1, <3>1 DEF ClientsInv
  <2> QED
    BY <1>19, <2>2, <2>3, <2>4 DEF Environment
<1>20. AbortRemove("strand") => w \in Servers \/ w \in Clients
  BY DEF AbortRemove, Sockets
<1> QED
  BY <1>6, <1>7, <1>8, <1>9, <1>10, <1>11, <1>12, <1>13, <1>14, <1>15, <1>16,
     <1>17, <1>18, <1>19, <1>20 DEF AbortStep

LEMMA ClientsStep ==
  ASSUME IInv, Lone, Placing, ClientsInv,
         \/ StrandStep \/ AbortStep("strand") \/ Environment
         \/ UNCHANGED vars
  PROVE  ClientsInv'
<1>1. CASE UNCHANGED vars
  BY <1>1 DEF vars, local, ClientsInv, Members
<1> QED
  BY <1>1, ClientsStrand, ClientsCleanup DEF Placing

LEMMA ClientsInit ==
  ASSUME Init
  PROVE  ClientsInv
<1>1. /\ pc["strand"] = "idle" /\ Members(clientTable) = {}
      /\ \A c \in Clients : phase[c] = "none" /\ link[c] = NoLink
  BY DEF Init, Members, Threads, Sockets
<1> QED
  BY <1>1 DEF ClientsInv, ClientsAt, Dropping

\* When no handler runs, every established client is in the vector the client
\* table refers to, under a number of its own, as long as the strand alone
\* runs the handlers and no inner server may ask for as many clients as there
\* are numbers: neither the removal by number, nor the erasure of the entry
\* by link type, nor Clear, whose snapshot of numbers is taken before the
\* members are removed, loses a client that stays connected.
THEOREM Hosting ==
  ASSUME "timer" \notin Faults,
         \A n \in MaxFDs : n < Cardinality(LinkNos), LinkNos # {}
  PROVE  Spec => []ClientHosted
<1> DEFINE Inv == /\ IInv /\ RoomLeft /\ Placing /\ ServerUnreferring /\ Lone
                  /\ ClientsInv
<1>1. Init => Inv
  BY InitTyped, PlacingInit, LoneInit, ClientsInit DEF Init, ServerUnreferring, Threads
<1>2. Inv /\ [Next]_vars => Inv'
  <2> SUFFICES ASSUME Inv, [Next]_vars PROVE Inv'
    OBVIOUS
  <2>1. IInv' /\ RoomLeft' /\ Placing' /\ ServerUnreferring'
    BY StepTyped, PlacingStep, ServerUnreferringStep
  <2>2. /\ Lone'
        /\ \/ StrandStep \/ AbortStep("strand") \/ Environment
           \/ UNCHANGED vars
    BY LoneStep DEF Placing
  <2> QED
    BY <2>1, <2>2, ClientsStep
<1>3. Inv => ClientHosted
  BY DEF ClientHosted, Quiet, At, Threads, Established, ClientsInv, ClientsAt
<1> QED
  BY <1>1, <1>2, <1>3, PTL DEF Spec

-----------------------------------------------------------------------------
(* What the inner server of the strand alone knows.                        *)

\* A step that leaves alone who is established and who has been told.
LEMMA SeenPlain ==
  ASSUME NEW p, NEW w, NEW x, NEW M, NEW ph, NEW rem, NEW ann,
         NEW p2, NEW w2, NEW x2, NEW ph2,
         SeenAt(p, w, x, M, ph, rem, ann),
         Live(Servers, ph2) = Live(Servers, ph),
         Live(Clients, ph2) = Live(Clients, ph),
         p \notin Clearing \cup {"cInsert", "cDone", "kick"}, ~Dropping(p, w),
         p2 \notin Clearing \cup {"cInsert", "cDone", "kick", "sPush"},
         ~Dropping(p2, w2),
         Leaving(p, w) => Leaving(p2, w2) \/ rem # {}
  PROVE  SeenAt(p2, w2, x2, M, ph2, rem, ann)
<1>1. rem # {} => ann = Live(Clients, ph)
  BY DEF SeenAt, KnownAt
<1>2. rem # {} => KnownAt(p2, w2, x2, Live(Clients, ph2), ann)
  BY <1>1 DEF KnownAt
<1>3. rem = {} => M = {} \/ Leaving(p2, w2)
  BY DEF SeenAt
<1> QED
  BY <1>2, <1>3 DEF SeenAt

\* A step in the cleanup of a client that leaves who is established and who
\* has been told alone.
LEMMA SeenDropping ==
  ASSUME NEW p, NEW w, NEW x, NEW M, NEW ph, NEW rem, NEW ann, NEW p2, NEW x2,
         NEW M2, SeenAt(p, w, x, M, ph, rem, ann),
         Dropping(p, w), Dropping(p2, w), M2 \subseteq M,
         p2 \in {"find", "remove"} => M2 = M /\ p \in {"find", "remove"}
  PROVE  SeenAt(p2, w, x2, M2, ph, rem, ann)
<1>1. /\ p \notin Clearing \cup {"cInsert", "cDone", "kick", "sPush"}
      /\ p2 \notin Clearing \cup {"cInsert", "cDone", "kick", "sPush"}
      /\ ~Leaving(p, w)
  BY HubAssumption DEF Dropping, Leaving, Clearing
<1>2. rem # {} => KnownAt(p2, w, x2, Live(Clients, ph), ann)
  BY <1>1 DEF SeenAt, KnownAt
<1>3. rem = {} => M2 = {}
  BY <1>1 DEF SeenAt
<1> QED
  BY <1>1, <1>2, <1>3 DEF SeenAt

\* A handler that returns with the inner server knowing what it should.
LEMMA SeenIdle ==
  ASSUME NEW w, NEW x, NEW M, NEW ph, NEW rem, NEW ann,
         rem = Live(Servers, ph), rem = {} => ann = {} /\ M = {},
         rem # {} => ann = Live(Clients, ph)
  PROVE  \A p \in {"idle", "offline"} : SeenAt(p, w, x, M, ph, rem, ann)
BY DEF SeenAt, KnownAt, Clearing, Dropping

\* Calmly, when no inner server comes or goes.
LEMMA CalmlySame ==
  ASSUME NEW skts, NEW ph, NEW ann, Calmly(skts, ph, remote, ann),
         remote = Live(Servers, phase), Live(Servers, ph) = Live(Servers, phase)
  PROVE  /\ sockets' = skts /\ phase' = ph /\ remote' = remote
         /\ announced' = IF remote = {} THEN {} ELSE ann
<1>1. {s \in remote : ph[s] = "established"} = remote
  BY DEF Live
<1> QED
  BY <1>1 DEF Calmly

\* A client that is no member is not established.
LEMMA LiveClients ==
  ASSUME ClientsInv, pc["strand"] # "closeOne"
  PROVE  Live(Clients, phase) \subseteq Members(clientTable)
BY DEF ClientsInv, ClientsAt, Live

LEMMA LiveServers ==
  ASSUME IInv, Lone, HostedNow, pc["strand"] \notin {"sDone", "find", "remove"}
  PROVE  Live(Servers, phase) = Members(serverTable)
BY LoneServers DEF Live

LEMMA SeenAbort ==
  ASSUME IInv, Lone, HostedNow, ClientsInv, SeenInv,
         NEW s \in Sockets, Abort("strand", s),
         \/ pc["strand"] \in {"idle", "cMark", "cSend", "cSending"}
         \/ /\ pc["strand"] = "clearFind" /\ clientTable = NoVec
            /\ s \in Servers,
         s \in Servers => phase[s] # "closed" /\ pc["strand"] \in {"idle", "clearFind"}
  PROVE  SeenInv'
<1> USE DEF IInv, TypeOK, Threads, Goto, Return
<1> DEFINE p == pc["strand"]
           w == who["strand"]
           x == target["strand"]
           M == Members(clientTable)
           p2 == pc'["strand"]
           w2 == who'["strand"]
           x2 == target'["strand"]
<1>1. Calmly(sockets, [phase EXCEPT ![s] = "closed"], remote, announced)
  BY CalmAbort
<1>2. /\ phase' = [phase EXCEPT ![s] = "closed"] /\ sockets' = sockets
      /\ remote' = {r \in remote : phase'[r] = "established"}
      /\ announced' = IF remote' = {} THEN {} ELSE announced
      /\ clientTable' = clientTable
  BY <1>1 DEF Calmly, Abort
<1>3. /\ link[s] = NoLink => p2 = "idle"
      /\ link[s] # NoLink => p2 = "find" /\ w2 = s
  BY DEF Abort
<1>4. Members(clientTable)' = M
  BY <1>2 DEF Members
<1>5. SeenAt(p, w, x, M, phase, remote, announced)
  BY DEF SeenInv
<1>6. /\ remote = Live(Servers, phase)
      /\ Live(Clients, phase) \subseteq M
      /\ p = "clearFind" => M = {} /\ announced = {}
  BY <1>5, LiveClients DEF SeenAt, Members, Clearing
<1>7. /\ remote = {} => announced = {} /\ M = {}
      /\ remote # {} => announced = Live(Clients, phase)
  <2>1. CASE p = "clearFind"
    BY <1>6, <2>1
  <2>2. CASE p # "clearFind"
    BY <1>5, <2>2 DEF SeenAt, KnownAt, Dropping, Leaving, Clearing
  <2> QED
    BY <2>1, <2>2
<1>8. remote' = Live(Servers, phase')
  BY <1>2, <1>6 DEF Live, Sockets
<1> HIDE DEF M
<1>9. CASE s \in Servers
  <2>1. Live(Clients, phase') = Live(Clients, phase)
    BY <1>2, <1>9, HubAssumption DEF Live, Sockets
  <2>2. remote' # {} => announced' = Live(Clients, phase')
    BY <1>2, <1>7, <2>1
  <2>3. CASE link[s] # NoLink
    <3>1. p2 = "find" /\ w2 = s
      BY <1>3, <2>3
    <3>2. SeenAt(p2, w2, x2, M, phase', remote', announced')
      BY <1>2, <1>8, <1>9, <2>2, <3>1, HubAssumption
      DEF SeenAt, KnownAt, Dropping, Leaving, Clearing
    <3> QED
      BY <1>4, <3>2 DEF SeenInv
  <2>4. CASE link[s] = NoLink
    <3>1. phase[s] # "established"
      BY <1>9, <2>4, LoneServers, HubAssumption
      DEF HostedNow, Hosted, MemberNamed, Members, Vecs
    <3>2. remote' = remote
      BY <1>2, <1>6, <3>1 DEF Live, Sockets
    <3>3. SeenAt(p2, w2, x2, M, phase', remote', announced')
      <4>1. /\ remote' = {} => announced' = {} /\ M = {}
            /\ p2 \in {"idle", "offline"}
        BY <1>2, <1>3, <1>7, <2>4, <3>2
      <4> QED
        BY <1>8, <2>2, <4>1, SeenIdle
    <3> QED
      BY <1>4, <3>3 DEF SeenInv
  <2> QED
    BY <2>3, <2>4
<1>10. CASE s \in Clients
  <2>1. Live(Servers, phase') = Live(Servers, phase)
    BY <1>2, <1>10, HubAssumption DEF Live, Sockets
  <2>2. remote' = remote /\ announced' = announced
    BY <1>2, <1>6, <1>7, <1>8, <2>1
  <2>3. Live(Clients, phase') = Live(Clients, phase) \ {s}
    BY <1>2, <1>10 DEF Live, Sockets
  <2>4. CASE link[s] # NoLink
    <3>1. p2 = "find" /\ w2 = s
      BY <1>3, <2>4
    <3>2. s \in announced => s \in M
      BY <1>6, <1>7
    <3>3. announced \ {s} = Live(Clients, phase') \/ remote = {}
      BY <1>7, <2>3
    <3>4. SeenAt(p2, w2, x2, M, phase', remote', announced')
      BY <1>7, <1>8, <1>10, <2>2, <3>1, <3>2, <3>3, HubAssumption
      DEF SeenAt, KnownAt, Dropping, Leaving, Clearing
    <3> QED
      BY <1>4, <3>4 DEF SeenInv
  <2>5. CASE link[s] = NoLink
    <3>1. s \notin Live(Clients, phase)
      BY <1>6, <2>5 DEF ClientsInv, ClientsAt, M
    <3>2. SeenAt(p2, w2, x2, M, phase', remote', announced')
      <4>1. /\ remote' = {} => announced' = {} /\ M = {}
            /\ remote' # {} => announced' = Live(Clients, phase')
            /\ p2 \in {"idle", "offline"}
        BY <1>3, <1>7, <2>2, <2>3, <2>5, <3>1
      <4> QED
        BY <1>8, <4>1, SeenIdle
    <3> QED
      BY <1>4, <3>2 DEF SeenInv
  <2> QED
    BY <2>4, <2>5
<1> QED
  BY <1>9, <1>10 DEF Sockets

LEMMA SeenStrand ==
  ASSUME IInv, Lone, HostedNow, Placing, PeersInv, ClientsInv, SeenInv, StrandStep
  PROVE  SeenInv'
<1> USE DEF IInv, TypeOK, LocalsOK, Threads, At, Goto
<1> DEFINE p == pc["strand"]
           w == who["strand"]
           x == target["strand"]
           M == Members(clientTable)
           p2 == pc'["strand"]
           w2 == who'["strand"]
           x2 == target'["strand"]
           Bound == Clearing \cup {"cInsert", "cDone", "kick",
                                   "find", "remove", "erase", "recheck",
                                   "sayAbort", "saying"}
           Plain == /\ Members(clientTable)' = M
                    /\ Live(Servers, phase') = Live(Servers, phase)
                    /\ Live(Clients, phase') = Live(Clients, phase)
                    /\ remote' = remote /\ announced' = announced
                    /\ p \notin Bound /\ p2 \notin Bound \cup {"sPush"}
<1>1. SeenAt(p, w, x, M, phase, remote, announced)
  BY DEF SeenInv
<1>2. /\ remote = Live(Servers, phase)
      /\ remote = {} => announced = {}
      /\ p \in Backed => remote # {}
  BY <1>1 DEF SeenAt, PeersInv, PeersAt, NoneUp, Live
<1>3. ASSUME Plain PROVE SeenInv'
  <2> HIDE DEF M
  <2>1. /\ ~Dropping(p, w) /\ ~Dropping(p2, w2) /\ ~Leaving(p, w)
    BY <1>3 DEF Dropping, Leaving
  <2>2. SeenAt(p2, w2, x2, M, phase', remote, announced)
    BY <1>1, <1>3, <2>1, SeenPlain
  <2> QED
    BY <1>3, <2>2 DEF SeenInv
<1>4. ASSUME sockets' = sockets, clientTable' = clientTable
      PROVE  Members(clientTable)' = M
  BY <1>4 DEF Members
<1>5. p \notin Bound /\ p # "sPush" =>
        /\ remote # {} => announced = Live(Clients, phase)
        /\ remote = {} => M = {}
  BY <1>1 DEF SeenAt, KnownAt, Dropping, Leaving
<1>6. ASSUME NEW s \in Servers, ServerAuthAssign(s) PROVE SeenInv'
  <2>1. /\ At("strand", "idle") /\ Goto("strand", "sInsert")
        /\ phase' = phase /\ sockets' = sockets /\ clientTable' = clientTable
        /\ remote' = remote /\ announced' = announced
    BY <1>6, Zenon DEF ServerAuthAssign
  <2>2. Plain
    BY <1>4, <2>1 DEF Clearing
  <2> QED
    BY <1>3, <2>2
<1>7. ASSUME NEW s \in Servers, AcceptCommand(s) PROVE SeenInv'
  <2>1. /\ phase' = phase /\ p = "idle" /\ p2 \in {"mark", "prevent"}
        /\ sockets' = sockets /\ clientTable' = clientTable
        /\ remote' = remote /\ announced' = announced
    BY <1>7 DEF AcceptCommand, Receives
  <2> QED
    BY <1>3, <1>4, <2>1 DEF Clearing
<1>8. ASSUME NEW s \in Servers, AbortAllClient(s) PROVE SeenInv'
  <2>1. /\ phase' = phase /\ p2 = "clearFind" /\ s \in remote
        /\ sockets' = sockets /\ clientTable' = clientTable
        /\ remote' = remote /\ announced' = {}
    BY <1>8 DEF AbortAllClient, Receives
  <2> HIDE DEF M
  <2>2. SeenAt(p2, w2, x2, M, phase, remote, {})
    BY <1>2, <2>1 DEF SeenAt, KnownAt, Clearing, Dropping
  <2> QED
    BY <1>4, <2>1, <2>2 DEF SeenInv
<1>9. ASSUME NEW s \in Servers, NEW c \in Clients, ToClient(s, c) PROVE SeenInv'
  <2>1. /\ phase' = phase /\ p = "idle" /\ s \in remote /\ x2 = c
        /\ sockets' = sockets /\ clientTable' = clientTable /\ remote' = remote
        /\ \/ p2 = "kick" /\ announced' = announced \ {c}
           \/ p2 = "down" /\ announced' = announced
    BY <1>9 DEF ToClient, Receives
  <2>2. CASE p2 = "down"
    BY <1>3, <1>4, <2>1, <2>2 DEF Clearing
  <2>3. CASE p2 = "kick"
    <3> HIDE DEF M
    <3>1. announced = Live(Clients, phase)
      BY <1>5, <2>1 DEF Clearing
    <3>2. SeenAt(p2, w2, x2, M, phase, remote, announced')
      BY <1>2, <2>1, <2>3, <3>1 DEF SeenAt, KnownAt, Clearing, Dropping
    <3> QED
      BY <1>4, <2>1, <3>2 DEF SeenInv
  <2> QED
    BY <2>1, <2>2, <2>3
<1>10. CASE ServerAuthInsert
  <2>1. /\ p = "sInsert" /\ w \in Servers /\ sv["strand"] = serverTable
        /\ serverTable \in ServerVecs
        /\ Members(serverTable) = sockets[serverTable]
        /\ clientTable' = clientTable /\ announced' = announced
    BY <1>10, HubAssumption DEF ServerAuthInsert, Lone, Members, Vecs
  <2>2. Members(clientTable)' = M
    <3>1. \A v \in ClientVecs : sockets'[v] = sockets[v]
      BY <1>10, <2>1, HubAssumption DEF ServerAuthInsert, Vecs
    <3> QED
      BY <2>1, <3>1 DEF Members
  <2>3. CASE Inserted(serverTable, w) = {w}
    <3>1. Members(serverTable) = {}
      BY <2>1, <2>3, LoneServers DEF Inserted
    <3>2. remote = {} /\ announced = {} /\ M = {}
      BY <1>2, <1>5, <2>1, <3>1, LiveServers DEF Clearing
    <3>3. Live(Clients, phase) = {}
      BY <2>1, <3>2, LiveClients
    <3>4. /\ phase' = [phase EXCEPT ![w] = "established"]
          /\ remote' = remote \cup {w} /\ p2 = "sPush"
      BY <1>10, <2>1, <2>3 DEF ServerAuthInsert
    <3>5. /\ Live(Servers, phase') = remote'
          /\ Live(Clients, phase') = {}
      BY <1>2, <2>1, <3>3, <3>4, HubAssumption DEF Live, Sockets
    <3>6. SeenAt(p2, w2, x2, {}, phase', remote', {})
      BY <3>4, <3>5 DEF SeenAt, KnownAt, Clearing, Dropping
    <3> QED
      BY <2>1, <2>2, <3>2, <3>6 DEF SeenInv
  <2>4. CASE Inserted(serverTable, w) # {w}
    <3>1. phase' = phase /\ remote' = remote /\ p2 = "sDone"
      BY <1>10, <2>1, <2>4 DEF ServerAuthInsert
    <3> QED
      BY <1>3, <2>1, <2>2, <3>1 DEF Clearing
  <2> QED
    BY <2>3, <2>4
<1>11. CASE ServerAuthDone
  <2>1. /\ p = "sDone" /\ w \in Servers /\ p2 = "idle"
        /\ sockets' = sockets /\ clientTable' = clientTable
        /\ phase' = [phase EXCEPT ![w] = "established"]
        /\ remote' = {s \in remote \cup {w} : phase'[s] = "established"}
        /\ announced' = IF remote' = {} THEN {} ELSE announced
    <3>1. p = "sDone" /\ w \in Servers /\ clientTable' = clientTable /\ p2 = "idle"
      BY <1>11 DEF ServerAuthDone, Return
    <3>2. Calmly(sockets, [phase EXCEPT ![w] = "established"], remote \cup {w},
                 announced)
      BY <1>11, CalmReturns
    <3> QED
      BY <3>1, <3>2 DEF Calmly
  <2>2. /\ Live(Servers, phase') = remote'
        /\ Live(Clients, phase') = Live(Clients, phase)
        /\ remote' # {}
    BY <1>2, <2>1, HubAssumption DEF Live, Sockets
  <2>3. remote # {} /\ announced = Live(Clients, phase)
    BY <1>2, <1>5, <2>1 DEF Backed, Clearing
  <2> HIDE DEF M
  <2>4. SeenAt(p2, w2, x2, M, phase', remote', announced')
    <3>1. SeenAt("idle", w2, x2, M, phase', remote', announced')
      BY <2>1, <2>2, <2>3, SeenIdle
    <3> QED
      BY <2>1, <3>1
  <2> QED
    BY <1>4, <2>1, <2>4 DEF SeenInv
<1>12. CASE PushAllClients
  <2>1. p = "sPush" /\ M = {}
    BY <1>1, <1>12 DEF PushAllClients, SeenAt
  <2>2. announced' = announced
    BY <1>12, <2>1 DEF PushAllClients
  <2>3. /\ p2 = "sAdvertise" /\ phase' = phase /\ remote' = remote
        /\ sockets' = sockets /\ clientTable' = clientTable
    BY <1>12 DEF PushAllClients
  <2> QED
    BY <1>3, <1>4, <2>1, <2>2, <2>3 DEF Clearing
<1>13. CASE AdvertiseOnline
  <2>1. /\ p = "sAdvertise" /\ p2 = "sOnline" /\ phase' = phase /\ remote' = remote
        /\ sockets' = sockets /\ clientTable' = clientTable
        /\ announced' = announced
    BY <1>13 DEF AdvertiseOnline
  <2> QED
    BY <1>3, <1>4, <2>1 DEF Clearing
<1>14. CASE \/ SendbackOnline \/ MarkAllowAccept \/ Forwarded
            \/ p = "down" /\ ClientReached
  <2>1. Calmly(sockets, phase, remote, announced)
    BY <1>14, CalmReturns
  <2>2. sockets' = sockets /\ phase' = phase /\ remote' = remote /\ announced' = announced
    BY <1>2, <2>1 DEF Calmly, Live
  <2>3. /\ clientTable' = clientTable /\ p2 = "idle"
        /\ p \in {"sOnline", "mark", "prevent", "forward", "down"}
    BY <1>14 DEF SendbackOnline, MarkAllowAccept, Forwarded, ClientReached, Return
  <2> QED
    BY <1>3, <1>4, <2>2, <2>3 DEF Clearing
<1>15. CASE p = "kick" /\ ClientReached
  <2>1. /\ x \in Clients /\ clientTable' = clientTable /\ p2 = "idle"
        /\ Calmly(sockets, [phase EXCEPT ![x] = "closed"], remote, announced)
    BY <1>15, CalmReturns DEF ClientReached, Return
  <2>2. /\ Live(Servers, [phase EXCEPT ![x] = "closed"]) = Live(Servers, phase)
        /\ Live(Clients, [phase EXCEPT ![x] = "closed"]) = Live(Clients, phase) \ {x}
    BY <2>1, HubAssumption DEF Live, Sockets
  <2>3. /\ sockets' = sockets /\ phase' = [phase EXCEPT ![x] = "closed"]
        /\ remote' = remote /\ announced' = announced
    BY <1>2, <2>1, <2>2, CalmlySame
  <2>4. /\ remote # {} => announced = Live(Clients, phase) \ {x}
        /\ remote = {} => M = {}
    BY <1>1, <1>15 DEF SeenAt, KnownAt, Leaving, Clearing
  <2> HIDE DEF M
  <2>5. SeenAt(p2, w2, x2, M, phase', remote', announced')
    <3>1. /\ remote' = Live(Servers, phase')
          /\ remote' = {} => announced' = {} /\ M = {}
          /\ remote' # {} => announced' = Live(Clients, phase')
      BY <1>2, <2>2, <2>3, <2>4
    <3>2. SeenAt("idle", w2, x2, M, phase', remote', announced')
      BY <3>1, SeenIdle
    <3> QED
      BY <2>1, <3>2
  <2> QED
    BY <1>4, <2>1, <2>3, <2>5 DEF SeenInv
<1>16. ASSUME NEW c \in Clients, ClientAuthCheck(c) PROVE SeenInv'
  <2>1. PICK v \in FindOrNew(clientTable, ClientVecs) : clientTable' = v
    BY <1>16, Zenon DEF ClientAuthCheck
  <2>2. /\ phase' = phase /\ sockets' = sockets /\ remote' = remote
        /\ announced' = announced /\ p = "idle" /\ p2 = "cMark"
    BY <1>16 DEF ClientAuthCheck
  <2>3. Members(clientTable)' = M
    <3>1. CASE clientTable = NoVec
      BY <2>1, <2>2, <3>1, HubAssumption DEF Members, FindOrNew, Lone, Vecs
    <3>2. CASE clientTable # NoVec
      BY <2>1, <2>2, <3>2 DEF Members, FindOrNew
    <3> QED
      BY <3>1, <3>2
  <2> QED
    BY <1>3, <2>2, <2>3 DEF Clearing
<1>17. ASSUME NEW c \in Clients, Forward(c) PROVE SeenInv'
  <2>1. /\ phase' = phase /\ sockets' = sockets /\ clientTable' = clientTable
        /\ remote' = remote /\ announced' = announced
        /\ p = "idle" /\ p2 = "forward"
    BY <1>17 DEF Forward, Receives
  <2> QED
    BY <1>3, <1>4, <2>1 DEF Clearing
<1>18. CASE ClientAuthMark \/ ClientAuthNext
  <2>1. /\ phase' = phase /\ sockets' = sockets /\ clientTable' = clientTable
        /\ remote' = remote /\ announced' = announced
        /\ p \in {"cMark", "cSend"} /\ p2 \in {"cSend", "cSending"}
    BY <1>18 DEF ClientAuthMark, ClientAuthNext
  <2> QED
    BY <1>3, <1>4, <2>1 DEF Clearing
<1>19. CASE ClientAuthAnnounce
  <2>1. /\ phase' = phase /\ sockets' = sockets /\ clientTable' = clientTable
        /\ remote' = remote /\ p = "cSending" /\ p2 = "cInsert" /\ w2 = w
        /\ announced' = IF x \in remote THEN announced \cup {w} ELSE announced
    BY <1>19 DEF ClientAuthAnnounce
  <2>2. x \in remote
    BY <1>2, <2>1, LiveServers DEF Lone
  <2>3. announced = Live(Clients, phase)
    BY <1>5, <2>1, <2>2 DEF Clearing
  <2> HIDE DEF M
  <2>4. SeenAt(p2, w2, x2, M, phase, remote, announced')
    BY <1>2, <2>1, <2>2, <2>3 DEF SeenAt, KnownAt, Clearing, Dropping
  <2> QED
    BY <1>4, <2>1, <2>4 DEF SeenInv
<1>20. CASE ClientAuthInsert
  <2>1. /\ phase' = phase /\ remote' = remote /\ announced' = announced
        /\ p = "cInsert" /\ p2 = "cDone" /\ w2 = w
    BY <1>20 DEF ClientAuthInsert
  <2>2. remote # {} /\ announced = Live(Clients, phase) \cup {w}
    BY <1>1, <1>2, <2>1 DEF Backed, SeenAt, KnownAt
  <2>3. \A M2 : SeenAt(p2, w2, x2, M2, phase, remote, announced)
    BY <1>2, <2>1, <2>2 DEF SeenAt, KnownAt, Clearing, Dropping
  <2> QED
    BY <2>1, <2>3 DEF SeenInv
<1>21. CASE ClientAuthDone
  <2>1. /\ p = "cDone" /\ w \in Clients /\ clientTable' = clientTable /\ p2 = "idle"
        /\ Calmly(sockets, [phase EXCEPT ![w] = "established"], remote, announced)
    BY <1>21, CalmReturns DEF ClientAuthDone, Return
  <2>2. /\ Live(Servers, [phase EXCEPT ![w] = "established"]) = Live(Servers, phase)
        /\ Live(Clients, [phase EXCEPT ![w] = "established"])
             = Live(Clients, phase) \cup {w}
    BY <2>1, HubAssumption DEF Live, Sockets
  <2>3. /\ sockets' = sockets /\ phase' = [phase EXCEPT ![w] = "established"]
        /\ remote' = remote /\ announced' = announced
    BY <1>2, <2>1, <2>2, CalmlySame
  <2>4. remote # {} /\ announced = Live(Clients, phase) \cup {w}
    BY <1>1, <1>2, <2>1 DEF Backed, SeenAt, KnownAt
  <2> HIDE DEF M
  <2>5. SeenAt(p2, w2, x2, M, phase', remote', announced')
    <3>1. /\ remote' = Live(Servers, phase')
          /\ remote' = {} => announced' = {} /\ M = {}
          /\ remote' # {} => announced' = Live(Clients, phase')
      BY <1>2, <2>2, <2>3, <2>4
    <3>2. SeenAt("idle", w2, x2, M, phase', remote', announced')
      BY <3>1, SeenIdle
    <3> QED
      BY <2>1, <3>2
  <2> QED
    BY <1>4, <2>1, <2>3, <2>5 DEF SeenInv
<1>22. CASE \/ ClientAuthLimit \/ ClientAuthNoServer \/ ClientAuthRefused
            \/ \E c \in Clients : ClientAuthReject(c) \/ ForwardNowhere(c)
            \/ \E s \in Servers : AcceptCommandLost(s)
  <2>1. \E y \in Sockets :
          /\ Abort("strand", y) /\ p \in {"idle", "cMark", "cSend", "cSending"}
          /\ y \in Servers => phase[y] # "closed" /\ p = "idle"
    BY <1>22, HubAssumption
    DEF ClientAuthLimit, ClientAuthNoServer, ClientAuthRefused,
        ClientAuthReject, ForwardNowhere, AcceptCommandLost, Sockets
  <2> QED
    BY <2>1, SeenAbort
<1>23. ClientReached => p = "kick" \/ p = "down"
  BY DEF ClientReached
<1> QED
  BY <1>6, <1>7, <1>8, <1>9, <1>10, <1>11, <1>12, <1>13, <1>14, <1>15, <1>16,
     <1>17, <1>18, <1>19, <1>20, <1>21, <1>22, <1>23 DEF StrandStep

LEMMA SeenCleanup ==
  ASSUME "silent" \notin Faults, CloseAll = TRUE,
         IInv, Lone, HostedNow, Placing, ClientsInv, SeenInv,
         AbortStep("strand") \/ Environment
  PROVE  SeenInv'
<1> USE DEF IInv, TypeOK, LocalsOK, Threads, At, Goto
<1> DEFINE p == pc["strand"]
           w == who["strand"]
           x == target["strand"]
           M == Members(clientTable)
           p2 == pc'["strand"]
           w2 == who'["strand"]
           x2 == target'["strand"]
<1>1. SeenAt(p, w, x, M, phase, remote, announced)
  BY DEF SeenInv
<1>2. /\ remote = Live(Servers, phase)
      /\ remote = {} => announced = {}
  BY <1>1 DEF SeenAt
<1>3. ASSUME sockets' = sockets, clientTable' = clientTable
      PROVE  Members(clientTable)' = M
  BY <1>3 DEF Members
<1>4. ASSUME Calmly(sockets, phase, remote, announced)
      PROVE  /\ sockets' = sockets /\ phase' = phase
             /\ remote' = remote /\ announced' = announced
  BY <1>2, <1>4 DEF Calmly, Live
<1>5. CASE \E s \in Sockets : AbortBegin("strand", s)
  BY <1>5, SeenAbort DEF AbortBegin
<1>6. CASE AbortFind("strand") /\ w \in Servers
  <2>1. serverTable # NoVec
    BY <1>6, LoneServers DEF AbortFind, Members
  <2>2. /\ phase' = phase /\ sockets' = sockets /\ clientTable' = clientTable
        /\ remote' = remote /\ announced' = announced
        /\ p = "find" /\ p2 = "remove" /\ w2 = w
    BY <1>6, <2>1 DEF AbortFind, IsServer
  <2>3. Leaving(p2, w2) /\ ~Dropping(p, w) /\ ~Dropping(p2, w2)
    BY <1>6, <2>2, HubAssumption DEF Leaving, Dropping
  <2> HIDE DEF M
  <2>4. SeenAt(p2, w2, x2, M, phase, remote, announced)
    BY <1>1, <2>2, <2>3, SeenPlain DEF Clearing
  <2> QED
    BY <1>3, <2>2, <2>4 DEF SeenInv
<1>7. CASE AbortFind("strand") /\ w \in Clients
  <2>1. /\ phase' = phase /\ sockets' = sockets /\ clientTable' = clientTable
        /\ remote' = remote /\ announced' = announced /\ p = "find"
        /\ w \notin Servers /\ Dropping(p, w)
    BY <1>7, HubAssumption DEF AbortFind, Dropping
  <2>2. CASE clientTable = NoVec
    <3>1. p2 = "idle" /\ M = {}
      BY <1>7, <2>1, <2>2 DEF AbortFind, IsServer, Return, Members
    <3>2. remote # {} => announced = Live(Clients, phase)
      <4>1. w \notin announced
        BY <1>1, <2>1, <3>1 DEF SeenAt
      <4>2. remote # {} => announced \ {w} = Live(Clients, phase)
        BY <1>1, <2>1 DEF SeenAt, KnownAt
      <4>3. announced \ {w} = announced
        BY <4>1
      <4> QED
        BY <4>2, <4>3
    <3> HIDE DEF M
    <3>3. SeenAt("idle", w2, x2, M, phase, remote, announced)
      BY <1>2, <3>1, <3>2, SeenIdle
    <3> QED
      BY <1>3, <2>1, <3>1, <3>3 DEF SeenInv
  <2>3. CASE clientTable # NoVec
    <3>1. p2 = "remove" /\ w2 = w
      BY <1>7, <2>1, <2>3 DEF AbortFind, IsServer
    <3>2. Dropping(p2, w)
      BY <1>7, <3>1 DEF Dropping
    <3> HIDE DEF M
    <3>3. SeenAt(p2, w, x2, M, phase, remote, announced)
      BY <1>1, <2>1, <3>2, SeenDropping
    <3> QED
      BY <1>3, <2>1, <3>1, <3>3 DEF SeenInv
  <2> QED
    BY <2>2, <2>3
<1>8. CASE AbortRemove("strand") /\ w \in Servers
  <2>1. /\ Mine("strand") = serverTable /\ serverTable \in ServerVecs
        /\ w \in sockets[serverTable]
    BY <1>8, LoneServers, HubAssumption
    DEF AbortRemove, Members, Mine, IsServer, Lone, Vecs
  <2>2. Calmly([sockets EXCEPT ![serverTable] = {m \in @ : link[m] # link[w]}],
               phase, remote, announced)
    BY <1>8, <2>1, CalmRemovals
  <2>3. /\ phase' = phase /\ remote' = remote /\ announced' = announced
    BY <1>2, <2>2 DEF Calmly, Live
  <2>4. /\ clientTable' = clientTable /\ p = "remove" /\ p2 = "erase" /\ w2 = w
    BY <1>8, <2>1 DEF AbortRemove
  <2>5. Members(clientTable)' = M
    <3>1. \A v \in ClientVecs : sockets'[v] = sockets[v]
      BY <2>1, <2>2, HubAssumption DEF Calmly, Vecs
    <3> QED
      BY <2>4, <3>1 DEF Members
  <2>6. Leaving(p2, w2) /\ ~Dropping(p, w) /\ ~Dropping(p2, w2)
    BY <1>8, <2>4, HubAssumption DEF Leaving, Dropping
  <2> HIDE DEF M
  <2>7. SeenAt(p2, w2, x2, M, phase, remote, announced)
    BY <1>1, <2>4, <2>6, SeenPlain DEF Clearing
  <2> QED
    BY <2>3, <2>5, <2>7 DEF SeenInv
<1>9. CASE AbortRemove("strand") /\ w \in Clients
  <2>1. /\ Mine("strand") = clientTable /\ clientTable \in ClientVecs
        /\ M = sockets[clientTable] /\ p = "remove" /\ Dropping(p, w)
        /\ clientTable' = clientTable
    BY <1>9, HubAssumption DEF AbortRemove, Mine, IsServer, Lone, Members, Vecs, Dropping
  <2>2. Calmly([sockets EXCEPT ![clientTable] = {m \in @ : link[m] # link[w]}],
               phase, remote, announced)
    BY <1>9, <2>1, CalmRemovals
  <2>3. /\ phase' = phase /\ remote' = remote /\ announced' = announced
    BY <1>2, <2>2 DEF Calmly, Live
  <2> DEFINE M2 == {m \in M : link[m] # link[w]}
  <2>4. Members(clientTable)' = M2
    BY <2>1, <2>2, HubAssumption DEF Calmly, Members, Vecs
  <2>5. \/ p2 = "idle" /\ M2 = M
        \/ p2 = "erase" /\ w2 = w
    BY <1>9, <2>1 DEF AbortRemove, Return
  <2> HIDE DEF M
  <2>6. CASE p2 = "idle" /\ M2 = M
    <3>1. w \notin M
      BY <2>6
    <3>2. remote # {} => announced = Live(Clients, phase)
      <4>1. w \notin announced
        BY <1>1, <2>1, <3>1 DEF SeenAt
      <4>2. remote # {} => announced \ {w} = Live(Clients, phase)
        BY <1>1, <2>1 DEF SeenAt, KnownAt
      <4>3. announced \ {w} = announced
        BY <4>1
      <4> QED
        BY <4>2, <4>3
    <3>3. remote = {} => M2 = {}
      BY <1>1, <1>9, <2>1, <2>6, HubAssumption DEF SeenAt, Leaving, Clearing
    <3> HIDE DEF M2
    <3>4. SeenAt("idle", w2, x2, M2, phase, remote, announced)
      BY <1>2, <3>2, <3>3, SeenIdle
    <3> QED
      BY <2>3, <2>4, <2>6, <3>4 DEF SeenInv
  <2>7. CASE p2 = "erase" /\ w2 = w
    <3>1. Dropping(p2, w) /\ M2 \subseteq M
      BY <1>9, <2>7 DEF Dropping
    <3> HIDE DEF M2
    <3>2. SeenAt(p2, w, x2, M2, phase, remote, announced)
      BY <1>1, <2>1, <2>7, <3>1, SeenDropping
    <3> QED
      BY <2>3, <2>4, <2>7, <3>2 DEF SeenInv
  <2> QED
    BY <2>5, <2>6, <2>7
<1>10. CASE AbortErase("strand")
  <2>1. sockets' = sockets /\ phase' = phase /\ remote' = remote /\ announced' = announced
    BY <1>4, <1>10, CalmRemovals
  <2>2. p = "erase" /\ p2 = "recheck" /\ w2 = w
    BY <1>10 DEF AbortErase
  <2>3. Members(clientTable)' = M
    <3>1. CASE clientTable' = clientTable
      BY <1>3, <2>1, <3>1
    <3>2. CASE clientTable' # clientTable
      <4>1. /\ w \notin Servers /\ sockets[Mine("strand")] = {} /\ clientTable' = NoVec
        BY <1>10, <3>2 DEF AbortErase, IsServer
      <4>2. Mine("strand") = clientTable
        BY <2>2, <4>1, HubAssumption DEF Mine, IsServer, Lone, Vecs
      <4> QED
        BY <4>1, <4>2 DEF Members
    <3> QED
      BY <3>1, <3>2
  <2> HIDE DEF M
  <2>4. SeenAt(p2, w2, x2, M, phase, remote, announced)
    <3>1. CASE w \in Clients
      <4>1. Dropping(p, w) /\ Dropping(p2, w)
        BY <2>2, <3>1 DEF Dropping
      <4> QED
        BY <1>1, <2>2, <4>1, SeenDropping
    <3>2. CASE w \in Servers
      <4>1. Leaving(p2, w2) /\ ~Dropping(p, w) /\ ~Dropping(p2, w2)
        BY <2>2, <3>2, HubAssumption DEF Leaving, Dropping
      <4> QED
        BY <1>1, <2>2, <4>1, SeenPlain DEF Clearing
    <3> QED
      BY <2>2, <3>1, <3>2 DEF Sockets
  <2> QED
    BY <2>1, <2>3, <2>4 DEF SeenInv
<1>11. CASE AbortRecheck("strand")
  <2>1. sockets' = sockets /\ phase' = phase /\ remote' = remote /\ announced' = announced
    BY <1>4, <1>11, CalmReturns
  <2>2. p = "recheck" /\ clientTable' = clientTable
    BY <1>11 DEF AbortRecheck
  <2>3. CASE w \in Clients
    <3>1. p2 = "sayAbort" /\ w2 = w
      BY <1>11, <2>3, HubAssumption DEF AbortRecheck, IsServer
    <3>2. Dropping(p, w) /\ Dropping(p2, w)
      BY <2>2, <2>3, <3>1 DEF Dropping
    <3> HIDE DEF M
    <3>3. SeenAt(p2, w, x2, M, phase, remote, announced)
      BY <1>1, <3>1, <3>2, SeenDropping
    <3> QED
      BY <1>3, <2>1, <2>2, <3>1, <3>3 DEF SeenInv
  <2>4. CASE w \in Servers
    <3>1. sv["strand"] \in ServerVecs /\ Mine("strand") = sv["strand"]
      BY <2>2, <2>4 DEF Mine, IsServer
    <3>2. CASE sockets[sv["strand"]] = {}
      <4>1. Members(serverTable) = {}
        BY <3>1, <3>2, HubAssumption DEF Members, Lone, Vecs
      <4>2. remote = {} /\ announced = {}
        BY <1>2, <2>2, <4>1, LiveServers
      <4>3. p2 = "clearFind"
        BY <1>11, <2>4, <3>1, <3>2 DEF AbortRecheck, IsServer
      <4> HIDE DEF M
      <4>4. SeenAt(p2, w2, x2, M, phase, remote, announced)
        BY <1>2, <4>2, <4>3 DEF SeenAt, Clearing, Dropping
      <4> QED
        BY <1>3, <2>1, <2>2, <4>4 DEF SeenInv
    <3>3. CASE sockets[sv["strand"]] # {}
      <4>1. Members(serverTable) # {}
        BY <3>1, <3>3, HubAssumption DEF Members, Lone, Vecs
      <4>2. remote # {}
        BY <1>2, <2>2, <4>1, LiveServers
      <4>3. p2 = "idle"
        BY <1>11, <2>4, <3>1, <3>3 DEF AbortRecheck, IsServer, Return
      <4>4. announced = Live(Clients, phase)
        BY <1>1, <2>2, <2>4, <4>2, HubAssumption DEF SeenAt, KnownAt, Clearing, Dropping
      <4> HIDE DEF M
      <4>5. SeenAt("idle", w2, x2, M, phase, remote, announced)
        BY <1>2, <4>2, <4>4, SeenIdle
      <4> QED
        BY <1>3, <2>1, <2>2, <4>3, <4>5 DEF SeenInv
    <3> QED
      BY <3>2, <3>3
  <2> QED
    BY <2>2, <2>3, <2>4 DEF Sockets
<1>12. CASE SayAbort("strand")
  <2>1. /\ phase' = phase /\ sockets' = sockets /\ clientTable' = clientTable
        /\ remote' = remote /\ announced' = announced
        /\ p = "sayAbort" /\ w \in Clients /\ Dropping(p, w)
    BY <1>12 DEF SayAbort, Dropping
  <2>2. CASE Members(serverTable) = {}
    <3>1. remote = {} /\ announced = {}
      BY <1>2, <2>1, <2>2, LiveServers
    <3>2. M = {}
      BY <1>1, <2>1, <3>1 DEF SeenAt, Leaving, Clearing
    <3>3. p2 = "idle"
      BY <1>12, <2>2 DEF SayAbort, Return
    <3> HIDE DEF M
    <3>4. SeenAt("idle", w2, x2, M, phase, remote, announced)
      BY <1>2, <3>1, <3>2, SeenIdle
    <3> QED
      BY <1>3, <2>1, <3>3, <3>4 DEF SeenInv
  <2>3. CASE Members(serverTable) # {}
    <3>1. p2 = "saying" /\ w2 = w
      BY <1>12, <2>3 DEF SayAbort
    <3>2. Dropping(p2, w)
      BY <2>1, <3>1 DEF Dropping
    <3> HIDE DEF M
    <3>3. SeenAt(p2, w, x2, M, phase, remote, announced)
      BY <1>1, <2>1, <3>1, <3>2, SeenDropping
    <3> QED
      BY <1>3, <2>1, <3>1, <3>3 DEF SeenInv
  <2> QED
    BY <2>2, <2>3
<1>13. CASE Saying("strand")
  <2>1. /\ clientTable' = clientTable /\ p = "saying" /\ p2 = "idle"
        /\ w \in Clients /\ Dropping(p, w)
    BY <1>13 DEF Saying, Return, Dropping
  <2>2. PICK told :
          /\ Calmly(sockets, phase, remote, told)
          /\ told = IF phase[x] # "closed" /\ x \in remote
                      THEN announced \ {w} ELSE announced
    BY <1>13, CalmReturns
  <2>3. x \in remote
    BY <1>2, <2>1, LiveServers DEF Lone
  <2>4. phase[x] = "established"
    BY <1>2, <2>3 DEF Live
  <2>5. /\ sockets' = sockets /\ phase' = phase /\ remote' = remote
        /\ announced' = announced \ {w}
    BY <1>2, <2>2, <2>3, <2>4, CalmlySame
  <2>6. announced \ {w} = Live(Clients, phase)
    BY <1>1, <2>1, <2>3 DEF SeenAt, KnownAt
  <2> HIDE DEF M
  <2>7. SeenAt("idle", w2, x2, M, phase, remote, announced \ {w})
    BY <1>2, <2>3, <2>6, SeenIdle
  <2> QED
    BY <1>3, <2>1, <2>5, <2>7 DEF SeenInv
<1>14. CASE ClearNothing("strand")
  <2>1. /\ p = "clearFind" /\ clientTable = NoVec /\ M = {} /\ w \in Servers
    BY <1>14 DEF ClearNothing, Members, Lone
  <2>2. CASE phase[w] = "closed"
    <3>1. /\ phase' = phase /\ sockets' = sockets /\ clientTable' = clientTable
          /\ remote' = remote /\ announced' = announced /\ p2 = "offline"
      BY <1>14, <2>2 DEF ClearNothing
    <3>2. announced = {} /\ Live(Clients, phase) = {}
      BY <1>1, <2>1, LiveClients DEF SeenAt, Clearing
    <3> HIDE DEF M
    <3>3. SeenAt("offline", w2, x2, M, phase, remote, announced)
      BY <1>2, <2>1, <3>2, SeenIdle
    <3> QED
      BY <1>3, <3>1, <3>3 DEF SeenInv
  <2>3. CASE phase[w] # "closed"
    <3>1. Abort("strand", w) /\ w \in Sockets
      BY <1>14, <2>1, <2>3 DEF ClearNothing, Sockets
    <3> QED
      BY <2>1, <2>3, <3>1, SeenAbort
  <2> QED
    BY <2>2, <2>3
<1>15. CASE \/ ClearFind("strand") \/ ClearSnapshot("strand")
            \/ ClearRemove("strand") \/ ClearClose("strand")
  <2>1. /\ \A s \in Servers : phase'[s] = phase[s]
        /\ remote' = remote /\ announced' = announced
        /\ p \in Clearing /\ p2 \in Clearing
    <3>1. CASE ClearFind("strand") \/ ClearSnapshot("strand") \/ ClearRemove("strand")
      BY <3>1 DEF ClearFind, ClearSnapshot, ClearRemove, Clearing
    <3>2. CASE ClearClose("strand")
      BY <3>2, HubAssumption DEF ClearClose, Clearing
    <3> QED
      BY <1>15, <3>1, <3>2
  <2>2. announced = {} /\ Live(Servers, phase') = Live(Servers, phase)
    BY <1>1, <2>1 DEF SeenAt, Live
  <2>3. /\ ~Dropping(p2, w2) /\ p2 # "sPush"
    BY <2>1 DEF Dropping, Clearing
  <2>4. \A M2 : SeenAt(p2, w2, x2, M2, phase', remote', announced')
    <3>1. \A up, ann : KnownAt(p2, w2, x2, up, ann)
      BY <2>1, <2>3 DEF KnownAt, Clearing
    <3> QED
      BY <1>2, <2>1, <2>2, <2>3, <3>1 DEF SeenAt
  <2> QED
    BY <2>4 DEF SeenInv
<1>16. CASE ClearRest("strand")
  <2>1. /\ p = "closing" /\ handles["strand"] = {} /\ p2 \in {"offline", "idle"}
        /\ clientTable' = clientTable
        /\ cv["strand"] = clientTable /\ clientTable \in ClientVecs
        /\ Calmly([sockets EXCEPT ![clientTable] = {}], phase, remote, announced)
    <3>1. cv["strand"] = clientTable /\ clientTable \in ClientVecs
      BY <1>16, HubAssumption DEF ClearRest, Lone, Vecs
    <3>2. /\ p = "closing" /\ handles["strand"] = {} /\ p2 \in {"offline", "idle"}
          /\ clientTable' = clientTable
      BY <1>16 DEF ClearRest, Return
    <3> QED
      BY <1>16, <3>1, <3>2, CalmRemovals
  <2>2. /\ phase' = phase /\ remote' = remote /\ announced' = announced
        /\ sockets' = [sockets EXCEPT ![clientTable] = {}]
    BY <1>2, <2>1 DEF Calmly, Live
  <2>3. Members(clientTable)' = {}
    BY <2>1, <2>2, HubAssumption DEF Members, Vecs
  <2>4. M = {} /\ announced = {}
    BY <1>1, <2>1 DEF ClientsInv, ClientsAt, SeenAt, Clearing
  <2>5. Live(Clients, phase) = {}
    BY <2>1, <2>4, LiveClients
  <2>6. SeenAt(p2, w2, x2, {}, phase, remote, announced)
    <3>1. remote # {} => announced = Live(Clients, phase)
      BY <2>4, <2>5
    <3>2. \A q \in {"idle", "offline"} :
            SeenAt(q, w2, x2, {}, phase, remote, announced)
      BY <1>2, <3>1, SeenIdle
    <3> QED
      BY <2>1, <3>2
  <2> QED
    BY <2>2, <2>3, <2>6 DEF SeenInv
<1>17. CASE SendbackOffline("strand") \/ AdvertiseOffline("strand")
  <2>1. /\ phase' = phase /\ sockets' = sockets /\ clientTable' = clientTable
        /\ remote' = remote /\ announced' = announced
        /\ p \in {"offline", "advertise"} /\ p2 \in {"advertise", "idle"}
    BY <1>17 DEF SendbackOffline, AdvertiseOffline, Return
  <2>2. ~Dropping(p, w) /\ ~Dropping(p2, w2) /\ ~Leaving(p, w)
    BY <2>1 DEF Dropping, Leaving
  <2> HIDE DEF M
  <2>3. SeenAt(p2, w2, x2, M, phase, remote, announced)
    BY <1>1, <2>1, <2>2, SeenPlain DEF Clearing
  <2> QED
    BY <1>3, <2>1, <2>3 DEF SeenInv
<1>18. CASE Environment
  <2>1. /\ p2 = p /\ w2 = w /\ x2 = x
        /\ sockets' = sockets /\ clientTable' = clientTable
        /\ remote' = remote /\ announced' = announced
        /\ \A s \in Sockets : phase'[s] = "established" <=> phase[s] = "established"
    BY <1>18 DEF Environment, Accept, Recycle, SilentLoss, local
  <2>2. /\ Live(Servers, phase') = Live(Servers, phase)
        /\ Live(Clients, phase') = Live(Clients, phase)
    BY <2>1 DEF Live, Sockets
  <2> HIDE DEF M
  <2>3. SeenAt(p, w, x, M, phase', remote, announced)
    BY <1>1, <2>2 DEF SeenAt
  <2> QED
    BY <1>3, <2>1, <2>3 DEF SeenInv
<1>19. \/ ~AbortFind("strand") /\ ~AbortRemove("strand")
       \/ w \in Servers \/ w \in Clients
  BY DEF AbortFind, AbortRemove, Sockets
<1> QED
  BY <1>5, <1>6, <1>7, <1>8, <1>9, <1>10, <1>11, <1>12, <1>13, <1>14, <1>15,
     <1>16, <1>17, <1>18, <1>19 DEF AbortStep

LEMMA SeenInit ==
  ASSUME Init
  PROVE  SeenInv
<1>1. /\ pc["strand"] = "idle" /\ Members(clientTable) = {}
      /\ Live(Servers, phase) = {} /\ remote = {} /\ announced = {}
  BY DEF Init, Members, Live, Threads, Sockets
<1>2. SeenAt("idle", who["strand"], target["strand"], {}, phase, remote, announced)
  BY <1>1, SeenIdle
<1> QED
  BY <1>1, <1>2 DEF SeenInv

\* When no handler runs, an inner server that is reachable has been told of
\* exactly the clients that are established, and no client outlives the last
\* channel of its server: as long as the strand alone runs the handlers, the
\* inner server loses no channel that the hub still counts on, the numbers
\* suffice, and the hub closes the clients of a group that goes down.  A
\* client that an inner server has had closed stays in the vector, so without
\* that last condition the next inner server would be told of it.
THEOREM ServersTold ==
  ASSUME "timer" \notin Faults, "silent" \notin Faults, CloseAll = TRUE,
         Cardinality(Servers) <= Cardinality(LinkNos),
         \A n \in MaxFDs : n < Cardinality(LinkNos), LinkNos # {}
  PROVE  Spec => []ServerSeesClients
<1> DEFINE Inv == /\ IInv /\ RoomLeft /\ Placing /\ TableInv /\ Lone
                  /\ PeersInv /\ ClientsInv /\ SeenInv
<1>1. Init => Inv
  BY TableInit, PlacingInit, LoneInit, ClientsInit, SeenInit
<1>2. Inv /\ [Next]_vars => Inv'
  <2> SUFFICES ASSUME Inv, [Next]_vars PROVE Inv'
    OBVIOUS
  <2>1. IInv' /\ RoomLeft' /\ Placing' /\ TableInv'
    BY StepTyped, PlacingStep, TableStep DEF Lone
  <2>2. /\ Lone'
        /\ \/ StrandStep \/ AbortStep("strand") \/ Environment
           \/ UNCHANGED vars
    BY LoneStep DEF TableInv, Placing
  <2>3. HostedNow
    BY DEF TableInv, HostedNow
  <2>4. CASE UNCHANGED vars
    BY <2>1, <2>2, <2>4 DEF vars, local, peer, PeersInv, ClientsInv, SeenInv, Members
  <2>5. CASE StrandStep \/ AbortStep("strand") \/ Environment
    <3>1. PeersInv'
      BY <2>3, <2>5, PeersStrand, PeersCleanup
    <3>2. ClientsInv'
      BY <2>5, ClientsStep
    <3>3. SeenInv'
      BY <2>3, <2>5, SeenStrand, SeenCleanup
    <3> QED
      BY <2>1, <2>2, <3>1, <3>2, <3>3
  <2> QED
    BY <2>2, <2>4, <2>5
<1>3. Inv => ServerSeesClients
  <2> SUFFICES ASSUME Inv, Quiet
               PROVE  /\ remote # {} => announced = Established(Clients)
                      /\ Established(Servers) = {} => Established(Clients) = {}
    BY DEF ServerSeesClients
  <2>1. pc["strand"] = "idle"
    BY DEF Quiet, At, Threads
  <2>2. /\ Established(Clients) = Live(Clients, phase)
        /\ Established(Servers) = Live(Servers, phase)
    BY DEF Established, Live
  <2>3. /\ remote = Live(Servers, phase)
        /\ remote # {} => announced = Live(Clients, phase)
        /\ remote = {} => Members(clientTable) = {}
    BY <2>1 DEF SeenInv, SeenAt, KnownAt, Leaving, Dropping, Clearing
  <2>4. Live(Clients, phase) \subseteq Members(clientTable)
    BY <2>1, LiveClients
  <2> QED
    BY <2>2, <2>3, <2>4
<1> QED
  BY <1>1, <1>2, <1>3, PTL DEF Spec
=============================================================================
