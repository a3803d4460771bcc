--------------------------- MODULE ServerDirectory --------------------------
(***************************************************************************)
(* The directory of inner servers: how the hub tells every inner server's  *)
(* process which servers there are (PushAllAcceptServer, ProcessAbort and  *)
(* ProcessTransitroute of ServerStageSocketHandler), and how each process  *)
(* keeps its table of server sockets from what it is told (StageClient).   *)
(*                                                                         *)
(* A process holds several links (channels) to the hub; the hub's group of *)
(* a server is its vector of links, and a message to the server goes over  *)
(* any one of them, so two messages may overtake each other.  The hub runs *)
(* logins and messages on the strand; a link is taken down by the strand   *)
(* or by the timer thread.  Between any two steps the process may lose a   *)
(* link, with everything under way on it.                                  *)
(*                                                                         *)
(* A step is one critical section: a login looks its group's vector up and *)
(* joins it later, an abort finds the vector, leaves it and takes it from  *)
(* the table.  A vector bears the name of the link it was made for, and one*)
(* that is in no table any more lives on while a thread refers to it.      *)
(* The variables doubt and unlisted are history: they name the hazards.    *)
(* Only the processes in Watched are followed: a process never acts on what*)
(* it is told but by its table, so the hub does not depend on the others.  *)
(* Each link is used once.  MaxLogins bounds the logins, MaxSends the       *)
(* messages between servers, and MaxUnread what is under way before the    *)
(* hub sends more.                                                         *)
(***************************************************************************)
EXTENDS Naturals, Sequences, FiniteSets, SequencesExt

CONSTANTS Servers, Links, Owner, NoLink, Watched, MaxLogins, MaxSends, MaxUnread

ASSUME OwnerAssumption == Owner \in [Links -> Servers]
ASSUME ServerAssumption == Servers # {} /\ Watched \subseteq Servers
ASSUME LinkAssumption == NoLink \notin Links
ASSUME BoundAssumption == MaxLogins \in Nat /\ MaxSends \in Nat /\ MaxUnread \in Nat

Threads == {"strand", "timer"}

VARIABLES
  table,     \* oServerSocket: the vector of each server's group, or NoLink
  members,   \* the links in each vector
  shut,      \* links whose socket the hub has disposed
  job,       \* what each thread of the hub is doing
  stored,    \* senders of the packets the sendback controller keeps, by server
  net,       \* what is under way on each link, to the process
  end,       \* the process's end of each link
  old,       \* server sockets the abort of a link has still to close
  known,     \* _serverSocketTable of each process
  sends,     \* messages servers have sent each other
  doubt,     \* servers of whom a process may have a wrong idea
  unlisted   \* processes that emptied their table after the hub's last list

groups == <<table, members>>
hub == <<groups, shut, stored>>
process == <<end, old, known>>
history == <<doubt, unlisted>>
vars == <<hub, job, net, process, sends, history>>

Kinds == {"success", "accept", "abort", "data"}
Notice == [kind : Kinds, server : Servers]
Message(kind, s) == [kind |-> kind, server |-> s]

\* A thread's work: for which server and link, the vector a local variable
\* refers to, the servers still to be told, and the link picked to tell one.
Work(step, s, l, v, todo) ==
  [step |-> step, server |-> s, link |-> l, vec |-> v, pick |-> NoLink, todo |-> todo]

Idle == Work("idle", CHOOSE s \in Servers : TRUE, NoLink, NoLink, {})

MaybeLink == Links \cup {NoLink}

Steps == {"idle", "insert", "announce", "list", "tell", "drain", "find", "remove",
          "erase", "recheck", "withdraw", "route", "keep"}

Job == [step : Steps, server : Servers, link : MaybeLink, vec : MaybeLink,
        pick : MaybeLink, todo : SUBSET Servers]

\* "clear" and "close": the abort of the last link empties the table.
Ends == {"new", "joining", "up", "clear", "close", "down"}

TypeOK ==
  /\ table \in [Servers -> MaybeLink]
  /\ members \in [Links -> SUBSET Links]
  /\ shut \subseteq Links
  /\ job \in [Threads -> Job]
  /\ stored \in [Servers -> SUBSET Servers]
  /\ net \in [Links -> Seq(Notice)]
  /\ end \in [Links -> Ends]
  /\ old \in [Links -> SUBSET Servers]
  /\ known \in [Servers -> SUBSET Servers]
  /\ sends \in 0 .. MaxSends
  /\ doubt \in [Servers -> SUBSET Servers]
  /\ unlisted \subseteq Servers

Init ==
  /\ table = [s \in Servers |-> NoLink]
  /\ members = [v \in Links |-> {}]
  /\ shut = {}
  /\ job = [t \in Threads |-> Idle]
  /\ stored = [s \in Servers |-> {}]
  /\ net = [l \in Links |-> <<>>]
  /\ end = [l \in Links |-> "new"]
  /\ old = [l \in Links |-> {}]
  /\ known = [s \in Servers |-> {}]
  /\ sends = 0
  /\ doubt = [s \in Servers |-> {}] /\ unlisted = {}

At(t, step) == job[t].step = step
Goto(t, step) == job' = [job EXCEPT ![t].step = step]
Start(t, work) == job' = [job EXCEPT ![t] = work]
Finish(t) == Start(t, Idle)

\* No other thread is handling this link, whose socket it would have locked.
FreeFor(t, l) == \A u \in Threads \ {t} : job[u].link # l

Group(s) == IF table[s] = NoLink THEN {} ELSE members[table[s]]
Online(s) == Group(s) # {}

\* The link has logged in and the hub has not closed it.
Live(l) == end[l] # "new" /\ l \notin shut

-----------------------------------------------------------------------------
(* A message to a server, and what the history remembers of it.            *)

LinksOf(s) == {l \in Links : Owner[l] = s}

Open(l) == end[l] \in {"joining", "up"}

\* The socket takes it and the process is still there to get it.
Carries(l) == l # NoLink /\ l \notin shut /\ Open(l)

Watches(l) == l # NoLink /\ Owner[l] \in Watched

Sent(n, l, m) == IF Carries(l) /\ Watches(l) THEN [n EXCEPT ![l] = Append(@, m)] ELSE n

\* A message of any kind about a server enters it in the table, but for the
\* one that takes it out.
Enters(m) == m.kind # "abort"

About(l, a) == {m \in ToSet(net[l]) : m.kind # "success" /\ m.server = a}

Crosses(b, l, m) ==
  \E k \in LinksOf(b) \ {l} : \E o \in About(k, m.server) : Enters(o) # Enters(m)

\* The process b will be right about the message's server: it is true, it
\* arrives, and nothing that says the opposite is under way elsewhere.
Settles(b, l, m) ==
  Carries(l) /\ ~Crosses(b, l, m) /\ (Enters(m) <=> Online(m.server))

DoubtAfter(b, l, m) ==
  IF b \notin Watched THEN doubt
  ELSE IF Settles(b, l, m) THEN [doubt EXCEPT ![b] = @ \ {m.server}]
                      ELSE [doubt EXCEPT ![b] = @ \cup {m.server}]

Tell(b, l, m) == net' = Sent(net, l, m) /\ doubt' = DoubtAfter(b, l, m)

-----------------------------------------------------------------------------
(* A server logs in (ServerStageSocketHandler::ProcessAuthentication).      *)

\* Under the mutex of the server object: the group's vector, or a new one.
Login(l) ==
  LET s == Owner[l] IN
  /\ At("strand", "idle") /\ end[l] = "new"
  /\ end' = [end EXCEPT ![l] = "joining"]
  /\ IF table[s] # NoLink
       THEN UNCHANGED groups
       ELSE /\ table' = [table EXCEPT ![s] = l]
            /\ members' = [members EXCEPT ![l] = {}]
  /\ Start("strand", Work("insert", s, l, table'[s], {}))
  /\ UNCHANGED <<shut, stored, net, old, known, sends, history>>

\* Under the vector's, which may have left the table meanwhile.  Only the first
\* link of a vector is announced and is sent the list.
LoginInsert ==
  LET j == job["strand"] IN
  /\ At("strand", "insert")
  /\ members' = [members EXCEPT ![j.vec] = @ \cup {j.link}]
  /\ net' = Sent(net, j.link, Message("success", j.server))
  /\ IF members[j.vec] # {}
       THEN Finish("strand") /\ UNCHANGED unlisted
       ELSE /\ Start("strand", Work("announce", j.server, j.link, j.vec, Watched))
            /\ unlisted' = unlisted \ {j.server}
  /\ UNCHANGED <<table, shut, stored, process, sends, doubt>>

\* PushToAllServer, for one group after the other: the group's vector and a link
\* of it are picked, without the mutex of its socket ...
NextSocket(t, b) ==
  /\ job[t].step \in {"announce", "withdraw"} /\ job[t].pick = NoLink
  /\ b \in job[t].todo /\ Online(b)
  /\ \E l \in Group(b) : job' = [job EXCEPT ![t].pick = l]
  /\ UNCHANGED <<hub, net, process, sends, history>>

Tells(t, b, l, kind) ==
  /\ Tell(b, l, Message(kind, job[t].server))
  /\ job' = [job EXCEPT ![t].pick = NoLink, ![t].todo = @ \ {b}]
  /\ UNCHANGED <<hub, process, sends, unlisted>>

\* ... and the socket is locked and sent to, if it is not disposed by then.
PushToServer(t, kind) ==
  LET l == job[t].pick IN
  /\ l # NoLink /\ FreeFor(t, l) /\ Tells(t, Owner[l], l, kind)

\* A group without links is told nothing.
NoSocket(t, b, kind) ==
  /\ job[t].pick = NoLink /\ b \in job[t].todo /\ ~Online(b)
  /\ Tells(t, b, NoLink, kind)

Announce ==
  /\ At("strand", "announce")
  /\ PushToServer("strand", "accept") \/ \E b \in Servers : NoSocket("strand", b, "accept")

\* A mutant: the new server is announced to the others and not they to it.
AnnouncedOnly ==
  /\ At("strand", "announce") /\ job["strand"].todo = {}
  /\ Goto("strand", "drain")
  /\ UNCHANGED <<hub, net, process, sends, history>>

\* A process that is not followed is not listed to.
Announced ==
  /\ At("strand", "announce") /\ job["strand"].todo = {}
  /\ job' = [job EXCEPT !["strand"].step = "list",
                        !["strand"].todo = IF Watches(job["strand"].link) THEN Servers ELSE {}]
  /\ UNCHANGED <<hub, net, process, sends, history>>

\* The list: the vector of a group is looked up, then told to the new link.
GetAllSocketVector(a) ==
  /\ At("strand", "list") /\ a \in job["strand"].todo
  /\ IF Online(a)
       THEN job' = [job EXCEPT !["strand"].step = "tell",
                               !["strand"].todo = @ \ {a},
                               !["strand"].server = a]
       ELSE job' = [job EXCEPT !["strand"].todo = @ \ {a}]
  /\ UNCHANGED <<hub, net, process, sends, history>>

CreateAcceptServer ==
  LET l == job["strand"].link IN
  /\ At("strand", "tell")
  /\ Tell(Owner[l], l, Message("accept", job["strand"].server))
  /\ job' = [job EXCEPT !["strand"].step = "list", !["strand"].server = Owner[l]]
  /\ UNCHANGED <<hub, process, sends, unlisted>>

\* The packets kept for the server follow, whoever has sent them and whether
\* that server is still there or not.
OnOnline ==
  LET s == job["strand"].server IN
  /\ At("strand", "list") /\ job["strand"].todo = {}
  /\ job' = [job EXCEPT !["strand"].step = "drain", !["strand"].todo = stored[s]]
  /\ stored' = [stored EXCEPT ![s] = {}]
  /\ UNCHANGED <<groups, shut, net, process, sends, history>>

\* One packet of a, which may have sent more than one.
OnOnlineSend(a) ==
  LET j == job["strand"] IN
  /\ At("strand", "drain") /\ a \in j.todo
  /\ Tell(j.server, j.link, Message("data", a))
  /\ \/ job' = [job EXCEPT !["strand"].todo = @ \ {a}]
     \/ UNCHANGED job
  /\ UNCHANGED <<hub, process, sends, unlisted>>

LoginDone ==
  /\ At("strand", "drain") /\ job["strand"].todo = {}
  /\ Finish("strand")
  /\ UNCHANGED <<hub, net, process, sends, history>>

-----------------------------------------------------------------------------
(* A link is taken down, by either thread (ProcessAbort, ResourcesCleanup).  *)

CloseLink(t, l) ==
  /\ At(t, "idle") /\ Live(l) /\ FreeFor(t, l)
  /\ shut' = shut \cup {l}
  /\ Start(t, Work("find", Owner[l], l, NoLink, {}))
  /\ UNCHANGED <<groups, stored, net, process, sends, history>>

AbortFind(t) ==
  LET v == table[job[t].server] IN
  /\ At(t, "find")
  /\ IF v = NoLink THEN Finish(t)
     ELSE Start(t, Work("remove", job[t].server, job[t].link, v, {}))
  /\ UNCHANGED <<hub, net, process, sends, history>>

\* The link may have joined another vector: then nobody is told.
AbortRemove(t) ==
  LET j == job[t] IN
  /\ At(t, "remove")
  /\ IF j.link \notin members[j.vec] THEN Finish(t) /\ UNCHANGED members
     ELSE /\ members' = [members EXCEPT ![j.vec] = @ \ {j.link}]
          /\ Goto(t, "erase")
  /\ UNCHANGED <<table, shut, stored, net, process, sends, history>>

\* The entry is erased by its link type: it may hold another vector by now.
AbortErase(t) ==
  LET j == job[t] IN
  /\ At(t, "erase")
  /\ table' = IF members[j.vec] = {} THEN [table EXCEPT ![j.server] = NoLink] ELSE table
  /\ Goto(t, "recheck")
  /\ UNCHANGED <<members, shut, stored, net, process, sends, history>>

\* The vector is read once more: if it has a member by now, nobody is told,
\* although it may not be the server's group any more.
AbortRecheck(t) ==
  LET j == job[t] IN
  /\ At(t, "recheck")
  /\ IF members[j.vec] = {}
       THEN Start(t, Work("withdraw", j.server, j.link, NoLink, Watched)) /\ UNCHANGED doubt
       ELSE /\ Finish(t)
            /\ doubt' = IF Online(j.server) THEN doubt
                        ELSE [b \in Servers |-> IF b \in Watched THEN doubt[b] \cup {j.server}
                                                ELSE doubt[b]]
  /\ UNCHANGED <<hub, net, process, sends, unlisted>>

\* A mutant: the others are not told that the server has gone.
WithdrawSilently(t) ==
  /\ At(t, "withdraw") /\ job[t].pick # NoLink
  /\ job' = [job EXCEPT ![t].pick = NoLink, ![t].todo = @ \ {Owner[job[t].pick]}]
  /\ UNCHANGED <<hub, net, process, sends, history>>

Withdraw(t) ==
  /\ At(t, "withdraw")
  /\ PushToServer(t, "abort") \/ \E b \in Servers : NoSocket(t, b, "abort")

Withdrawn(t) ==
  /\ At(t, "withdraw") /\ job[t].todo = {}
  /\ Finish(t)
  /\ UNCHANGED <<hub, net, process, sends, history>>

\* ~SocketVectorObject: a vector nothing refers to closes its links, and nobody
\* is told.  (A thread that goes through all groups may put it off.)
Destroy(v) ==
  /\ members[v] # {} /\ \A s \in Servers : table[s] # v
  /\ \A t \in Threads : job[t].vec # v /\ job[t].link \notin members[v]
  /\ shut' = shut \cup members[v]
  /\ members' = [members EXCEPT ![v] = {}]
  /\ UNCHANGED <<table, stored, job, net, process, sends, history>>

-----------------------------------------------------------------------------
(* A message from one server to another, and the packets kept.             *)

\* The link it came by is locked; the one it leaves by is only picked.
ProcessTransitroute(l, b) ==
  /\ At("strand", "idle") /\ sends < MaxSends
  /\ Live(l) /\ FreeFor("strand", l) /\ b \in Watched
  /\ sends' = sends + 1
  /\ IF Online(b)
       THEN \E k \in Group(b) :
              Start("strand", [Work("route", Owner[l], l, NoLink, {b}) EXCEPT !.pick = k])
       ELSE Start("strand", Work("keep", Owner[l], l, NoLink, {b}))
  /\ UNCHANGED <<hub, net, process, history>>

RouteSend ==
  LET j == job["strand"] IN
  /\ At("strand", "route") /\ FreeFor("strand", j.pick)
  /\ IF j.pick \in shut
       THEN Goto("strand", "keep") /\ UNCHANGED <<net, doubt>>
       ELSE /\ Tell(Owner[j.pick], j.pick, Message("data", j.server))
            /\ Finish("strand")
  /\ UNCHANGED <<hub, process, sends, unlisted>>

\* The sendback controller, which may have no room.
AddSendback ==
  LET j == job["strand"] IN
  /\ At("strand", "keep")
  /\ \/ \E b \in j.todo : stored' = [stored EXCEPT ![b] = @ \cup {j.server}]
     \/ UNCHANGED stored
  /\ Finish("strand")
  /\ UNCHANGED <<groups, shut, net, process, sends, history>>

\* The controller gives up what it has kept too long.
ResetSendback(s) ==
  /\ stored[s] # {}
  /\ stored' = [stored EXCEPT ![s] = {}]
  /\ UNCHANGED <<groups, shut, job, net, process, sends, history>>

-----------------------------------------------------------------------------
(* The processes.                                                          *)

AddServerSocket(b, a) == [known EXCEPT ![b] = @ \cup {a}]
AbortServerSocket(b, a) == [known EXCEPT ![b] = @ \ {a}]

ProcessExchange(l) ==
  LET m == Head(net[l]) IN
  /\ Open(l) /\ net[l] # <<>>
  /\ net' = [net EXCEPT ![l] = Tail(@)]
  /\ IF m.kind = "success"
       THEN end' = [end EXCEPT ![l] = "up"] /\ UNCHANGED known
       ELSE /\ UNCHANGED end
            /\ known' = IF Enters(m) THEN AddServerSocket(Owner[l], m.server)
                                     ELSE AbortServerSocket(Owner[l], m.server)
  /\ UNCHANGED <<hub, job, old, sends, history>>

\* What is lost with a link leaves the process with an old idea of it.  Under the
\* client's mutex it is decided whether this was the last one ...
ProcessAbort(l) ==
  LET s == Owner[l]
      last == \A k \in LinksOf(s) \ {l} : end[k] # "up" IN
  /\ Open(l) /\ Watches(l)
  /\ end' = [end EXCEPT ![l] = IF last THEN "clear" ELSE "down"]
  /\ net' = [net EXCEPT ![l] = <<>>]
  /\ doubt' = [doubt EXCEPT ![s] = @ \cup {a \in Servers : About(l, a) # {}}]
  /\ UNCHANGED <<hub, job, old, known, sends, unlisted>>

\* ... and if so the table is emptied, in a critical section of its own: what a
\* link that has opened since then was sent goes with the rest ...
AbortAllServerSockets(l) ==
  LET s == Owner[l] IN
  /\ end[l] = "clear"
  /\ end' = [end EXCEPT ![l] = IF known[s] = {} THEN "down" ELSE "close"]
  /\ old' = [old EXCEPT ![l] = known[s]]
  /\ known' = [known EXCEPT ![s] = {}]
  /\ unlisted' = unlisted \cup {s}
  /\ doubt' = [doubt EXCEPT ![s] =
                  {a \in Servers : \E k \in LinksOf(s) : About(k, a) # {}}]
  /\ UNCHANGED <<hub, job, net, sends>>

\* ... and the sockets are closed without the mutex.  Closing one erases its key,
\* and then it is the turn of the socket such a link has brought.
CloseServerSocket(l, a) ==
  LET s == Owner[l] IN
  /\ end[l] = "close" /\ a \in old[l]
  /\ IF a \in known[s]
       THEN /\ known' = AbortServerSocket(s, a)
            /\ doubt' = [doubt EXCEPT ![s] = @ \cup {a}]
            /\ UNCHANGED <<end, old>>
       ELSE /\ old' = [old EXCEPT ![l] = @ \ {a}]
            /\ end' = IF old[l] = {a} THEN [end EXCEPT ![l] = "down"] ELSE end
            /\ UNCHANGED <<known, doubt>>
  /\ UNCHANGED <<hub, job, net, sends, unlisted>>

-----------------------------------------------------------------------------

Hub == \/ LoginInsert \/ Announce \/ Announced \/ CreateAcceptServer
       \/ OnOnline \/ LoginDone \/ RouteSend \/ AddSendback
       \/ \E a \in Servers : GetAllSocketVector(a) \/ OnOnlineSend(a)
       \/ \E t \in Threads : \/ AbortFind(t) \/ AbortRemove(t) \/ AbortErase(t)
                             \/ AbortRecheck(t) \/ Withdraw(t) \/ Withdrawn(t)
                             \/ \E b \in Servers : NextSocket(t, b)

\* The bounds on logins and on what is under way.
MayLogin == Cardinality({l \in Links : end[l] # "new"}) < MaxLogins

MaySend ==
  Cardinality({u \in Links \X (1 .. MaxUnread) : u[2] <= Len(net[u[1]])})
    < MaxUnread

Next == \/ MaySend /\ Hub
        \/ \E l \in Links : \/ MaySend /\ MayLogin /\ Login(l)
                            \/ ProcessExchange(l) \/ ProcessAbort(l)
                            \/ AbortAllServerSockets(l)
                            \/ \E a \in Servers : CloseServerSocket(l, a)
                            \/ \E t \in Threads : CloseLink(t, l)
                            \/ Destroy(l)
        \/ \E l \in Links, b \in Servers : MaySend /\ ProcessTransitroute(l, b)
        \/ \E s \in Servers : ResetSendback(s)

Spec == Init /\ [][Next]_vars

-----------------------------------------------------------------------------

\* Nothing is being pushed and nothing is under way to the process.
AtRest(b) == /\ \A t \in Threads : At(t, "idle")
             /\ \A l \in LinksOf(b) : net[l] = <<>>

\* At rest a process has a socket for every inner server the hub has, itself
\* included, although it is told of each by messages that overtake each other,
\* get lost with a link and are sent by two threads.  The exceptions: a process
\* that emptied its table has none until it is sent the next list, be it that it
\* logged in before the hub has missed the old links or that the table was
\* emptied with the list in it (unlisted), and a server it may be wrong about
\* (doubt), such as one whose socket was closed by its key.
KnowsOnline ==
  \A b \in Watched :
    AtRest(b) /\ b \notin unlisted =>
      {a \in Servers : Online(a)} \subseteq known[b] \cup doubt[b]

\* At rest a process has a socket for no server that is gone, except one it
\* may be wrong about: one whose departure was lost, crossed with the
\* opposite message or overtaken by the hub's other thread, one of whom a
\* packet kept at the hub was delivered after its departure, and one whose
\* links were in a vector that the other thread had taken from the table, whom
\* nobody withdraws.
ForgetsOffline ==
  \A b \in Watched :
    AtRest(b) => known[b] \ doubt[b] \subseteq {a \in Servers : Online(a)}

=============================================================================
