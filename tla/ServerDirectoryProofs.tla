----------------------- MODULE ServerDirectoryProofs ------------------------
(***************************************************************************)
(* At rest a process knows the inner servers that are there and no others, *)
(* but for the exceptions the properties name, for every set of servers,   *)
(* of links and of processes followed.                                     *)
(***************************************************************************)
EXTENDS ServerDirectory, TLAPS

(* What a sequence of messages says of the server a.                       *)

Says(m, a) == m.kind # "success" /\ m.server = a

Silent(q, a) == \A i \in 1..Len(q) : ~Says(q[i], a)

Only(q, a, p) == \A i \in 1..Len(q) : Says(q[i], a) => (Enters(q[i]) <=> p)

LastSays(q, a, p) ==
  \E i \in 1..Len(q) : /\ Says(q[i], a) /\ (Enters(q[i]) <=> p)
                       /\ \A j \in 1..Len(q) : j > i => ~Says(q[j], a)

LEMMA AppendOther ==
  ASSUME NEW q \in Seq(Notice), NEW m \in Notice, NEW a, NEW p \in BOOLEAN, ~Says(m, a)
  PROVE  /\ Only(q, a, p) => Only(Append(q, m), a, p)
         /\ LastSays(q, a, p) => LastSays(Append(q, m), a, p)
<1> DEFINE r == Append(q, m)
<1>1. /\ Len(r) = Len(q) + 1 /\ Len(q) \in Nat
      /\ \A i \in 1..Len(q) : r[i] = q[i]
      /\ r[Len(q) + 1] = m
  OBVIOUS
<1>2. \A i \in 1..Len(r) : i \in 1..Len(q) \/ i = Len(q) + 1
  BY <1>1
<1> HIDE DEF r
<1>3. \A i \in 1..Len(r) : Says(r[i], a) => i \in 1..Len(q)
  BY <1>1, <1>2
<1>4. Only(q, a, p) => Only(r, a, p)
  BY <1>1, <1>3 DEF Only
<1>5. ASSUME LastSays(q, a, p) PROVE LastSays(r, a, p)
  <2>1. PICK i \in 1..Len(q) : /\ Says(q[i], a) /\ (Enters(q[i]) <=> p)
                               /\ \A j \in 1..Len(q) : j > i => ~Says(q[j], a)
    BY <1>5 DEF LastSays
  <2>2. i \in 1..Len(r) /\ r[i] = q[i]
    BY <1>1
  <2>3. \A j \in 1..Len(r) : j > i => ~Says(r[j], a)
    BY <2>1, <1>1, <1>3
  <2> QED BY <2>1, <2>2, <2>3 DEF LastSays
<1> QED BY <1>4, <1>5 DEF r

LEMMA AppendSays ==
  ASSUME NEW q \in Seq(Notice), NEW m \in Notice, NEW a, NEW p \in BOOLEAN,
         Says(m, a), Enters(m) <=> p
  PROVE  LastSays(Append(q, m), a, p)
<1> DEFINE r == Append(q, m)
<1>1. /\ Len(r) = Len(q) + 1 /\ Len(q) \in Nat
      /\ r[Len(q) + 1] = m
  OBVIOUS
<1> HIDE DEF r
<1>2. /\ Len(q) + 1 \in 1..Len(r)
      /\ \A j \in 1..Len(r) : ~(j > Len(q) + 1)
  BY <1>1
<1>3. LastSays(r, a, p)
  BY <1>1, <1>2 DEF LastSays
<1> QED BY <1>3 DEF r

LEMMA TailSays ==
  ASSUME NEW q \in Seq(Notice), q # <<>>, NEW a, NEW p \in BOOLEAN
  PROVE  /\ Head(q) \in Notice /\ Tail(q) \in Seq(Notice)
         /\ Only(q, a, p) => /\ Only(Tail(q), a, p)
                             /\ Says(Head(q), a) => (Enters(Head(q)) <=> p)
         /\ LastSays(q, a, p) =>
              \/ LastSays(Tail(q), a, p)
              \/ /\ Says(Head(q), a) /\ (Enters(Head(q)) <=> p)
                 /\ Only(Tail(q), a, p)
<1> DEFINE r == Tail(q)
<1>1. /\ Len(r) = Len(q) - 1 /\ Len(q) \in Nat /\ Len(q) > 0 /\ r \in Seq(Notice)
      /\ \A i \in 1..Len(r) : r[i] = q[i + 1]
      /\ Head(q) = q[1] /\ Head(q) \in Notice
  OBVIOUS
<1>2. Tail(q) = r
  OBVIOUS
<1> HIDE DEF r
<1>3. \A i \in 1..Len(r) : i + 1 \in 1..Len(q)
  BY <1>1
<1>4. 1 \in 1..Len(q)
  BY <1>1
<1>5. Only(q, a, p) => Only(r, a, p) /\ (Says(q[1], a) => (Enters(q[1]) <=> p))
  BY <1>1, <1>3, <1>4 DEF Only
<1>6. ASSUME LastSays(q, a, p)
      PROVE  \/ LastSays(r, a, p)
             \/ Says(q[1], a) /\ (Enters(q[1]) <=> p) /\ Only(r, a, p)
  <2>1. PICK i \in 1..Len(q) : /\ Says(q[i], a) /\ (Enters(q[i]) <=> p)
                               /\ \A j \in 1..Len(q) : j > i => ~Says(q[j], a)
    BY <1>6 DEF LastSays
  <2>2. CASE i = 1
    <3>1. \A j \in 1..Len(r) : ~Says(r[j], a)
      BY <2>1, <2>2, <1>1, <1>3
    <3> QED BY <2>1, <2>2, <3>1 DEF Only
  <2>3. CASE i # 1
    <3>1. i - 1 \in 1..Len(r) /\ r[i - 1] = q[i]
      BY <2>3, <1>1
    <3>2. \A j \in 1..Len(r) : j > i - 1 => ~Says(r[j], a)
      BY <2>1, <1>1, <1>3
    <3> QED BY <2>1, <3>1, <3>2 DEF LastSays
  <2> QED BY <2>2, <2>3
<1> QED BY <1>1, <1>2, <1>5, <1>6

LEMMA NothingSaid ==
  ASSUME NEW a, NEW p \in BOOLEAN
  PROVE  Only(<<>>, a, p) /\ ~LastSays(<<>>, a, p)
BY DEF Only, LastSays
-----------------------------------------------------------------------------
(* Types.                                                                  *)

LEMMA SentType ==
  ASSUME NEW n \in [Links -> Seq(Notice)], NEW l, NEW m \in Notice
  PROVE  Sent(n, l, m) \in [Links -> Seq(Notice)]
<1>1. CASE Carries(l) /\ Watches(l)
  <2>1. ASSUME l \in Links PROVE Append(n[l], m) \in Seq(Notice)
    BY <2>1
  <2> QED BY <1>1, <2>1 DEF Sent
<1>2. CASE ~(Carries(l) /\ Watches(l))
  BY <1>2 DEF Sent
<1> QED BY <1>1, <1>2

LEMMA DoubtType ==
  ASSUME TypeOK, NEW b, NEW l, NEW m \in Notice
  PROVE  DoubtAfter(b, l, m) \in [Servers -> SUBSET Servers]
<1>1. m.server \in Servers /\ doubt \in [Servers -> SUBSET Servers]
  BY DEF TypeOK, Notice
<1> QED BY <1>1 DEF DoubtAfter

LEMMA MessageType ==
  ASSUME NEW k \in Kinds, NEW s \in Servers
  PROVE  /\ Message(k, s) \in Notice /\ Message(k, s).kind = k
         /\ Message(k, s).server = s
BY DEF Message, Notice

LEMMA WorkType ==
  ASSUME NEW k \in Steps, NEW s \in Servers, NEW l \in MaybeLink, NEW v \in MaybeLink,
         NEW d \in SUBSET Servers
  PROVE  /\ Work(k, s, l, v, d) \in Job
         /\ Work(k, s, l, v, d).step = k /\ Work(k, s, l, v, d).server = s
         /\ Work(k, s, l, v, d).link = l /\ Work(k, s, l, v, d).vec = v
         /\ Work(k, s, l, v, d).pick = NoLink /\ Work(k, s, l, v, d).todo = d
BY DEF Work, Job, MaybeLink

LEMMA IdleType == Idle \in Job /\ Idle.step = "idle"
<1>1. /\ (CHOOSE s \in Servers : TRUE) \in Servers
      /\ NoLink \in MaybeLink /\ "idle" \in Steps
  BY ServerAssumption DEF MaybeLink, Steps
<1> QED BY <1>1, WorkType DEF Idle

\* What a change of one component of a job leaves alone.
LEMMA JobFields ==
  ASSUME NEW j \in Job
  PROVE  /\ \A k \in Steps :
              /\ [j EXCEPT !.step = k] \in Job
              /\ [j EXCEPT !.step = k].step = k
              /\ [j EXCEPT !.step = k].server = j.server
              /\ [j EXCEPT !.step = k].link = j.link
              /\ [j EXCEPT !.step = k].vec = j.vec
              /\ [j EXCEPT !.step = k].todo = j.todo
         /\ \A l \in MaybeLink :
              /\ [j EXCEPT !.pick = l] \in Job
              /\ [j EXCEPT !.pick = l].step = j.step
              /\ [j EXCEPT !.pick = l].server = j.server
              /\ [j EXCEPT !.pick = l].link = j.link
              /\ [j EXCEPT !.pick = l].vec = j.vec
              /\ [j EXCEPT !.pick = l].todo = j.todo
         /\ \A d \in SUBSET Servers :
              /\ [j EXCEPT !.todo = d] \in Job
              /\ [j EXCEPT !.todo = d].step = j.step
              /\ [j EXCEPT !.todo = d].server = j.server
              /\ [j EXCEPT !.todo = d].link = j.link
              /\ [j EXCEPT !.todo = d].vec = j.vec
              /\ [j EXCEPT !.todo = d].todo = d
BY DEF Job

LEMMA ToldFields ==
  ASSUME NEW j \in Job, NEW b
  PROVE  /\ [j EXCEPT !.pick = NoLink, !.todo = @ \ {b}] \in Job
         /\ [j EXCEPT !.pick = NoLink, !.todo = @ \ {b}].step = j.step
         /\ [j EXCEPT !.pick = NoLink, !.todo = @ \ {b}].server = j.server
         /\ [j EXCEPT !.pick = NoLink, !.todo = @ \ {b}].link = j.link
         /\ [j EXCEPT !.pick = NoLink, !.todo = @ \ {b}].vec = j.vec
         /\ [j EXCEPT !.pick = NoLink, !.todo = @ \ {b}].todo = j.todo \ {b}
BY DEF Job, MaybeLink

\* The strand goes on with other servers to tell, or with another server.
Moved(j, k, d) == [j EXCEPT !.step = k, !.todo = d]
Listing(j, d, s) == [j EXCEPT !.step = "tell", !.todo = d, !.server = s]
Returned(j, s) == [j EXCEPT !.step = "list", !.server = s]

LEMMA MovedFields ==
  ASSUME NEW j \in Job, NEW k \in Steps, NEW d \in SUBSET Servers
  PROVE  /\ Moved(j, k, d) \in Job
         /\ Moved(j, k, d).step = k /\ Moved(j, k, d).server = j.server
         /\ Moved(j, k, d).link = j.link /\ Moved(j, k, d).todo = d
BY DEF Job, Moved

LEMMA ListFields ==
  ASSUME NEW j \in Job, NEW s \in Servers, NEW d \in SUBSET Servers
  PROVE  /\ Listing(j, d, s) \in Job
         /\ Listing(j, d, s).step = "tell" /\ Listing(j, d, s).server = s
         /\ Listing(j, d, s).link = j.link /\ Listing(j, d, s).todo = d
         /\ Returned(j, s) \in Job
         /\ Returned(j, s).step = "list" /\ Returned(j, s).server = s
         /\ Returned(j, s).link = j.link /\ Returned(j, s).todo = j.todo
BY DEF Job, Steps, Listing, Returned

\* A group's vector is one of its own, as is the vector a thread works on, and
\* the strand knows whom it lists for.
VectorSteps == {"insert", "remove", "erase", "recheck"}
ListSteps == {"announce", "list", "tell", "drain"}

Tables == \A s \in Servers : table[s] # NoLink => Owner[table[s]] = s

JobSound(j) ==
  /\ j.step \in VectorSteps => j.vec \in Links /\ Owner[j.vec] = j.server
  /\ j.step \in VectorSteps \cup {"find"} => j.link \in Links /\ Owner[j.link] = j.server
  /\ j.step \in ListSteps => j.link \in Links
  /\ j.step \in ListSteps \ {"tell"} => j.server = Owner[j.link]

Jobs == \A t \in Threads : JobSound(job[t])

Sound == TypeOK /\ Tables /\ Jobs

LEMMA IdleSound == JobSound(Idle)
BY IdleType DEF JobSound, VectorSteps, ListSteps

\* A step that changes the job of one thread.
LEMMA JobStep ==
  ASSUME TypeOK, Jobs, NEW t \in Threads, NEW j \in Job,
         job' = [job EXCEPT ![t] = j], JobSound(j)
  PROVE  job' \in [Threads -> Job] /\ Jobs'
<1>1. /\ job' \in [Threads -> Job]
      /\ \A u \in Threads : job'[u] = IF u = t THEN j ELSE job[u]
  BY DEF TypeOK
<1> QED BY <1>1 DEF Jobs, JobSound

LEMMA SameJob == Jobs /\ UNCHANGED job => Jobs'
BY DEF Jobs, JobSound

LEMMA SameTables == Tables /\ UNCHANGED table => Tables'
BY DEF Tables

LEMMA InitSound == Init => Sound
<1> SUFFICES ASSUME Init PROVE Sound
  OBVIOUS
<1>1. <<>> \in Seq(Notice) /\ NoLink \in MaybeLink /\ "new" \in Ends
  BY DEF MaybeLink, Ends
<1>2. TypeOK
  BY <1>1, IdleType, BoundAssumption DEF Init, TypeOK
<1>3. Jobs
  BY IdleSound DEF Init, Jobs
<1>4. Tables
  BY DEF Init, Tables
<1> QED BY <1>2, <1>3, <1>4 DEF Sound

LEMMA TellType ==
  ASSUME TypeOK, NEW b, NEW l, NEW k \in Kinds, NEW s \in Servers, Tell(b, l, Message(k, s))
  PROVE  net' \in [Links -> Seq(Notice)] /\ doubt' \in [Servers -> SUBSET Servers]
<1>1. net' = Sent(net, l, Message(k, s)) /\ doubt' = DoubtAfter(b, l, Message(k, s))
  BY DEF Tell
<1> QED BY <1>1, MessageType, SentType, DoubtType DEF TypeOK

\* One more server has been told, by a push of either kind.
LEMMA TellsType ==
  ASSUME TypeOK, Jobs, NEW t \in Threads, NEW b, NEW l, NEW k \in Kinds, Tells(t, b, l, k)
  PROVE  TypeOK' /\ Jobs'
<1> DEFINE j == job[t]  r == [j EXCEPT !.pick = NoLink, !.todo = @ \ {b}]
<1>1. j \in Job /\ j.server \in Servers
  BY DEF TypeOK, Job
<1>2. net' \in [Links -> Seq(Notice)] /\ doubt' \in [Servers -> SUBSET Servers]
  BY <1>1, TellType DEF Tells
<1>3. job' = [job EXCEPT ![t] = r]
  BY DEF Tells, TypeOK
<1>4. /\ r \in Job /\ r.step = j.step /\ r.server = j.server /\ r.link = j.link
      /\ r.vec = j.vec
  BY <1>1, ToldFields
<1>5. JobSound(j)
  BY DEF Jobs
<1> HIDE DEF r, j
<1>6. JobSound(r)
  BY <1>4, <1>5 DEF JobSound
<1>7. job' \in [Threads -> Job] /\ Jobs'
  BY <1>3, <1>4, <1>6, JobStep
<1>8. TypeOK'
  BY <1>2, <1>7 DEF Tells, TypeOK, hub, groups, process
<1> QED BY <1>7, <1>8

LEMMA PushType ==
  ASSUME Sound, NEW t \in Threads, NEW k \in Kinds,
         PushToServer(t, k) \/ \E b \in Servers : NoSocket(t, b, k)
  PROVE  Sound'
<1>1. PICK b, l : Tells(t, b, l, k)
  BY DEF PushToServer, NoSocket
<1>2. UNCHANGED table
  BY <1>1 DEF Tells, hub, groups
<1> QED BY <1>1, <1>2, TellsType, SameTables DEF Sound

LEMMA LoginSound ==
  ASSUME Sound,
         \/ \E l \in Links : Login(l)
         \/ LoginInsert
  PROVE  Sound'
<1> DEFINE j == job["strand"]
<1>0. /\ "strand" \in Threads /\ j \in Job /\ JobSound(j) /\ TypeOK /\ Tables /\ Jobs
      /\ {"insert", "announce"} \subseteq Steps /\ "success" \in Kinds
      /\ \A l \in Links : Owner[l] \in Servers
  BY OwnerAssumption DEF Threads, Steps, Kinds, Sound, TypeOK, Jobs
<1>1. ASSUME NEW l \in Links, Login(l) PROVE Sound'
  <2> DEFINE s == Owner[l]  w == Work("insert", s, l, table'[s], {})
  <2>1. /\ \/ UNCHANGED groups /\ table[s] # NoLink
           \/ /\ table[s] = NoLink
              /\ table' = [table EXCEPT ![s] = l] /\ members' = [members EXCEPT ![l] = {}]
        /\ end' = [end EXCEPT ![l] = "joining"]
        /\ job' = [job EXCEPT !["strand"] = w]
        /\ UNCHANGED <<shut, stored, net, old, known, sends, history>>
    BY <1>1 DEF Login, Start
  <2>2. /\ table' \in [Servers -> MaybeLink] /\ members' \in [Links -> SUBSET Links]
        /\ Tables' /\ table'[s] \in Links /\ Owner[table'[s]] = s
    <3>1. CASE UNCHANGED groups /\ table[s] # NoLink
      BY <1>0, <3>1 DEF Tables, TypeOK, groups, MaybeLink
    <3>2. CASE /\ table' = [table EXCEPT ![s] = l]
               /\ members' = [members EXCEPT ![l] = {}]
      BY <1>0, <3>2 DEF Tables, TypeOK, MaybeLink
    <3> QED BY <2>1, <3>1, <3>2
  <2>3. /\ w \in Job /\ w.step = "insert" /\ w.server = s /\ w.link = l /\ w.vec = table'[s]
    <3>1. l \in MaybeLink /\ table'[s] \in MaybeLink /\ s \in Servers /\ {} \in SUBSET Servers
      BY <1>0, <2>2 DEF MaybeLink
    <3> HIDE DEF s
    <3> QED BY <1>0, <3>1, WorkType
  <2>4. JobSound(w)
    BY <2>2, <2>3 DEF JobSound, VectorSteps, ListSteps
  <2>5. job' \in [Threads -> Job] /\ Jobs'
    <3> HIDE DEF w
    <3> QED BY <1>0, <2>1, <2>3, <2>4, JobStep
  <2>6. end' \in [Links -> Ends]
    BY <1>0, <2>1 DEF TypeOK, Ends
  <2>7. TypeOK'
    BY <1>0, <2>1, <2>2, <2>5, <2>6 DEF TypeOK, history
  <2> QED BY <2>2, <2>5, <2>7 DEF Sound
<1>2. ASSUME LoginInsert PROVE Sound'
  <2> DEFINE w == Work("announce", j.server, j.link, j.vec, Watched)
  <2>1. /\ members' = [members EXCEPT ![j.vec] = @ \cup {j.link}]
        /\ net' = Sent(net, j.link, Message("success", j.server))
        /\ \/ job' = [job EXCEPT !["strand"] = Idle] /\ UNCHANGED unlisted
           \/ job' = [job EXCEPT !["strand"] = w] /\ unlisted' = unlisted \ {j.server}
        /\ UNCHANGED <<table, shut, stored, process, sends, doubt>>
        /\ j.step = "insert"
    BY <1>2 DEF LoginInsert, Start, Finish, At
  <2>2. /\ j.vec \in Links /\ j.link \in Links /\ j.server \in Servers
        /\ Owner[j.link] = j.server
    BY <1>0, <2>1 DEF JobSound, VectorSteps, Job
  <2>3. w \in Job /\ w.step = "announce" /\ w.server = j.server /\ w.link = j.link
    <3>1. j.link \in MaybeLink /\ j.vec \in MaybeLink /\ Watched \in SUBSET Servers
      BY <2>2, ServerAssumption DEF MaybeLink
    <3> HIDE DEF j
    <3> QED BY <1>0, <2>2, <3>1, WorkType
  <2>4. JobSound(w)
    BY <2>2, <2>3 DEF JobSound, VectorSteps, ListSteps
  <2>5. job' \in [Threads -> Job] /\ Jobs'
    <3> HIDE DEF w
    <3> QED BY <1>0, <2>1, <2>3, <2>4, JobStep, IdleType, IdleSound
  <2>6. net' \in [Links -> Seq(Notice)] /\ members' \in [Links -> SUBSET Links]
    <3>1. net' \in [Links -> Seq(Notice)]
      BY <1>0, <2>1, <2>2, MessageType, SentType DEF TypeOK
    <3>2. members' \in [Links -> SUBSET Links]
      BY <1>0, <2>1, <2>2 DEF TypeOK
    <3> QED BY <3>1, <3>2
  <2>7. unlisted' \subseteq Servers
    BY <1>0, <2>1 DEF TypeOK
  <2>8. TypeOK' /\ Tables'
    BY <1>0, <2>1, <2>5, <2>6, <2>7, SameTables DEF TypeOK, process
  <2> QED BY <2>5, <2>8 DEF Sound
<1> QED BY <1>1, <1>2

\* The strand's further steps of a login.
LEMMA ListSound ==
  ASSUME Sound,
         \/ Announced \/ CreateAcceptServer \/ OnOnline \/ LoginDone
         \/ \E a \in Servers : GetAllSocketVector(a) \/ OnOnlineSend(a)
  PROVE  Sound'
<1> DEFINE j == job["strand"]
<1>0. /\ "strand" \in Threads /\ j \in Job /\ JobSound(j) /\ TypeOK /\ Tables /\ Jobs
      /\ "list" \in Steps /\ "drain" \in Steps /\ {"accept", "data"} \subseteq Kinds
      /\ \A l \in Links : Owner[l] \in Servers
      /\ j.server \in Servers /\ j.todo \in SUBSET Servers
      /\ job \in [Threads -> Job]
  BY OwnerAssumption DEF Threads, Steps, Kinds, Sound, TypeOK, Jobs, Job
<1>1. ASSUME Announced PROVE Sound'
  <2> DEFINE d == IF Watches(j.link) THEN Servers ELSE {}
             w == Moved(j, "list", d)
  <2>1. /\ j.step = "announce" /\ job' = [job EXCEPT !["strand"] = w]
        /\ UNCHANGED <<hub, net, process, sends, history>>
    BY <1>0, <1>1 DEF Announced, At, Moved
  <2>2. d \in SUBSET Servers
    OBVIOUS
  <2>3. w \in Job /\ w.step = "list" /\ w.server = j.server /\ w.link = j.link
    <3>1. j \in Job /\ "list" \in Steps /\ "drain" \in Steps
      BY <1>0
    <3> HIDE DEF d, j
    <3> QED BY <2>2, <3>1, MovedFields
  <2>4. JobSound(w)
    BY <1>0, <2>1, <2>3 DEF JobSound, VectorSteps, ListSteps
  <2>5. job' \in [Threads -> Job] /\ Jobs'
    <3> HIDE DEF w
    <3> QED BY <1>0, <2>1, <2>3, <2>4, JobStep
  <2> QED BY <1>0, <2>1, <2>5 DEF Sound, TypeOK, Tables, hub, groups, process, history
<1>2. ASSUME NEW a \in Servers, GetAllSocketVector(a) PROVE Sound'
  <2> DEFINE d == j.todo \ {a}
             w == Listing(j, d, a)
             r == [j EXCEPT !.todo = d]
  <2>1. /\ j.step = "list"
        /\ job' = [job EXCEPT !["strand"] = w] \/ job' = [job EXCEPT !["strand"] = r]
        /\ UNCHANGED <<hub, net, process, sends, history>>
    BY <1>0, <1>2 DEF GetAllSocketVector, At, Listing
  <2>2. d \in SUBSET Servers
    BY <1>0
  <2>3. /\ w \in Job /\ w.step = "tell" /\ w.server = a /\ w.link = j.link
        /\ r \in Job /\ r.step = j.step /\ r.server = j.server /\ r.link = j.link
    <3>1. j \in Job
      BY <1>0
    <3> HIDE DEF d, j
    <3>2. w \in Job /\ w.step = "tell" /\ w.server = a /\ w.link = j.link
      BY <2>2, <3>1, ListFields
    <3>3. r \in Job /\ r.step = j.step /\ r.server = j.server /\ r.link = j.link
      BY <2>2, <3>1, JobFields
    <3> QED BY <3>2, <3>3
  <2>4. JobSound(w) /\ JobSound(r)
    BY <1>0, <2>1, <2>3 DEF JobSound, VectorSteps, ListSteps
  <2>5. job' \in [Threads -> Job] /\ Jobs'
    <3> HIDE DEF w, r
    <3> QED BY <1>0, <2>1, <2>3, <2>4, JobStep
  <2> QED BY <1>0, <2>1, <2>5 DEF Sound, TypeOK, Tables, hub, groups, process, history
<1>3. ASSUME CreateAcceptServer PROVE Sound'
  <2> DEFINE s == Owner[j.link]
             w == Returned(j, s)
  <2>1. /\ j.step = "tell" /\ Tell(s, j.link, Message("accept", j.server))
        /\ job' = [job EXCEPT !["strand"] = w]
        /\ UNCHANGED <<hub, process, sends, unlisted>>
    BY <1>0, <1>3 DEF CreateAcceptServer, At, Returned
  <2>2. j.link \in Links /\ s \in Servers
    BY <1>0, <2>1 DEF JobSound, ListSteps
  <2>3. w \in Job /\ w.step = "list" /\ w.server = s /\ w.link = j.link
    <3>1. s \in Servers /\ j \in Job /\ {} \in SUBSET Servers
      BY <1>0, <2>2
    <3> HIDE DEF s, j
    <3> QED BY <3>1, ListFields
  <2>4. JobSound(w)
    BY <2>2, <2>3 DEF JobSound, VectorSteps, ListSteps
  <2>5. job' \in [Threads -> Job] /\ Jobs'
    <3> HIDE DEF w
    <3> QED BY <1>0, <2>1, <2>3, <2>4, JobStep
  <2>6. net' \in [Links -> Seq(Notice)] /\ doubt' \in [Servers -> SUBSET Servers]
    BY <1>0, <2>1, TellType
  <2> QED BY <1>0, <2>1, <2>5, <2>6 DEF Sound, TypeOK, Tables, hub, groups, process
<1>4. ASSUME OnOnline PROVE Sound'
  <2> DEFINE d == stored[j.server]
             w == Moved(j, "drain", d)
  <2>1. /\ j.step = "list" /\ job' = [job EXCEPT !["strand"] = w]
        /\ stored' = [stored EXCEPT ![j.server] = {}]
        /\ UNCHANGED <<groups, shut, net, process, sends, history>>
    BY <1>0, <1>4 DEF OnOnline, At, Moved
  <2>2. d \in SUBSET Servers /\ stored' \in [Servers -> SUBSET Servers]
    BY <1>0, <2>1 DEF TypeOK
  <2>3. w \in Job /\ w.step = "drain" /\ w.server = j.server /\ w.link = j.link
    <3>1. j \in Job /\ "list" \in Steps /\ "drain" \in Steps
      BY <1>0
    <3> HIDE DEF d, j
    <3> QED BY <2>2, <3>1, MovedFields
  <2>4. JobSound(w)
    BY <1>0, <2>1, <2>3 DEF JobSound, VectorSteps, ListSteps
  <2>5. job' \in [Threads -> Job] /\ Jobs'
    <3> HIDE DEF w
    <3> QED BY <1>0, <2>1, <2>3, <2>4, JobStep
  <2> QED BY <1>0, <2>1, <2>2, <2>5 DEF Sound, TypeOK, Tables, groups, process, history
<1>5. ASSUME NEW a \in Servers, OnOnlineSend(a) PROVE Sound'
  <2> DEFINE d == j.todo \ {a}  w == [j EXCEPT !.todo = d]
  <2>1. /\ Tell(j.server, j.link, Message("data", a))
        /\ job' = [job EXCEPT !["strand"] = w] \/ UNCHANGED job
        /\ UNCHANGED <<hub, process, sends, unlisted>>
    BY <1>0, <1>5 DEF OnOnlineSend
  <2>2. d \in SUBSET Servers
    BY <1>0
  <2>3. /\ w \in Job /\ w.step = j.step /\ w.server = j.server /\ w.link = j.link
        /\ w.vec = j.vec
    <3> HIDE DEF d, j
    <3> QED BY <1>0, <2>2, JobFields
  <2>4. JobSound(w)
    BY <1>0, <2>3 DEF JobSound
  <2>5. job' \in [Threads -> Job] /\ Jobs'
    <3>1. CASE UNCHANGED job
      BY <1>0, <3>1, SameJob
    <3>2. CASE job' = [job EXCEPT !["strand"] = w]
      <4> HIDE DEF w
      <4> QED BY <1>0, <3>2, <2>3, <2>4, JobStep
    <3> QED BY <2>1, <3>1, <3>2
  <2>6. net' \in [Links -> Seq(Notice)] /\ doubt' \in [Servers -> SUBSET Servers]
    BY <1>0, <2>1, TellType
  <2> QED BY <1>0, <2>1, <2>5, <2>6 DEF Sound, TypeOK, Tables, hub, groups, process
<1>6. ASSUME LoginDone PROVE Sound'
  <2>1. /\ job' = [job EXCEPT !["strand"] = Idle]
        /\ UNCHANGED <<hub, net, process, sends, history>>
    BY <1>6 DEF LoginDone, Finish, Start
  <2>2. job' \in [Threads -> Job] /\ Jobs'
    BY <1>0, <2>1, JobStep, IdleType, IdleSound
  <2> QED BY <1>0, <2>1, <2>2 DEF Sound, TypeOK, Tables, hub, groups, process, history
<1> QED BY <1>1, <1>2, <1>3, <1>4, <1>5, <1>6

\* The loss of a link.
LEMMA LosingSound ==
  ASSUME Sound, NEW t \in Threads,
         \/ \E l \in Links : CloseLink(t, l)
         \/ AbortFind(t) \/ AbortRemove(t) \/ AbortErase(t) \/ AbortRecheck(t)
         \/ Withdrawn(t)
         \/ \E b \in Servers : NextSocket(t, b)
  PROVE  Sound'
<1> DEFINE j == job[t]
<1>0. /\ j \in Job /\ JobSound(j) /\ TypeOK /\ Tables /\ Jobs
      /\ {"find", "remove", "erase", "recheck", "withdraw"} \subseteq Steps
      /\ \A l \in Links : Owner[l] \in Servers
      /\ j.server \in Servers /\ j.todo \in SUBSET Servers /\ j.link \in MaybeLink
      /\ job \in [Threads -> Job] /\ {} \in SUBSET Servers /\ NoLink \in MaybeLink
      /\ Watched \in SUBSET Servers
  BY OwnerAssumption, ServerAssumption DEF Steps, Sound, TypeOK, Jobs, Job, MaybeLink
<1>1. ASSUME NEW l \in Links, CloseLink(t, l) PROVE Sound'
  <2> DEFINE s == Owner[l]  w == Work("find", s, l, NoLink, {})
  <2>1. /\ shut' = shut \cup {l} /\ job' = [job EXCEPT ![t] = w]
        /\ UNCHANGED <<groups, stored, net, process, sends, history>>
    BY <1>1 DEF CloseLink, Start
  <2>2. w \in Job /\ w.step = "find" /\ w.server = s /\ w.link = l
    <3>1. l \in MaybeLink /\ s \in Servers
      BY <1>0 DEF MaybeLink
    <3> HIDE DEF s
    <3> QED BY <1>0, <3>1, WorkType
  <2>3. JobSound(w)
    BY <2>2 DEF JobSound, VectorSteps, ListSteps
  <2>4. job' \in [Threads -> Job] /\ Jobs'
    <3> HIDE DEF w
    <3> QED BY <1>0, <2>1, <2>2, <2>3, JobStep
  <2> QED BY <1>0, <2>1, <2>4 DEF Sound, TypeOK, Tables, groups, process, history
<1>2. ASSUME AbortFind(t) PROVE Sound'
  <2> DEFINE v == table[j.server]  w == Work("remove", j.server, j.link, v, {})
  <2>1. /\ j.step = "find"
        /\ \/ job' = [job EXCEPT ![t] = Idle]
           \/ v # NoLink /\ job' = [job EXCEPT ![t] = w]
        /\ UNCHANGED <<hub, net, process, sends, history>>
    BY <1>2 DEF AbortFind, Start, Finish, At
  <2>2. /\ v \in MaybeLink /\ (v # NoLink => v \in Links /\ Owner[v] = j.server)
        /\ j.link \in Links /\ Owner[j.link] = j.server
    BY <1>0, <2>1 DEF TypeOK, Tables, MaybeLink, JobSound, VectorSteps
  <2>3. w \in Job /\ w.step = "remove" /\ w.server = j.server /\ w.link = j.link /\ w.vec = v
    <3> HIDE DEF v, j
    <3> QED BY <1>0, <2>2, WorkType
  <2>4. v # NoLink => JobSound(w)
    BY <2>2, <2>3 DEF JobSound, VectorSteps, ListSteps
  <2>5. job' \in [Threads -> Job] /\ Jobs'
    <3> HIDE DEF w
    <3> QED BY <1>0, <2>1, <2>3, <2>4, JobStep, IdleType, IdleSound
  <2> QED BY <1>0, <2>1, <2>5 DEF Sound, TypeOK, Tables, hub, groups, process, history
<1>3. ASSUME AbortRemove(t) PROVE Sound'
  <2> DEFINE w == [j EXCEPT !.step = "erase"]
  <2>1. /\ j.step = "remove"
        /\ \/ job' = [job EXCEPT ![t] = Idle] /\ UNCHANGED members
           \/ /\ job' = [job EXCEPT ![t] = w]
              /\ members' = [members EXCEPT ![j.vec] = @ \ {j.link}]
        /\ UNCHANGED <<table, shut, stored, net, process, sends, history>>
    BY <1>0, <1>3 DEF AbortRemove, Goto, Finish, Start, At
  <2>2. /\ w \in Job /\ w.step = "erase" /\ w.server = j.server /\ w.link = j.link
        /\ w.vec = j.vec
    <3> HIDE DEF j
    <3> QED BY <1>0, JobFields
  <2>3. JobSound(w)
    BY <1>0, <2>1, <2>2 DEF JobSound, VectorSteps, ListSteps
  <2>4. job' \in [Threads -> Job] /\ Jobs'
    <3> HIDE DEF w
    <3> QED BY <1>0, <2>1, <2>2, <2>3, JobStep, IdleType, IdleSound
  <2>5. members' \in [Links -> SUBSET Links]
    <3>1. CASE members' = [members EXCEPT ![j.vec] = @ \ {j.link}]
      BY <1>0, <3>1 DEF TypeOK
    <3> QED BY <1>0, <2>1, <3>1 DEF TypeOK
  <2> QED BY <1>0, <2>1, <2>4, <2>5 DEF Sound, TypeOK, Tables, process, history
<1>4. ASSUME AbortErase(t) PROVE Sound'
  <2> DEFINE w == [j EXCEPT !.step = "recheck"]
  <2>1. /\ j.step = "erase" /\ job' = [job EXCEPT ![t] = w]
        /\ table' = [table EXCEPT ![j.server] = NoLink] \/ UNCHANGED table
        /\ UNCHANGED <<members, shut, stored, net, process, sends, history>>
    BY <1>0, <1>4 DEF AbortErase, Goto, At
  <2>2. /\ w \in Job /\ w.step = "recheck" /\ w.server = j.server /\ w.link = j.link
        /\ w.vec = j.vec
    <3> HIDE DEF j
    <3> QED BY <1>0, JobFields
  <2>3. JobSound(w)
    BY <1>0, <2>1, <2>2 DEF JobSound, VectorSteps, ListSteps
  <2>4. job' \in [Threads -> Job] /\ Jobs'
    <3> HIDE DEF w
    <3> QED BY <1>0, <2>1, <2>2, <2>3, JobStep
  <2>5. table' \in [Servers -> MaybeLink] /\ Tables'
    <3>1. CASE table' = [table EXCEPT ![j.server] = NoLink]
      BY <1>0, <3>1 DEF TypeOK, Tables
    <3> QED BY <1>0, <2>1, <3>1, SameTables DEF TypeOK
  <2> QED BY <1>0, <2>1, <2>4, <2>5 DEF Sound, TypeOK, process, history
<1>5. ASSUME AbortRecheck(t) PROVE Sound'
  <2> DEFINE w == Work("withdraw", j.server, j.link, NoLink, Watched)
  <2>1. /\ \/ job' = [job EXCEPT ![t] = w] /\ UNCHANGED doubt
           \/ /\ job' = [job EXCEPT ![t] = Idle]
              /\ \/ UNCHANGED doubt
                 \/ doubt' = [b \in Servers |-> IF b \in Watched THEN doubt[b] \cup {j.server}
                                               ELSE doubt[b]]
        /\ UNCHANGED <<hub, net, process, sends, unlisted>>
    BY <1>5 DEF AbortRecheck, Finish, Start
  <2>2. w \in Job /\ w.step = "withdraw"
    <3> HIDE DEF j
    <3> QED BY <1>0, WorkType
  <2>3. JobSound(w)
    BY <2>2 DEF JobSound, VectorSteps, ListSteps
  <2>4. job' \in [Threads -> Job] /\ Jobs'
    <3> HIDE DEF w
    <3> QED BY <1>0, <2>1, <2>2, <2>3, JobStep, IdleType, IdleSound
  <2>5. doubt' \in [Servers -> SUBSET Servers]
    <3>1. CASE doubt' = [b \in Servers |-> IF b \in Watched THEN doubt[b] \cup {j.server}
                                          ELSE doubt[b]]
      BY <1>0, <3>1 DEF TypeOK
    <3> QED BY <1>0, <2>1, <3>1 DEF TypeOK
  <2> QED BY <1>0, <2>1, <2>4, <2>5 DEF Sound, TypeOK, Tables, hub, groups, process
<1>6. ASSUME Withdrawn(t) PROVE Sound'
  <2>1. /\ job' = [job EXCEPT ![t] = Idle]
        /\ UNCHANGED <<hub, net, process, sends, history>>
    BY <1>6 DEF Withdrawn, Finish, Start
  <2>2. job' \in [Threads -> Job] /\ Jobs'
    BY <1>0, <2>1, JobStep, IdleType, IdleSound
  <2> QED BY <1>0, <2>1, <2>2 DEF Sound, TypeOK, Tables, hub, groups, process, history
<1>7. ASSUME NEW b \in Servers, NextSocket(t, b) PROVE Sound'
  <2>1. PICK l \in Group(b) : job' = [job EXCEPT ![t].pick = l]
    BY <1>7 DEF NextSocket
  <2> DEFINE w == [j EXCEPT !.pick = l]
  <2>2. l \in MaybeLink
    <3>1. table[b] # NoLink => members[table[b]] \subseteq Links
      BY <1>0 DEF TypeOK, MaybeLink
    <3> QED BY <2>1, <3>1 DEF Group, MaybeLink
  <2>3. /\ w \in Job /\ w.step = j.step /\ w.server = j.server /\ w.link = j.link
        /\ w.vec = j.vec
    <3> HIDE DEF j
    <3> QED BY <1>0, <2>2, JobFields
  <2>4. JobSound(w)
    BY <1>0, <2>3 DEF JobSound
  <2>5. job' = [job EXCEPT ![t] = w]
    BY <1>0, <2>1
  <2>6. job' \in [Threads -> Job] /\ Jobs'
    <3> HIDE DEF w
    <3> QED BY <1>0, <2>3, <2>4, <2>5, JobStep
  <2> QED BY <1>0, <1>7, <2>6 DEF NextSocket, Sound, TypeOK, Tables, hub, groups, process, history
<1> QED BY <1>1, <1>2, <1>3, <1>4, <1>5, <1>6, <1>7

\* A message between servers.
LEMMA RouteSound ==
  ASSUME Sound,
         \/ \E l \in Links, b \in Servers : ProcessTransitroute(l, b)
         \/ RouteSend \/ AddSendback
  PROVE  Sound'
<1> DEFINE j == job["strand"]
<1>0. /\ "strand" \in Threads /\ j \in Job /\ JobSound(j) /\ TypeOK /\ Tables /\ Jobs
      /\ {"route", "keep"} \subseteq Steps /\ "data" \in Kinds
      /\ \A l \in Links : Owner[l] \in Servers
      /\ j.server \in Servers /\ j.todo \in SUBSET Servers
      /\ job \in [Threads -> Job] /\ NoLink \in MaybeLink
  BY OwnerAssumption DEF Threads, Steps, Kinds, Sound, TypeOK, Jobs, Job, MaybeLink
<1>1. ASSUME NEW l \in Links, NEW b \in Servers, ProcessTransitroute(l, b) PROVE Sound'
  <2> DEFINE s == Owner[l]  d == {b}
             w == Work("route", s, l, NoLink, d)  r == Work("keep", s, l, NoLink, d)
  <2>1. /\ sends < MaxSends /\ sends' = sends + 1
        /\ UNCHANGED <<hub, net, process, history>>
        /\ \/ \E k \in Group(b) : job' = [job EXCEPT !["strand"] = [w EXCEPT !.pick = k]]
           \/ job' = [job EXCEPT !["strand"] = r]
    BY <1>1 DEF ProcessTransitroute, Start
  <2>2. s \in Servers /\ l \in MaybeLink /\ d \in SUBSET Servers
    BY <1>0 DEF MaybeLink
  <2>3. w \in Job /\ w.step = "route" /\ r \in Job /\ r.step = "keep"
    <3> HIDE DEF s, d
    <3> QED BY <1>0, <2>2, WorkType
  <2>4. Group(b) \subseteq MaybeLink
    <3>1. table[b] # NoLink => members[table[b]] \subseteq Links
      BY <1>0 DEF TypeOK, MaybeLink
    <3> QED BY <3>1 DEF Group, MaybeLink
  <2> HIDE DEF w, r
  <2>5. ASSUME NEW k \in Group(b), job' = [job EXCEPT !["strand"] = [w EXCEPT !.pick = k]]
        PROVE  job' \in [Threads -> Job] /\ Jobs'
    <3>1. [w EXCEPT !.pick = k] \in Job /\ [w EXCEPT !.pick = k].step = "route"
      BY <2>3, <2>4, <2>5, JobFields
    <3>2. JobSound([w EXCEPT !.pick = k])
      BY <3>1 DEF JobSound, VectorSteps, ListSteps
    <3> QED BY <1>0, <2>5, <3>1, <3>2, JobStep
  <2>6. ASSUME job' = [job EXCEPT !["strand"] = r] PROVE job' \in [Threads -> Job] /\ Jobs'
    <3>1. JobSound(r)
      BY <2>3 DEF JobSound, VectorSteps, ListSteps
    <3> QED BY <1>0, <2>3, <2>6, <3>1, JobStep
  <2>7. job' \in [Threads -> Job] /\ Jobs'
    BY <2>1, <2>5, <2>6
  <2>8. sends' \in 0 .. MaxSends
    BY <1>0, <2>1, BoundAssumption DEF TypeOK
  <2> QED BY <1>0, <2>1, <2>7, <2>8 DEF Sound, TypeOK, Tables, hub, groups, process, history
<1>2. ASSUME RouteSend PROVE Sound'
  <2> DEFINE w == [j EXCEPT !.step = "keep"]
  <2>1. /\ \/ job' = [job EXCEPT !["strand"] = w] /\ UNCHANGED <<net, doubt>>
           \/ /\ Tell(Owner[j.pick], j.pick, Message("data", j.server))
              /\ job' = [job EXCEPT !["strand"] = Idle]
        /\ UNCHANGED <<hub, process, sends, unlisted>>
    BY <1>0, <1>2 DEF RouteSend, Goto, Finish, Start
  <2>2. w \in Job /\ w.step = "keep"
    <3> HIDE DEF j
    <3> QED BY <1>0, JobFields
  <2>3. JobSound(w)
    BY <2>2 DEF JobSound, VectorSteps, ListSteps
  <2>4. job' \in [Threads -> Job] /\ Jobs'
    <3> HIDE DEF w
    <3> QED BY <1>0, <2>1, <2>2, <2>3, JobStep, IdleType, IdleSound
  <2>5. net' \in [Links -> Seq(Notice)] /\ doubt' \in [Servers -> SUBSET Servers]
    <3>1. CASE UNCHANGED <<net, doubt>>
      BY <1>0, <3>1 DEF TypeOK
    <3> QED BY <1>0, <2>1, <3>1, TellType
  <2> QED BY <1>0, <2>1, <2>4, <2>5 DEF Sound, TypeOK, Tables, hub, groups, process
<1>3. ASSUME AddSendback PROVE Sound'
  <2>1. /\ \/ \E b \in j.todo : stored' = [stored EXCEPT ![b] = @ \cup {j.server}]
           \/ UNCHANGED stored
        /\ job' = [job EXCEPT !["strand"] = Idle]
        /\ UNCHANGED <<groups, shut, net, process, sends, history>>
    BY <1>3 DEF AddSendback, Finish, Start
  <2>2. job' \in [Threads -> Job] /\ Jobs'
    BY <1>0, <2>1, JobStep, IdleType, IdleSound
  <2>3. stored' \in [Servers -> SUBSET Servers]
    <3>1. ASSUME NEW b \in j.todo, stored' = [stored EXCEPT ![b] = @ \cup {j.server}]
          PROVE  stored' \in [Servers -> SUBSET Servers]
      BY <1>0, <3>1 DEF TypeOK
    <3> QED BY <1>0, <2>1, <3>1 DEF TypeOK
  <2> QED BY <1>0, <2>1, <2>2, <2>3 DEF Sound, TypeOK, Tables, groups, process, history
<1> QED BY <1>1, <1>2, <1>3

\* The processes, and what happens by itself.
LEMMA ProcessSound ==
  ASSUME Sound,
         \/ \E l \in Links : \/ ProcessExchange(l) \/ ProcessAbort(l)
                             \/ AbortAllServerSockets(l) \/ Destroy(l)
                             \/ \E a \in Servers : CloseServerSocket(l, a)
         \/ \E s \in Servers : ResetSendback(s)
  PROVE  Sound'
<1>0. /\ TypeOK /\ Tables /\ Jobs /\ \A l \in Links : Owner[l] \in Servers
  BY OwnerAssumption DEF Sound
<1>1. ASSUME NEW l \in Links, ProcessExchange(l) PROVE Sound'
  <2> DEFINE m == Head(net[l])
  <2>1. /\ net[l] # <<>> /\ net' = [net EXCEPT ![l] = Tail(@)]
        /\ \/ end' = [end EXCEPT ![l] = "up"] /\ UNCHANGED known
           \/ UNCHANGED end /\ known' = AddServerSocket(Owner[l], m.server)
           \/ UNCHANGED end /\ known' = AbortServerSocket(Owner[l], m.server)
        /\ UNCHANGED <<hub, job, old, sends, history>>
    BY <1>1 DEF ProcessExchange
  <2>2. m \in Notice /\ Tail(net[l]) \in Seq(Notice)
    BY <1>0, <2>1 DEF TypeOK
  <2>3. net' \in [Links -> Seq(Notice)]
    BY <1>0, <2>1, <2>2 DEF TypeOK
  <2>4. known' \in [Servers -> SUBSET Servers]
    BY <1>0, <2>1, <2>2 DEF TypeOK, AddServerSocket, AbortServerSocket, Notice
  <2>5. end' \in [Links -> Ends]
    BY <1>0, <2>1 DEF TypeOK, Ends
  <2> QED BY <1>0, <2>1, <2>3, <2>4, <2>5, SameJob, SameTables
         DEF Sound, TypeOK, hub, groups, history
<1>2. ASSUME NEW l \in Links, ProcessAbort(l) PROVE Sound'
  <2> DEFINE B == {a \in Servers : About(l, a) # {}}
  <2>1. PICK e \in Ends : end' = [end EXCEPT ![l] = e]
    BY <1>2 DEF ProcessAbort, Ends
  <2>2. /\ net' = [net EXCEPT ![l] = <<>>]
        /\ doubt' = [doubt EXCEPT ![Owner[l]] = @ \cup B]
        /\ UNCHANGED <<hub, job, old, known, sends, unlisted>>
    BY <1>2 DEF ProcessAbort
  <2>3. net' \in [Links -> Seq(Notice)] /\ end' \in [Links -> Ends]
    BY <1>0, <2>1, <2>2 DEF TypeOK
  <2>4. doubt' \in [Servers -> SUBSET Servers]
    <3>1. B \subseteq Servers
      OBVIOUS
    <3> HIDE DEF B
    <3>2. doubt[Owner[l]] \cup B \in SUBSET Servers
      BY <1>0, <3>1 DEF TypeOK
    <3> QED BY <1>0, <2>2, <3>2 DEF TypeOK
  <2> QED BY <1>0, <2>2, <2>3, <2>4, SameJob, SameTables DEF Sound, TypeOK, hub, groups
<1>3. ASSUME NEW l \in Links, AbortAllServerSockets(l) PROVE Sound'
  <2> DEFINE s == Owner[l]
             A == {a \in Servers : \E k \in LinksOf(s) : About(k, a) # {}}
  <2>1. PICK e \in Ends : end' = [end EXCEPT ![l] = e]
    BY <1>3 DEF AbortAllServerSockets, Ends
  <2>2. /\ old' = [old EXCEPT ![l] = known[s]] /\ known' = [known EXCEPT ![s] = {}]
        /\ unlisted' = unlisted \cup {s} /\ doubt' = [doubt EXCEPT ![s] = A]
        /\ UNCHANGED <<hub, job, net, sends>>
    BY <1>3 DEF AbortAllServerSockets
  <2>3. /\ end' \in [Links -> Ends] /\ old' \in [Links -> SUBSET Servers]
        /\ known' \in [Servers -> SUBSET Servers] /\ unlisted' \subseteq Servers
    BY <1>0, <2>1, <2>2 DEF TypeOK
  <2>4. doubt' \in [Servers -> SUBSET Servers]
    <3>1. A \subseteq Servers
      OBVIOUS
    <3> HIDE DEF A
    <3> QED BY <1>0, <2>2, <3>1 DEF TypeOK
  <2> QED BY <1>0, <2>2, <2>3, <2>4, SameJob, SameTables DEF Sound, TypeOK, hub, groups
<1>4. ASSUME NEW l \in Links, Destroy(l) PROVE Sound'
  <2>1. /\ shut' = shut \cup members[l] /\ members' = [members EXCEPT ![l] = {}]
        /\ UNCHANGED <<table, stored, job, net, process, sends, history>>
    BY <1>4 DEF Destroy
  <2>2. shut' \subseteq Links /\ members' \in [Links -> SUBSET Links]
    BY <1>0, <2>1 DEF TypeOK
  <2> QED BY <1>0, <2>1, <2>2, SameJob, SameTables DEF Sound, TypeOK, process, history
<1>5. ASSUME NEW l \in Links, NEW a \in Servers, CloseServerSocket(l, a) PROVE Sound'
  <2> DEFINE s == Owner[l]
  <2>1. PICK e \in Ends : end' = [end EXCEPT ![l] = e] \/ UNCHANGED end
    BY <1>5 DEF CloseServerSocket, Ends
  <2>2. /\ old' = [old EXCEPT ![l] = @ \ {a}] \/ UNCHANGED old
        /\ known' = [known EXCEPT ![s] = @ \ {a}] \/ UNCHANGED known
        /\ doubt' = [doubt EXCEPT ![s] = @ \cup {a}] \/ UNCHANGED doubt
        /\ UNCHANGED <<hub, job, net, sends, unlisted>>
    BY <1>5 DEF CloseServerSocket, AbortServerSocket
  <2>3. end' \in [Links -> Ends]
    <3>1. CASE end' = [end EXCEPT ![l] = e]
      BY <1>0, <2>1, <3>1 DEF TypeOK
    <3>2. CASE end' = end
      BY <1>0, <3>2 DEF TypeOK
    <3> QED BY <2>1, <3>1, <3>2
  <2>6. old' \in [Links -> SUBSET Servers]
    <3>1. CASE old' = [old EXCEPT ![l] = @ \ {a}]
      BY <1>0, <3>1 DEF TypeOK
    <3>2. CASE old' = old
      BY <1>0, <3>2 DEF TypeOK
    <3> QED BY <2>2, <3>1, <3>2
  <2>4. known' \in [Servers -> SUBSET Servers]
    <3>1. CASE known' = [known EXCEPT ![s] = @ \ {a}]
      BY <1>0, <3>1 DEF TypeOK
    <3>2. CASE known' = known
      BY <1>0, <3>2 DEF TypeOK
    <3> QED BY <2>2, <3>1, <3>2
  <2>5. doubt' \in [Servers -> SUBSET Servers]
    <3>1. doubt[s] \cup {a} \in SUBSET Servers
      BY <1>0 DEF TypeOK
    <3> QED BY <1>0, <2>2, <3>1 DEF TypeOK
  <2> QED BY <1>0, <2>2, <2>3, <2>4, <2>5, <2>6, SameJob, SameTables
          DEF Sound, TypeOK, hub, groups
<1>6. ASSUME NEW s \in Servers, ResetSendback(s) PROVE Sound'
  <2>1. /\ stored' = [stored EXCEPT ![s] = {}]
        /\ UNCHANGED <<groups, shut, job, net, process, sends, history>>
    BY <1>6 DEF ResetSendback
  <2>2. stored' \in [Servers -> SUBSET Servers]
    BY <1>0, <2>1 DEF TypeOK
  <2> QED BY <1>0, <2>1, <2>2, SameJob, SameTables DEF Sound, TypeOK, groups, process, history
<1> QED BY <1>1, <1>2, <1>3, <1>4, <1>5, <1>6

LEMMA NextSound == Sound /\ [Next]_vars => Sound'
<1> SUFFICES ASSUME Sound, [Next]_vars PROVE Sound'
  OBVIOUS
<1>1. CASE Hub
  <2>1. "strand" \in Threads /\ "accept" \in Kinds /\ "abort" \in Kinds
    BY DEF Threads, Kinds
  <2>2. CASE Announce
    BY <2>1, <2>2, PushType DEF Announce
  <2>3. ASSUME NEW t \in Threads, Withdraw(t) PROVE Sound'
    BY <2>1, <2>3, PushType DEF Withdraw
  <2> QED BY <1>1, <2>2, <2>3, LoginSound, ListSound, LosingSound, RouteSound DEF Hub
<1>2. CASE UNCHANGED vars
  BY <1>2, SameJob, SameTables DEF Sound, TypeOK, vars, hub, groups, process, history
<1>3. CASE ~Hub /\ Next
  BY <1>3, LoginSound, LosingSound, RouteSound, ProcessSound DEF Next
<1> QED BY <1>1, <1>2, <1>3

\* The state keeps its types, whatever the servers, links and bounds.
THEOREM Typing == Spec => []TypeOK
<1>1. Sound => TypeOK
  BY DEF Sound
<1> QED BY InitSound, NextSound, <1>1, PTL DEF Spec

-----------------------------------------------------------------------------
(* What a process will believe.                                            *)

\* When all of n has arrived, the process b, which knows k, has a socket for
\* a or has none, as p says, whatever overtakes what.
Believes(n, k, b, a, p) ==
  \/ /\ \A l \in LinksOf(b) : Only(n[l], a, p)
     /\ a \in k <=> p
  \/ \E l \in LinksOf(b) :
       /\ LastSays(n[l], a, p)
       /\ \A i \in LinksOf(b) \ {l} : Only(n[i], a, p)

\* The strand has still to tell b that a is there: it announces a, or it will
\* send the list to b or is sending it.
Pends(j, b, a) ==
  \/ j.step = "announce" /\ j.server = a /\ b \in j.todo
  \/ j.step = "announce" /\ j.server = b
  \/ j.step = "list" /\ Owner[j.link] = b /\ a \in j.todo
  \/ j.step = "tell" /\ Owner[j.link] = b /\ a \in j.todo \cup {j.server}

Pending(b, a) == Pends(job["strand"], b, a)

\* A thread has still to tell b that a has gone, or to see that it has.
Withdraws(j, b, a) ==
  /\ j.server = a
  /\ j.step \in {"erase", "recheck"} \/ (j.step = "withdraw" /\ b \in j.todo)

Withdrawing(b, a) == \E t \in Threads : Withdraws(job[t], b, a)

\* The process b will be right about a, or is still to be told.
Informed(b, a, p) ==
  /\ Believes(net, known[b], b, a, p)
  /\ Online(a) /\ ~p => b \in unlisted \/ Pending(b, a)
  /\ ~Online(a) /\ p => Withdrawing(b, a)

Notices ==
  \A b \in Watched, a \in Servers :
    a \notin doubt[b] => \E p \in BOOLEAN : Informed(b, a, p)

\* One link's messages change and what they say of a does not.
LEMMA SameBelief ==
  ASSUME NEW n \in [Links -> Seq(Notice)], NEW r \in [Links -> Seq(Notice)],
         NEW k, NEW b, NEW a, NEW p \in BOOLEAN, NEW l \in Links,
         \A i \in Links : i # l => r[i] = n[i],
         Only(n[l], a, p) => Only(r[l], a, p),
         LastSays(n[l], a, p) => LastSays(r[l], a, p),
         Believes(n, k, b, a, p)
  PROVE  Believes(r, k, b, a, p)
<1>1. \A i \in LinksOf(b) : /\ Only(n[i], a, p) => Only(r[i], a, p)
                            /\ LastSays(n[i], a, p) => LastSays(r[i], a, p)
  BY DEF LinksOf
<1> QED BY <1>1 DEF Believes

\* A message that says nothing of a, or goes to another process.
LEMMA OtherSent ==
  ASSUME TypeOK, NEW l, NEW m \in Notice, NEW b, NEW k, NEW a, NEW p \in BOOLEAN,
         (Watches(l) /\ l \in LinksOf(b)) => ~Says(m, a),
         Believes(net, k, b, a, p)
  PROVE  Believes(Sent(net, l, m), k, b, a, p)
<1> DEFINE r == Sent(net, l, m)
<1>1. r \in [Links -> Seq(Notice)] /\ net \in [Links -> Seq(Notice)]
  BY SentType DEF TypeOK
<1>2. CASE ~(Carries(l) /\ Watches(l)) \/ l \notin Links
  BY <1>1, <1>2 DEF Sent, TypeOK
<1>3. CASE Carries(l) /\ Watches(l) /\ l \in Links
  <2>1. /\ r[l] = Append(net[l], m) /\ \A i \in Links : i # l => r[i] = net[i]
        /\ net[l] \in Seq(Notice)
    BY <1>1, <1>3 DEF Sent
  <2> HIDE DEF r
  <2>2. CASE l \in LinksOf(b)
    <3>1. ~Says(m, a)
      BY <1>3, <2>2
    <3>2. /\ Only(net[l], a, p) => Only(r[l], a, p)
          /\ LastSays(net[l], a, p) => LastSays(r[l], a, p)
      BY <2>1, <3>1, AppendOther
    <3>3. Believes(r, k, b, a, p)
      BY <1>1, <1>3, <2>1, <3>2, SameBelief
    <3> QED BY <3>3 DEF r
  <2>3. CASE l \notin LinksOf(b)
    <3>1. \A i \in LinksOf(b) : r[i] = net[i]
      BY <2>1, <2>3 DEF LinksOf
    <3>2. Believes(r, k, b, a, p)
      BY <3>1 DEF Believes
    <3> QED BY <3>2 DEF r
  <2> QED BY <2>2, <2>3
<1> QED BY <1>2, <1>3

\* Messages that do not cross this one say what it says.
LEMMA Uncrossed ==
  ASSUME TypeOK, NEW b, NEW l, NEW m \in Notice, m.kind # "success",
         ~Crosses(b, l, m), NEW i \in LinksOf(b) \ {l}, NEW p \in BOOLEAN,
         Enters(m) <=> p
  PROVE  Only(net[i], m.server, p)
<1>1. SUFFICES ASSUME NEW x \in 1..Len(net[i]), Says(net[i][x], m.server)
               PROVE  Enters(net[i][x]) <=> p
  BY DEF Only
<1>2. net[i] \in Seq(Notice)
  BY DEF TypeOK, LinksOf
<1>3. net[i][x] \in ToSet(net[i])
  BY <1>1, <1>2 DEF ToSet
<1>4. net[i][x] \in About(i, m.server)
  BY <1>1, <1>3 DEF About, Says
<1>5. Enters(net[i][x]) = Enters(m)
  BY <1>4 DEF Crosses
<1> QED BY <1>5

LEMMA Unheard ==
  ASSUME TypeOK, NEW l \in Links, NEW a, About(l, a) = {}, NEW p \in BOOLEAN
  PROVE  Only(net[l], a, p) /\ ~LastSays(net[l], a, p)
<1>1. \A x \in 1..Len(net[l]) : ~Says(net[l][x], a)
  <2>1. SUFFICES ASSUME NEW x \in 1..Len(net[l]), Says(net[l][x], a) PROVE FALSE
    OBVIOUS
  <2>2. net[l] \in Seq(Notice)
    BY DEF TypeOK
  <2>3. net[l][x] \in ToSet(net[l])
    BY <2>1, <2>2 DEF ToSet
  <2> QED BY <2>1, <2>3 DEF About, Says
<1> QED BY <1>1 DEF Only, LastSays

\* After a message to b about m.server, b is in doubt, or it will be right, or
\* the message does not concern the pair.
LEMMA Telling ==
  ASSUME TypeOK, NEW b, NEW l \in MaybeLink, l \in Links => Owner[l] = b,
         NEW m \in Notice, m.kind # "success",
         NEW n, n = Sent(net, l, m), NEW d, d = DoubtAfter(b, l, m),
         NEW c \in Watched, NEW a \in Servers, a \notin d[c]
  PROVE  \/ \E p \in BOOLEAN : (p <=> Online(a)) /\ Believes(n, known[c], c, a, p)
         \/ /\ a \notin doubt[c] /\ ~(c = b /\ a = m.server)
            /\ \A p \in BOOLEAN :
                 Believes(net, known[c], c, a, p) => Believes(n, known[c], c, a, p)
<1>0. /\ l # NoLink => l \in LinksOf(b) /\ l \in Links /\ Owner[l] = b
      /\ m.server \in Servers /\ c \in Servers /\ doubt \in [Servers -> SUBSET Servers]
      /\ net \in [Links -> Seq(Notice)] /\ TypeOK
  BY ServerAssumption DEF LinksOf, TypeOK, Notice, MaybeLink
<1>1. CASE c = b /\ a = m.server
  <2>1. Settles(b, l, m)
    BY <1>0, <1>1 DEF DoubtAfter
  <2>2. /\ Carries(l) /\ Watches(l) /\ ~Crosses(b, l, m) /\ (Enters(m) <=> Online(a))
        /\ l \in Links /\ l \in LinksOf(b)
    BY <1>0, <1>1, <2>1 DEF Settles, Carries, Watches
  <2>3. PICK p \in BOOLEAN : p <=> Online(a)
    OBVIOUS
  <2>4. n[l] = Append(net[l], m) /\ \A i \in LinksOf(b) \ {l} : n[i] = net[i]
    BY <1>0, <2>2 DEF Sent, LinksOf
  <2>5. LastSays(n[l], a, p)
    <3>1. Says(m, a) /\ (Enters(m) <=> p) /\ net[l] \in Seq(Notice)
      BY <1>0, <1>1, <2>2, <2>3 DEF Says
    <3> QED BY <2>4, <3>1, AppendSays
  <2>6. \A i \in LinksOf(b) \ {l} : Only(n[i], a, p)
    BY <1>0, <1>1, <2>2, <2>3, <2>4, Uncrossed
  <2>7. Believes(n, known[c], c, a, p)
    BY <1>1, <2>2, <2>5, <2>6 DEF Believes
  <2> QED BY <2>3, <2>7
<1>2. CASE ~(c = b /\ a = m.server)
  <2>1. a \notin doubt[c]
    <3>1. CASE c # b
      BY <1>0, <3>1 DEF DoubtAfter
    <3>2. CASE a # m.server
      BY <1>0, <3>2 DEF DoubtAfter
    <3> QED BY <1>2, <3>1, <3>2
  <2>2. ASSUME Watches(l), l \in LinksOf(c) PROVE ~Says(m, a)
    <3>1. c = b
      BY <1>0, <2>2 DEF LinksOf, Watches
    <3> QED BY <1>2, <3>1 DEF Says
  <2>3. \A p \in BOOLEAN :
          Believes(net, known[c], c, a, p) => Believes(n, known[c], c, a, p)
    BY <1>0, <2>2, OtherSent
  <2> QED BY <1>2, <2>1, <2>3
<1> QED BY <1>1, <1>2

\* What is left to be told stays to be told.
Kept(c, a) ==
  /\ Online(a)' => Online(a)
  /\ Online(a)' /\ Pending(c, a) => Pending(c, a)'
  /\ ~Online(a)' /\ (Online(a) \/ Withdrawing(c, a)) => Withdrawing(c, a)'

LEMMA Keeps ==
  ASSUME Notices, UNCHANGED unlisted,
         \A c \in Watched, a \in Servers :
           a \notin doubt'[c] =>
             \/ \E p \in BOOLEAN :
                  (p <=> Online(a)') /\ Believes(net', known'[c], c, a, p)
             \/ /\ a \notin doubt[c] /\ Kept(c, a)
                /\ \A p \in BOOLEAN :
                     Believes(net, known[c], c, a, p) => Believes(net', known'[c], c, a, p)
  PROVE  Notices'
<1>1. SUFFICES ASSUME NEW c \in Watched, NEW a \in Servers, a \notin doubt'[c]
               PROVE  \E p \in BOOLEAN : Informed(c, a, p)'
  BY DEF Notices
<1>2. CASE \E p \in BOOLEAN : (p <=> Online(a)') /\ Believes(net', known'[c], c, a, p)
  <2>1. PICK p \in BOOLEAN : (p <=> Online(a)') /\ Believes(net', known'[c], c, a, p)
    BY <1>2
  <2> QED BY <2>1 DEF Informed
<1>3. CASE /\ a \notin doubt[c] /\ Kept(c, a)
           /\ \A p \in BOOLEAN :
                Believes(net, known[c], c, a, p) => Believes(net', known'[c], c, a, p)
  <2>1. PICK p \in BOOLEAN : Informed(c, a, p)
    BY <1>3 DEF Notices
  <2>2. Informed(c, a, p)'
    BY <1>3, <2>1 DEF Informed, Kept
  <2> QED BY <2>2
<1> QED BY <1>1, <1>2, <1>3

LEMMA SameOnline == UNCHANGED groups => \A a : Online(a)' <=> Online(a)
BY DEF groups, Online, Group

\* One thread's work changes.
LEMMA OneJob ==
  ASSUME TypeOK, NEW t \in Threads, NEW j, job' = [job EXCEPT ![t] = j], NEW c, NEW a
  PROVE  /\ (t = "strand" /\ Pends(job[t], c, a) => Pends(j, c, a))
              => (Pending(c, a) => Pending(c, a)')
         /\ (Withdraws(job[t], c, a) => Withdraws(j, c, a))
              => (Withdrawing(c, a) => Withdrawing(c, a)')
         /\ Withdraws(j, c, a) => Withdrawing(c, a)'
<1>1. /\ job'[t] = j /\ \A u \in Threads : u # t => job'[u] = job[u]
      /\ "strand" \in Threads
  BY DEF TypeOK, Threads
<1>2. (t = "strand" /\ Pends(job[t], c, a) => Pends(j, c, a)) =>
        (Pending(c, a) => Pending(c, a)')
  <2>1. CASE t = "strand"
    BY <1>1, <2>1 DEF Pending, Pends
  <2>2. CASE t # "strand"
    BY <1>1, <2>2 DEF Pending, Pends
  <2> QED BY <2>1, <2>2
<1>3. Withdraws(j, c, a) => Withdrawing(c, a)'
  BY <1>1 DEF Withdrawing, Withdraws
<1>4. ASSUME Withdraws(job[t], c, a) => Withdraws(j, c, a), Withdrawing(c, a)
      PROVE  Withdrawing(c, a)'
  <2>1. PICK u \in Threads : Withdraws(job[u], c, a)
    BY <1>4 DEF Withdrawing
  <2>2. CASE u = t
    BY <1>3, <1>4, <2>1, <2>2
  <2>3. CASE u # t
    BY <1>1, <2>1, <2>3 DEF Withdrawing, Withdraws
  <2> QED BY <2>2, <2>3
<1> QED BY <1>2, <1>3, <1>4

\* A thread goes on and nothing is sent.
LEMMA Quiet ==
  ASSUME TypeOK, Notices, NEW t \in Threads, NEW j, job' = [job EXCEPT ![t] = j],
         UNCHANGED <<unlisted, net, known>>,
         \A c \in Watched, a \in Servers :
           a \notin doubt'[c] =>
             /\ a \notin doubt[c]
             /\ Online(a)' => Online(a)
             /\ t = "strand" /\ Online(a)' /\ Pends(job[t], c, a) => Pends(j, c, a)
             /\ ~Online(a)' /\ (Online(a) \/ Withdraws(job[t], c, a)) => Withdraws(j, c, a)
  PROVE  Notices'
<1>1. ASSUME NEW c \in Watched, NEW a \in Servers, a \notin doubt'[c]
      PROVE  a \notin doubt[c] /\ Kept(c, a)
  BY <1>1, OneJob DEF Kept
<1> QED BY <1>1, Keeps

\* A thread tells the process b of a server.
LEMMA TellNotices ==
  ASSUME TypeOK, Notices, NEW b, NEW l \in MaybeLink, l \in Links => Owner[l] = b,
         NEW m \in Notice, m.kind # "success",
         net' = Sent(net, l, m), doubt' = DoubtAfter(b, l, m),
         UNCHANGED <<groups, known, unlisted>>,
         \A c \in Watched, a \in Servers :
           ~(c = b /\ a = m.server) =>
             /\ Pending(c, a) => Pending(c, a)'
             /\ Withdrawing(c, a) => Withdrawing(c, a)'
  PROVE  Notices'
<1>1. ASSUME NEW c \in Watched, NEW a \in Servers, a \notin doubt'[c]
      PROVE  \/ \E p \in BOOLEAN :
                  (p <=> Online(a)') /\ Believes(net', known'[c], c, a, p)
             \/ /\ a \notin doubt[c] /\ Kept(c, a)
                /\ \A p \in BOOLEAN :
                     Believes(net, known[c], c, a, p) => Believes(net', known'[c], c, a, p)
  <2>1. \/ \E p \in BOOLEAN : (p <=> Online(a)) /\ Believes(net', known[c], c, a, p)
        \/ /\ a \notin doubt[c] /\ ~(c = b /\ a = m.server)
           /\ \A p \in BOOLEAN :
                Believes(net, known[c], c, a, p) => Believes(net', known[c], c, a, p)
    BY <1>1, Telling
  <2>2. Online(a)' <=> Online(a)
    BY SameOnline
  <2>3. known'[c] = known[c]
    OBVIOUS
  <2>4. CASE \E p \in BOOLEAN : (p <=> Online(a)) /\ Believes(net', known[c], c, a, p)
    BY <2>2, <2>3, <2>4
  <2>5. CASE /\ a \notin doubt[c] /\ ~(c = b /\ a = m.server)
             /\ \A p \in BOOLEAN :
                  Believes(net, known[c], c, a, p) => Believes(net', known[c], c, a, p)
    <3>1. Kept(c, a)
      BY <2>2, <2>5 DEF Kept
    <3> QED BY <2>3, <2>5, <3>1
  <2> QED BY <2>1, <2>4, <2>5
<1> QED BY <1>1, Keeps
-----------------------------------------------------------------------------
(* Every step keeps the processes informed.                                *)

LEMMA InitNotices == Init => Notices
<1> SUFFICES ASSUME Init, NEW b \in Watched, NEW a \in Servers
             PROVE  \E p \in BOOLEAN : Informed(b, a, p)
  BY DEF Notices
<1>1. /\ \A l \in LinksOf(b) : net[l] = <<>>
      /\ b \in Servers /\ known[b] = {} /\ ~Online(a)
  BY ServerAssumption DEF Init, LinksOf, Online, Group
<1>2. Believes(net, known[b], b, a, FALSE)
  BY <1>1, NothingSaid DEF Believes
<1> QED BY <1>1, <1>2 DEF Informed

\* A server is announced to a process, or withdrawn.
LEMMA PushNotices ==
  ASSUME Sound, Notices, NEW t \in Threads, NEW kind \in Kinds, kind # "success",
         job[t].step \in {"announce", "withdraw"},
         PushToServer(t, kind) \/ \E b \in Servers : NoSocket(t, b, kind)
  PROVE  Notices'
<1> DEFINE j == job[t]
<1>0. j \in Job /\ j.server \in Servers /\ j.pick \in MaybeLink /\ TypeOK
      /\ NoLink \in MaybeLink /\ NoLink \notin Links
  BY LinkAssumption DEF Sound, TypeOK, Job, MaybeLink
<1>1. PICK b, l : /\ l \in MaybeLink /\ (l \in Links => Owner[l] = b)
                  /\ Tells(t, b, l, kind)
  <2>1. CASE PushToServer(t, kind)
    <3>1. Tells(t, Owner[j.pick], j.pick, kind)
      BY <2>1 DEF PushToServer
    <3> QED BY <1>0, <3>1
  <2>2. CASE \E b \in Servers : NoSocket(t, b, kind)
    <3>1. PICK b \in Servers : Tells(t, b, NoLink, kind)
      BY <2>2 DEF NoSocket
    <3> QED BY <1>0, <3>1
  <2> QED BY <2>1, <2>2
<1> DEFINE m == Message(kind, j.server)  r == [j EXCEPT !.pick = NoLink, !.todo = @ \ {b}]
<1>2. m \in Notice /\ m.kind # "success" /\ m.server = j.server
  BY <1>0, MessageType
<1>3. /\ net' = Sent(net, l, m) /\ doubt' = DoubtAfter(b, l, m)
      /\ UNCHANGED <<groups, known, unlisted>> /\ job' = [job EXCEPT ![t] = r]
  BY <1>0, <1>1 DEF Tells, Tell, hub, process, TypeOK
<1>4. /\ r.step = j.step /\ r.server = j.server /\ r.link = j.link /\ r.todo = j.todo \ {b}
      /\ j.step \in {"announce", "withdraw"}
  <2>1. j.step \in {"announce", "withdraw"}
    OBVIOUS
  <2> HIDE DEF j
  <2> QED BY <1>0, <2>1, ToldFields
<1> HIDE DEF m, r
<1>5. ASSUME NEW c \in Watched, NEW a \in Servers, ~(c = b /\ a = m.server)
      PROVE  /\ Pending(c, a) => Pending(c, a)'
             /\ Withdrawing(c, a) => Withdrawing(c, a)'
  <2>1. ~(c = b /\ a = j.server)
    BY <1>2, <1>5
  <2>2. /\ Pends(j, c, a) => Pends(r, c, a)
        /\ Withdraws(j, c, a) => Withdraws(r, c, a)
    <3> HIDE DEF j
    <3> QED BY <1>4, <2>1 DEF Pends, Withdraws
  <2> QED BY <1>0, <1>3, <2>2, OneJob
<1> QED BY <1>0, <1>1, <1>2, <1>3, <1>5, TellNotices

\* The group's vector is found, or made; nothing is said yet.
LEMMA LoginNotices ==
  ASSUME Sound, Notices, NEW l \in Links, Login(l)
  PROVE  Notices'
<1> DEFINE s == Owner[l]  w == Work("insert", s, l, table'[s], {})
<1>1. /\ \/ UNCHANGED groups
         \/ /\ table[s] = NoLink
            /\ table' = [table EXCEPT ![s] = l] /\ members' = [members EXCEPT ![l] = {}]
      /\ job["strand"].step = "idle" /\ job' = [job EXCEPT !["strand"] = w]
      /\ UNCHANGED <<net, known, doubt, unlisted>>
  BY DEF Login, Start, At, history
<1>2. /\ s \in Servers /\ TypeOK /\ Tables /\ "strand" \in Threads
      /\ table \in [Servers -> MaybeLink] /\ members \in [Links -> SUBSET Links]
  BY OwnerAssumption DEF Sound, Threads, TypeOK
<1>3. ASSUME NEW a \in Servers PROVE Online(a)' <=> Online(a)
  <2>1. CASE UNCHANGED groups
    BY <2>1, SameOnline
  <2>2. CASE /\ table[s] = NoLink /\ a # s
             /\ table' = [table EXCEPT ![s] = l] /\ members' = [members EXCEPT ![l] = {}]
    <3>1. table'[a] = table[a] /\ (table[a] # NoLink => table[a] # l /\ table[a] \in Links)
      BY <1>2, <2>2 DEF Tables, MaybeLink
    <3>2. table[a] # NoLink => members'[table[a]] = members[table[a]]
      BY <1>2, <2>2, <3>1
    <3> QED BY <3>1, <3>2 DEF Online, Group
  <2>3. CASE /\ table[s] = NoLink /\ a = s
             /\ table' = [table EXCEPT ![s] = l] /\ members' = [members EXCEPT ![l] = {}]
    <3>1. table'[a] = l /\ members'[l] = {} /\ table[a] = NoLink
      BY <1>2, <2>3
    <3> QED BY <3>1 DEF Online, Group
  <2> QED BY <1>1, <2>1, <2>2, <2>3
<1>4. \A c, a : ~Pends(job["strand"], c, a) /\ ~Withdraws(job["strand"], c, a)
  BY <1>1 DEF Pends, Withdraws
<1> HIDE DEF w
<1> QED BY <1>1, <1>2, <1>3, <1>4, Quiet

\* The first link of a vector comes online with its server still to be announced.
LEMMA InsertNotices ==
  ASSUME Sound, Notices, LoginInsert
  PROVE  Notices'
<1> DEFINE j == job["strand"]  s == j.server  v == j.vec
           w == Work("announce", s, j.link, v, Watched)
           m == Message("success", s)
<1>1. /\ j.step = "insert" /\ UNCHANGED <<table, known, doubt>>
      /\ members' = [members EXCEPT ![v] = @ \cup {j.link}]
      /\ net' = Sent(net, j.link, m)
      /\ \/ members[v] # {} /\ job' = [job EXCEPT !["strand"] = Idle] /\ UNCHANGED unlisted
         \/ job' = [job EXCEPT !["strand"] = w] /\ unlisted' = unlisted \ {s}
  BY DEF LoginInsert, Start, Finish, At, process
<1>2. /\ TypeOK /\ Tables /\ JobSound(j) /\ "strand" \in Threads /\ j \in Job
      /\ table \in [Servers -> MaybeLink] /\ members \in [Links -> SUBSET Links]
      /\ Watched \subseteq Servers
  BY ServerAssumption DEF Sound, Jobs, Threads, TypeOK
<1>3. v \in Links /\ Owner[v] = s /\ s \in Servers /\ j.link \in Links
  BY <1>1, <1>2 DEF JobSound, VectorSteps, Job
<1>4. m \in Notice /\ m.kind = "success"
  BY <1>3, MessageType DEF Kinds
<1>5. ASSUME NEW a \in Servers
      PROVE  /\ Online(a) => Online(a)'
             /\ a # s \/ members[v] # {} => (Online(a)' => Online(a))
  <2>1. members'[v] = members[v] \cup {j.link} /\ \A u \in Links : u # v => members'[u] = members[u]
    BY <1>1, <1>2, <1>3
  <2>2. table[a] = NoLink \/ (table[a] \in Links /\ Owner[table[a]] = a)
    BY <1>2 DEF Tables, MaybeLink
  <2>3. table' = table
    BY <1>1
  <2> HIDE DEF j, s, v
  <2>4. CASE table[a] = NoLink
    BY <2>3, <2>4 DEF Online, Group
  <2>5. CASE table[a] \in Links /\ Owner[table[a]] = a /\ table[a] # v
    BY <2>1, <2>3, <2>5 DEF Online, Group
  <2>6. CASE table[a] = v /\ Owner[table[a]] = a
    BY <1>3, <2>1, <2>3, <2>6 DEF Online, Group
  <2> QED BY <2>2, <2>4, <2>5, <2>6
<1>6. SUFFICES ASSUME NEW c \in Watched, NEW a \in Servers, a \notin doubt'[c]
               PROVE  \E p \in BOOLEAN : Informed(c, a, p)'
  BY DEF Notices
<1>7. PICK p \in BOOLEAN : Informed(c, a, p)
  BY <1>1, <1>6 DEF Notices
<1>8. Believes(net', known'[c], c, a, p)
  <2>1. ~Says(m, a)
    BY <1>4 DEF Says
  <2>2. Believes(net, known[c], c, a, p)
    BY <1>7 DEF Informed
  <2> HIDE DEF m
  <2> QED BY <1>1, <1>2, <1>4, <2>1, <2>2, OtherSent
<1>9. ~Pending(c, a) /\ ~Withdraws(j, c, a)
  BY <1>1 DEF Pending, Pends, Withdraws
<1>10. Withdrawing(c, a) => Withdrawing(c, a)'
  <2> HIDE DEF w
  <2> QED BY <1>1, <1>2, <1>9, OneJob
<1>11. ~Online(a)' /\ p => Withdrawing(c, a)'
  BY <1>5, <1>7, <1>10 DEF Informed
<1>12. CASE members[v] # {} /\ UNCHANGED unlisted
  <2>1. Online(a)' /\ ~p => c \in unlisted'
    BY <1>5, <1>7, <1>9, <1>12 DEF Informed
  <2> QED BY <1>8, <1>11, <2>1 DEF Informed
<1>13. CASE job' = [job EXCEPT !["strand"] = w] /\ unlisted' = unlisted \ {s}
  <2>1. w.step = "announce" /\ w.server = s /\ w.todo = Watched
    <3>1. "announce" \in Steps /\ j.link \in MaybeLink /\ v \in MaybeLink
          /\ Watched \in SUBSET Servers
      BY <1>2, <1>3 DEF Steps, MaybeLink
    <3> HIDE DEF j, s, v
    <3> QED BY <1>3, <3>1, WorkType
  <2>2. job'["strand"] = w
    BY <1>2, <1>13 DEF TypeOK
  <2> HIDE DEF w
  <2>3. a = s \/ c = s => Pending(c, a)'
    BY <2>1, <2>2 DEF Pending, Pends
  <2>4. Online(a)' /\ ~p => c \in unlisted' \/ Pending(c, a)'
    BY <1>5, <1>7, <1>9, <1>13, <2>3 DEF Informed
  <2> QED BY <1>8, <1>11, <2>4 DEF Informed
<1> QED BY <1>1, <1>12, <1>13

\* The strand's further steps of a login.
LEMMA ListNotices ==
  ASSUME Sound, Notices,
         \/ Announced \/ CreateAcceptServer \/ OnOnline \/ LoginDone
         \/ \E a \in Servers : GetAllSocketVector(a) \/ OnOnlineSend(a)
  PROVE  Notices'
<1> DEFINE j == job["strand"]
<1>0. /\ "strand" \in Threads /\ j \in Job /\ JobSound(j) /\ TypeOK
      /\ "list" \in Steps /\ "drain" \in Steps /\ {"accept", "data"} \subseteq Kinds
      /\ \A l \in Links : Owner[l] \in Servers
      /\ j.server \in Servers /\ j.todo \in SUBSET Servers
      /\ stored \in [Servers -> SUBSET Servers] /\ Watched \subseteq Servers
  BY OwnerAssumption, ServerAssumption DEF Threads, Steps, Kinds, Sound, TypeOK, Jobs, Job
<1>1. ASSUME Announced PROVE Notices'
  <2> DEFINE d == IF Watches(j.link) THEN Servers ELSE {}
             w == Moved(j, "list", d)
  <2>1. /\ j.step = "announce" /\ j.todo = {} /\ job' = [job EXCEPT !["strand"] = w]
        /\ UNCHANGED <<groups, net, known, doubt, unlisted>>
    BY <1>0, <1>1 DEF Announced, At, Moved, hub, process, history
  <2>2. w.step = "list" /\ w.link = j.link /\ w.todo = d
    <3>1. j \in Job /\ "list" \in Steps /\ d \in SUBSET Servers
      BY <1>0
    <3> HIDE DEF d, j
    <3> QED BY <3>1, MovedFields
  <2>3. j.link \in Links /\ j.server = Owner[j.link] /\ j.link # NoLink
    BY <1>0, <2>1, LinkAssumption DEF JobSound, ListSteps
  <2>4. \A c \in Watched, a \in Servers :
          /\ Pends(j, c, a) => Pends(w, c, a)
          /\ ~Withdraws(j, c, a)
    <3>1. \A c \in Watched, a \in Servers : Pends(j, c, a) => j.server = c
      BY <2>1 DEF Pends
    <3>2. \A c \in Watched, a \in Servers : j.server = c => a \in d
      BY <2>3 DEF Watches
    <3> HIDE DEF w, d
    <3>3. \A c \in Watched, a \in Servers : j.server = c => Pends(w, c, a)
      BY <2>2, <2>3, <3>2 DEF Pends
    <3> QED BY <2>1, <3>1, <3>3 DEF Withdraws
  <2> HIDE DEF w
  <2> QED BY <1>0, <2>1, <2>4, SameOnline, Quiet
<1>2. ASSUME NEW b \in Servers, GetAllSocketVector(b) PROVE Notices'
  <2> DEFINE d == j.todo \ {b}  w == Listing(j, d, b)  r == [j EXCEPT !.todo = d]
  <2>1. /\ j.step = "list" /\ UNCHANGED <<groups, net, known, doubt, unlisted>>
        /\ \/ job' = [job EXCEPT !["strand"] = w]
           \/ ~Online(b) /\ job' = [job EXCEPT !["strand"] = r]
    BY <1>0, <1>2 DEF GetAllSocketVector, At, Listing, hub, process, history
  <2>2. /\ w.step = "tell" /\ w.server = b /\ w.link = j.link /\ w.todo = d
        /\ r.step = j.step /\ r.link = j.link /\ r.todo = d
    <3>1. j \in Job /\ d \in SUBSET Servers
      BY <1>0
    <3> HIDE DEF d, j
    <3>2. w.step = "tell" /\ w.server = b /\ w.link = j.link /\ w.todo = d
      BY <3>1, ListFields
    <3>3. r.step = j.step /\ r.link = j.link /\ r.todo = d
      BY <3>1, JobFields
    <3> QED BY <3>2, <3>3
  <2> HIDE DEF w, r
  <2>3. \A c \in Watched, a \in Servers :
          /\ Pends(j, c, a) => Pends(w, c, a)
          /\ Pends(j, c, a) /\ a # b => Pends(r, c, a)
          /\ ~Withdraws(j, c, a)
    BY <2>1, <2>2 DEF Pends, Withdraws
  <2>4. \A a : Online(a)' <=> Online(a)
    BY <2>1, SameOnline
  <2>5. CASE job' = [job EXCEPT !["strand"] = w]
    BY <1>0, <2>1, <2>3, <2>4, <2>5, Quiet
  <2>6. CASE ~Online(b) /\ job' = [job EXCEPT !["strand"] = r]
    BY <1>0, <2>1, <2>3, <2>4, <2>6, Quiet
  <2> QED BY <2>1, <2>5, <2>6
<1>3. ASSUME CreateAcceptServer PROVE Notices'
  <2> DEFINE l == j.link  b == Owner[l]  m == Message("accept", j.server)  w == Returned(j, b)
  <2>1. /\ j.step = "tell" /\ UNCHANGED <<groups, known, unlisted>>
        /\ net' = Sent(net, l, m) /\ doubt' = DoubtAfter(b, l, m)
        /\ job' = [job EXCEPT !["strand"] = w]
    BY <1>0, <1>3 DEF CreateAcceptServer, Tell, At, Returned, hub, process
  <2>2. l \in Links /\ l \in MaybeLink /\ b \in Servers
    BY <1>0, <2>1 DEF JobSound, ListSteps, MaybeLink
  <2>3. w.step = "list" /\ w.link = l /\ w.todo = j.todo
    <3>1. b \in Servers /\ j \in Job /\ {} \in SUBSET Servers
      BY <1>0, <2>2
    <3> HIDE DEF b, j
    <3> QED BY <3>1, ListFields
  <2>4. m \in Notice /\ m.kind # "success" /\ m.server = j.server
    BY <1>0, MessageType
  <2> HIDE DEF m, w
  <2>5. ASSUME NEW c \in Watched, NEW a \in Servers, ~(c = b /\ a = m.server)
        PROVE  /\ Pending(c, a) => Pending(c, a)'
               /\ Withdrawing(c, a) => Withdrawing(c, a)'
    <3>1. (Pends(j, c, a) => Pends(w, c, a)) /\ ~Withdraws(j, c, a)
      BY <2>1, <2>3, <2>4, <2>5 DEF Pends, Withdraws
    <3> QED BY <1>0, <2>1, <3>1, OneJob
  <2> HIDE DEF b, l, j
  <2>6. l \in Links => Owner[l] = b
    BY DEF b
  <2> QED BY <1>0, <2>1, <2>2, <2>4, <2>5, <2>6, TellNotices
<1>4. ASSUME OnOnline PROVE Notices'
  <2> DEFINE w == Moved(j, "drain", stored[j.server])
  <2>1. /\ j.step = "list" /\ j.todo = {} /\ job' = [job EXCEPT !["strand"] = w]
        /\ UNCHANGED <<groups, net, known, doubt, unlisted>>
    BY <1>0, <1>4 DEF OnOnline, At, Moved, process, history
  <2>2. \A c, a : ~Pends(j, c, a) /\ ~Withdraws(j, c, a)
    BY <2>1 DEF Pends, Withdraws
  <2> HIDE DEF w
  <2> QED BY <1>0, <2>1, <2>2, SameOnline, Quiet
<1>5. ASSUME NEW x \in Servers, OnOnlineSend(x) PROVE Notices'
  <2> DEFINE l == j.link  b == j.server  m == Message("data", x)
             w == [j EXCEPT !.todo = j.todo \ {x}]
  <2>1. /\ j.step = "drain" /\ UNCHANGED <<groups, known, unlisted>>
        /\ net' = Sent(net, l, m) /\ doubt' = DoubtAfter(b, l, m)
        /\ job' = [job EXCEPT !["strand"] = w] \/ UNCHANGED job
    BY <1>0, <1>5 DEF OnOnlineSend, Tell, At, hub, process
  <2>2. l \in Links /\ l \in MaybeLink /\ b = Owner[l]
    BY <1>0, <2>1 DEF JobSound, ListSteps, MaybeLink
  <2>3. m \in Notice /\ m.kind # "success"
    BY <1>0, MessageType
  <2>4. \A c, a : ~Pends(j, c, a) /\ ~Withdraws(j, c, a)
    BY <2>1 DEF Pends, Withdraws
  <2> HIDE DEF m, w
  <2>5. ASSUME NEW c, NEW a
        PROVE  /\ Pending(c, a) => Pending(c, a)'
               /\ Withdrawing(c, a) => Withdrawing(c, a)'
    <3>1. CASE UNCHANGED job
      BY <3>1 DEF Pending, Pends, Withdrawing, Withdraws
    <3>2. CASE job' = [job EXCEPT !["strand"] = w]
      BY <1>0, <2>4, <3>2, OneJob
    <3> QED BY <2>1, <3>1, <3>2
  <2> HIDE DEF b, l, j
  <2> QED BY <1>0, <2>1, <2>2, <2>3, <2>5, TellNotices
<1>6. ASSUME LoginDone PROVE Notices'
  <2>1. /\ j.step = "drain" /\ job' = [job EXCEPT !["strand"] = Idle]
        /\ UNCHANGED <<groups, net, known, doubt, unlisted>>
    BY <1>6 DEF LoginDone, Finish, Start, At, hub, process, history
  <2>2. \A c, a : ~Pends(j, c, a) /\ ~Withdraws(j, c, a)
    BY <2>1 DEF Pends, Withdraws
  <2> QED BY <1>0, <2>1, <2>2, SameOnline, Quiet
<1> QED BY <1>1, <1>2, <1>3, <1>4, <1>5, <1>6

\* A link is lost; with the last one of the group the server has gone.
LEMMA LosingNotices ==
  ASSUME Sound, Notices, NEW t \in Threads,
         \/ \E l \in Links : CloseLink(t, l)
         \/ AbortFind(t) \/ AbortRemove(t) \/ AbortErase(t) \/ AbortRecheck(t)
         \/ Withdrawn(t)
         \/ \E b \in Servers : NextSocket(t, b)
  PROVE  Notices'
<1> DEFINE j == job[t]
<1>0. /\ j \in Job /\ JobSound(j) /\ TypeOK /\ Tables
      /\ {"erase", "recheck", "withdraw"} \subseteq Steps
      /\ j.server \in Servers /\ j.link \in MaybeLink
      /\ table \in [Servers -> MaybeLink] /\ members \in [Links -> SUBSET Links]
      /\ doubt \in [Servers -> SUBSET Servers]
      /\ Watched \subseteq Servers /\ NoLink \in MaybeLink
  BY ServerAssumption DEF Steps, Sound, TypeOK, Jobs, Job, MaybeLink
\* The thread's next work, when it owes nobody anything and loses no server.
<1>1. ASSUME j.step \notin {"announce", "list", "tell", "erase", "recheck"},
             j.step = "withdraw" => j.todo = {},
             NEW w, job' = [job EXCEPT ![t] = w],
             UNCHANGED <<groups, net, known, doubt, unlisted>>
      PROVE  Notices'
  <2>1. \A c, a : ~Pends(j, c, a) /\ ~Withdraws(j, c, a)
    BY <1>1 DEF Pends, Withdraws
  <2> HIDE DEF j
  <2> QED BY <1>0, <1>1, <2>1, SameOnline, Quiet DEF j
<1>2. ASSUME NEW l \in Links, CloseLink(t, l) PROVE Notices'
  <2>1. PICK w : job' = [job EXCEPT ![t] = w]
    BY <1>2 DEF CloseLink, Start
  <2>2. j.step = "idle" /\ UNCHANGED <<groups, net, known, doubt, unlisted>>
    BY <1>2 DEF CloseLink, At, process, history
  <2> QED BY <1>1, <2>1, <2>2
<1>3. ASSUME AbortFind(t) PROVE Notices'
  <2>1. PICK w : job' = [job EXCEPT ![t] = w]
    BY <1>3 DEF AbortFind, Start, Finish
  <2>2. j.step = "find" /\ UNCHANGED <<groups, net, known, doubt, unlisted>>
    BY <1>3 DEF AbortFind, At, hub, process, history
  <2> QED BY <1>1, <2>1, <2>2
<1>4. ASSUME Withdrawn(t) PROVE Notices'
  <2>1. /\ job' = [job EXCEPT ![t] = Idle] /\ j.step = "withdraw" /\ j.todo = {}
        /\ UNCHANGED <<groups, net, known, doubt, unlisted>>
    BY <1>4 DEF Withdrawn, Start, Finish, At, hub, process, history
  <2> QED BY <1>1, <2>1
<1>5. ASSUME NEW b \in Servers, NextSocket(t, b) PROVE Notices'
  <2>1. PICK l \in Group(b) : job' = [job EXCEPT ![t].pick = l]
    BY <1>5 DEF NextSocket
  <2> DEFINE w == [j EXCEPT !.pick = l]
  <2>2. job' = [job EXCEPT ![t] = w] /\ UNCHANGED <<groups, net, known, doubt, unlisted>>
    BY <1>0, <1>5, <2>1 DEF NextSocket, hub, process, history, TypeOK
  <2>3. l \in MaybeLink
    <3>1. table[b] # NoLink => members[table[b]] \subseteq Links
      BY <1>0 DEF MaybeLink
    <3> QED BY <2>1, <3>1 DEF Group, MaybeLink
  <2>4. w.step = j.step /\ w.server = j.server /\ w.link = j.link /\ w.todo = j.todo
    <3> HIDE DEF j
    <3> QED BY <1>0, <2>3, JobFields
  <2> HIDE DEF w
  <2>5. \A c, a : /\ Pends(j, c, a) => Pends(w, c, a)
                  /\ Withdraws(j, c, a) => Withdraws(w, c, a)
    BY <2>4 DEF Pends, Withdraws
  <2> QED BY <1>0, <2>2, <2>5, SameOnline, Quiet
<1>6. ASSUME AbortRemove(t) PROVE Notices'
  <2>1. CASE job' = [job EXCEPT ![t] = Idle] /\ UNCHANGED members
    <3>1. j.step = "remove" /\ UNCHANGED <<groups, net, known, doubt, unlisted>>
      BY <1>6, <2>1 DEF AbortRemove, At, groups, process, history
    <3> QED BY <1>1, <2>1, <3>1
  <2>2. CASE /\ members' = [members EXCEPT ![j.vec] = @ \ {j.link}]
             /\ job' = [job EXCEPT ![t].step = "erase"]
    <3> DEFINE w == [j EXCEPT !.step = "erase"]
    <3>1. /\ job' = [job EXCEPT ![t] = w] /\ j.step = "remove"
          /\ UNCHANGED <<table, net, known, doubt, unlisted>>
      BY <1>0, <1>6, <2>2 DEF AbortRemove, At, process, history, TypeOK
    <3>2. w.step = "erase" /\ w.server = j.server
      <4> HIDE DEF j
      <4> QED BY <1>0, JobFields
    <3>3. j.vec \in Links /\ Owner[j.vec] = j.server
      BY <1>0, <3>1 DEF JobSound, VectorSteps
    <3>4. \A c, a : ~Pends(j, c, a) /\ ~Withdraws(j, c, a)
      BY <3>1 DEF Pends, Withdraws
    <3>5. ASSUME NEW a \in Servers
          PROVE  (Online(a)' => Online(a)) /\ (~Online(a)' /\ Online(a) => a = j.server)
      <4>1. /\ members'[j.vec] = members[j.vec] \ {j.link} /\ table' = table
            /\ \A u \in Links : u # j.vec => members'[u] = members[u]
        BY <1>0, <2>2, <3>1, <3>3
      <4>2. table[a] = NoLink \/ (table[a] \in Links /\ Owner[table[a]] = a)
        BY <1>0 DEF Tables, MaybeLink
      <4> HIDE DEF j, w
      <4>3. CASE table[a] = NoLink
        BY <4>1, <4>3 DEF Online, Group
      <4>4. CASE table[a] \in Links /\ table[a] # j.vec
        BY <4>1, <4>4 DEF Online, Group
      <4>5. CASE table[a] = j.vec /\ Owner[table[a]] = a
        BY <3>3, <4>1, <4>5 DEF Online, Group
      <4> QED BY <4>2, <4>3, <4>4, <4>5
    <3>6. \A c : Withdraws(w, c, j.server)
      <4> HIDE DEF w, j
      <4> QED BY <3>2 DEF Withdraws
    <3> HIDE DEF w
    <3>7. \A c \in Watched, a \in Servers :
            a \notin doubt'[c] =>
              /\ a \notin doubt[c]
              /\ Online(a)' => Online(a)
              /\ t = "strand" /\ Online(a)' /\ Pends(j, c, a) => Pends(w, c, a)
              /\ ~Online(a)' /\ (Online(a) \/ Withdraws(j, c, a)) => Withdraws(w, c, a)
      BY <3>1, <3>4, <3>5, <3>6
    <3> QED BY <1>0, <3>1, <3>7, Quiet
  <2> QED BY <1>6, <2>1, <2>2 DEF AbortRemove, Goto, Finish, Start
<1>7. ASSUME AbortErase(t) PROVE Notices'
  <2> DEFINE w == [j EXCEPT !.step = "recheck"]
  <2>1. /\ job' = [job EXCEPT ![t] = w] /\ j.step = "erase"
        /\ table' = [table EXCEPT ![j.server] = NoLink] \/ table' = table
        /\ UNCHANGED <<members, net, known, doubt, unlisted>>
    BY <1>0, <1>7 DEF AbortErase, Goto, At, process, history, TypeOK
  <2>2. w.step = "recheck" /\ w.server = j.server
    <3> HIDE DEF j
    <3> QED BY <1>0, JobFields
  <2>3. \A c, a : ~Pends(j, c, a) /\ (Withdraws(j, c, a) => a = j.server)
    BY <2>1 DEF Pends, Withdraws
  <2>4. ASSUME NEW a \in Servers
        PROVE  (Online(a)' => Online(a)) /\ (~Online(a)' /\ Online(a) => a = j.server)
    <3>1. table'[a] = table[a] \/ (a = j.server /\ table'[a] = NoLink)
      BY <1>0, <2>1
    <3>2. members' = members
      BY <2>1
    <3> HIDE DEF j, w
    <3> QED BY <3>1, <3>2 DEF Online, Group
  <2>5. \A c : Withdraws(w, c, j.server)
    <3> HIDE DEF w, j
    <3> QED BY <2>2 DEF Withdraws
  <2> HIDE DEF w
  <2>6. \A c \in Watched, a \in Servers :
          a \notin doubt'[c] =>
            /\ a \notin doubt[c]
            /\ Online(a)' => Online(a)
            /\ t = "strand" /\ Online(a)' /\ Pends(j, c, a) => Pends(w, c, a)
            /\ ~Online(a)' /\ (Online(a) \/ Withdraws(j, c, a)) => Withdraws(w, c, a)
    BY <2>1, <2>3, <2>4, <2>5
  <2> QED BY <1>0, <2>1, <2>6, Quiet
<1>8. ASSUME AbortRecheck(t) PROVE Notices'
  <2> DEFINE w == Work("withdraw", j.server, j.link, NoLink, Watched)
  <2>1. j.step = "recheck" /\ UNCHANGED <<groups, net, known, unlisted>>
    BY <1>8 DEF AbortRecheck, At, hub, process
  <2>2. \A c, a : ~Pends(j, c, a) /\ (Withdraws(j, c, a) => a = j.server)
    BY <2>1 DEF Pends, Withdraws
  <2>3. CASE job' = [job EXCEPT ![t] = w] /\ UNCHANGED doubt
    <3>1. w.step = "withdraw" /\ w.server = j.server /\ w.todo = Watched
      <4>1. Watched \in SUBSET Servers
        BY <1>0
      <4> HIDE DEF j
      <4> QED BY <1>0, <4>1, WorkType
    <3>2. \A c \in Watched : Withdraws(w, c, j.server)
      <4> HIDE DEF w, j
      <4> QED BY <3>1 DEF Withdraws
    <3>3. \A a : Online(a)' <=> Online(a)
      BY <2>1, SameOnline
    <3> HIDE DEF w
    <3>4. \A c \in Watched, a \in Servers :
            a \notin doubt'[c] =>
              /\ a \notin doubt[c]
              /\ Online(a)' => Online(a)
              /\ t = "strand" /\ Online(a)' /\ Pends(j, c, a) => Pends(w, c, a)
              /\ ~Online(a)' /\ (Online(a) \/ Withdraws(j, c, a)) => Withdraws(w, c, a)
      BY <2>2, <2>3, <3>2, <3>3
    <3> QED BY <1>0, <2>1, <2>3, <3>4, Quiet
  <2>4. CASE /\ job' = [job EXCEPT ![t] = Idle]
             /\ doubt' = IF Online(j.server) THEN doubt
                         ELSE [b \in Servers |-> IF b \in Watched THEN doubt[b] \cup {j.server}
                                                ELSE doubt[b]]
    <3>1. ASSUME NEW c \in Watched, NEW a \in Servers, a \notin doubt'[c]
          PROVE  a \notin doubt[c] /\ (a = j.server => Online(a))
      BY <1>0, <2>4, <3>1
    <3> HIDE DEF j
    <3> QED BY <1>0, <2>1, <2>2, <2>4, <3>1, SameOnline, Quiet DEF j
  <2> QED BY <1>8, <2>3, <2>4 DEF AbortRecheck, Start, Finish
<1> QED BY <1>2, <1>3, <1>4, <1>5, <1>6, <1>7, <1>8

\* A message between servers tells its receiver of its sender.
LEMMA RouteNotices ==
  ASSUME Sound, Notices,
         \/ \E l \in Links, b \in Servers : ProcessTransitroute(l, b)
         \/ RouteSend \/ AddSendback
  PROVE  Notices'
<1> DEFINE j == job["strand"]
<1>0. /\ "strand" \in Threads /\ j \in Job /\ TypeOK /\ "data" \in Kinds
      /\ j.server \in Servers /\ j.pick \in MaybeLink
  BY DEF Threads, Kinds, Sound, TypeOK, Job
<1>1. ASSUME j.step \in {"idle", "route", "keep"},
             NEW w, job' = [job EXCEPT !["strand"] = w],
             UNCHANGED <<groups, net, known, doubt, unlisted>>
      PROVE  Notices'
  <2>1. \A c, a : ~Pends(j, c, a) /\ ~Withdraws(j, c, a)
    BY <1>1 DEF Pends, Withdraws
  <2> HIDE DEF j
  <2> QED BY <1>0, <1>1, <2>1, SameOnline, Quiet DEF j
<1>2. ASSUME NEW l \in Links, NEW b \in Servers, ProcessTransitroute(l, b) PROVE Notices'
  <2>1. PICK w : job' = [job EXCEPT !["strand"] = w]
    BY <1>2 DEF ProcessTransitroute, Start
  <2>2. j.step = "idle" /\ UNCHANGED <<groups, net, known, doubt, unlisted>>
    BY <1>2 DEF ProcessTransitroute, At, hub, process, history
  <2> QED BY <1>1, <2>1, <2>2
<1>3. ASSUME RouteSend PROVE Notices'
  <2> DEFINE l == j.pick  b == Owner[l]  m == Message("data", j.server)
  <2>1. /\ j.step = "route" /\ UNCHANGED <<groups, known, unlisted>>
    BY <1>3 DEF RouteSend, At, hub, process
  <2>2. CASE UNCHANGED <<net, doubt>>
    <3>1. PICK w : job' = [job EXCEPT !["strand"] = w]
      BY <1>0, <1>3 DEF RouteSend, Goto, Finish, Start
    <3> QED BY <1>1, <2>1, <2>2, <3>1
  <2>3. CASE /\ net' = Sent(net, l, m) /\ doubt' = DoubtAfter(b, l, m)
             /\ job' = [job EXCEPT !["strand"] = Idle]
    <3>1. m \in Notice /\ m.kind # "success"
      BY <1>0, MessageType
    <3>2. \A c, a : ~Pends(j, c, a) /\ ~Withdraws(j, c, a)
      BY <2>1 DEF Pends, Withdraws
    <3> HIDE DEF m
    <3>3. \A c, a : /\ Pending(c, a) => Pending(c, a)'
                    /\ Withdrawing(c, a) => Withdrawing(c, a)'
      BY <1>0, <2>3, <3>2, OneJob
    <3>4. l \in MaybeLink /\ (l \in Links => Owner[l] = b)
      BY <1>0
    <3> HIDE DEF l, b, j
    <3> QED BY <1>0, <2>1, <2>3, <3>1, <3>3, <3>4, TellNotices
  <2> QED BY <1>3, <2>2, <2>3 DEF RouteSend, Tell, Finish, Start
<1>4. ASSUME AddSendback PROVE Notices'
  <2>1. /\ j.step = "keep" /\ job' = [job EXCEPT !["strand"] = Idle]
        /\ UNCHANGED <<groups, net, known, doubt, unlisted>>
    BY <1>4 DEF AddSendback, At, Finish, Start, process, history
  <2> QED BY <1>1, <2>1
<1> QED BY <1>2, <1>3, <1>4

\* A message reaches its process.
LEMMA ExchangeNotices ==
  ASSUME Sound, Notices, NEW l \in Links, ProcessExchange(l)
  PROVE  Notices'
<1> DEFINE m == Head(net[l])  s == Owner[l]
<1>0. /\ net \in [Links -> Seq(Notice)] /\ known \in [Servers -> SUBSET Servers]
      /\ s \in Servers
  BY OwnerAssumption DEF Sound, TypeOK
<1>1. /\ net[l] # <<>> /\ net' = [net EXCEPT ![l] = Tail(@)]
      /\ m.kind = "success" => UNCHANGED known
      /\ m.kind # "success" /\ Enters(m) => known' = [known EXCEPT ![s] = @ \cup {m.server}]
      /\ m.kind # "success" /\ ~Enters(m) => known' = [known EXCEPT ![s] = @ \ {m.server}]
      /\ UNCHANGED <<groups, job, doubt, unlisted>>
  BY DEF ProcessExchange, AddServerSocket, AbortServerSocket, hub, history
<1>2. /\ net' \in [Links -> Seq(Notice)] /\ net'[l] = Tail(net[l])
      /\ \A i \in Links : i # l => net'[i] = net[i]
      /\ net[l] \in Seq(Notice)
  BY <1>0, <1>1
<1>3. ASSUME NEW c \in Watched, NEW a \in Servers, NEW p \in BOOLEAN,
             Believes(net, known[c], c, a, p)
      PROVE  Believes(net', known'[c], c, a, p)
  <2>0. c \in Servers
    BY ServerAssumption
  <2>1. /\ Only(net[l], a, p) => /\ Only(net'[l], a, p)
                                 /\ Says(m, a) => (Enters(m) <=> p)
        /\ LastSays(net[l], a, p) =>
             \/ LastSays(net'[l], a, p)
             \/ Says(m, a) /\ (Enters(m) <=> p) /\ Only(net'[l], a, p)
    BY <1>1, <1>2, TailSays
  <2>2. /\ c # s \/ ~Says(m, a) => (a \in known'[c] <=> a \in known[c])
        /\ c = s /\ Says(m, a) => (a \in known'[c] <=> Enters(m))
    BY <1>0, <1>1, <2>0 DEF Says
  <2> HIDE DEF m
  <2>3. CASE l \notin LinksOf(c)
    <3>1. c # s /\ \A i \in LinksOf(c) : net'[i] = net[i]
      BY <1>2, <2>3 DEF LinksOf
    <3>2. a \in known'[c] <=> a \in known[c]
      BY <2>2, <3>1
    <3> HIDE DEF s
    <3> QED BY <1>3, <3>1, <3>2 DEF Believes
  <2>4. CASE l \in LinksOf(c)
    <3>1. c = s /\ \A i \in LinksOf(c) \ {l} : net'[i] = net[i]
      BY <1>2, <2>4 DEF LinksOf
    <3>2. CASE (\A i \in LinksOf(c) : Only(net[i], a, p)) /\ (a \in known[c] <=> p)
      <4>1. a \in known'[c] <=> p
        BY <2>1, <2>2, <2>4, <3>1, <3>2
      <4>2. \A i \in LinksOf(c) : Only(net'[i], a, p)
        BY <2>1, <2>4, <3>1, <3>2
      <4> QED BY <4>1, <4>2 DEF Believes
    <3>3. ASSUME NEW i \in LinksOf(c), LastSays(net[i], a, p),
                 \A k \in LinksOf(c) \ {i} : Only(net[k], a, p)
          PROVE  Believes(net', known'[c], c, a, p)
      <4>1. CASE i # l
        <5>1. LastSays(net'[i], a, p)
          BY <3>1, <3>3, <4>1
        <5>2. \A k \in LinksOf(c) \ {i} : Only(net'[k], a, p)
          BY <2>1, <2>4, <3>1, <3>3, <4>1
        <5> QED BY <5>1, <5>2 DEF Believes
      <4>2. CASE i = l /\ LastSays(net'[l], a, p)
        BY <3>1, <3>3, <4>2 DEF Believes
      <4>3. CASE i = l /\ Says(m, a) /\ (Enters(m) <=> p) /\ Only(net'[l], a, p)
        <5>1. a \in known'[c] <=> p
          BY <2>2, <3>1, <4>3
        <5>2. \A k \in LinksOf(c) : Only(net'[k], a, p)
          BY <3>1, <3>3, <4>3
        <5> QED BY <5>1, <5>2 DEF Believes
      <4> QED BY <2>1, <3>3, <4>1, <4>2, <4>3
    <3> QED BY <1>3, <3>2, <3>3 DEF Believes
  <2> QED BY <2>3, <2>4
<1>4. \A c, a : Kept(c, a)
  BY <1>1, SameOnline DEF Kept, Pending, Pends, Withdrawing, Withdraws
<1> QED BY <1>1, <1>3, <1>4, Keeps

\* A process loses a link, with what was under way on it.
LEMMA AbortNotices ==
  ASSUME Sound, Notices, NEW l \in Links, ProcessAbort(l)
  PROVE  Notices'
<1> DEFINE s == Owner[l]
           B == {a \in Servers : About(l, a) # {}}
<1>0. /\ net \in [Links -> Seq(Notice)] /\ doubt \in [Servers -> SUBSET Servers] /\ TypeOK
      /\ s \in Servers /\ Watched \subseteq Servers /\ <<>> \in Seq(Notice)
  BY OwnerAssumption, ServerAssumption DEF Sound, TypeOK
<1>1. /\ net' = [net EXCEPT ![l] = <<>>] /\ doubt' = [doubt EXCEPT ![s] = @ \cup B]
      /\ UNCHANGED <<groups, job, known, unlisted>>
  BY DEF ProcessAbort, hub
<1>2. /\ net' \in [Links -> Seq(Notice)] /\ net'[l] = <<>>
      /\ \A i \in Links : i # l => net'[i] = net[i]
  BY <1>0, <1>1
<1>3. \A c, a : Kept(c, a)
  BY <1>1, SameOnline DEF Kept, Pending, Pends, Withdrawing, Withdraws
<1>4. ASSUME NEW c \in Watched, NEW a \in Servers, a \notin doubt'[c]
      PROVE  /\ a \notin doubt[c]
             /\ \A p \in BOOLEAN :
                  Believes(net, known[c], c, a, p) => Believes(net', known'[c], c, a, p)
  <2>1. a \notin doubt[c] /\ (c = s => About(l, a) = {})
    BY <1>0, <1>1, <1>4
  <2>2. known'[c] = known[c]
    BY <1>1
  <2>3. CASE c = s
    <3>1. \A p \in BOOLEAN : ~LastSays(net[l], a, p) /\ Only(net'[l], a, p)
      BY <1>0, <1>2, <2>1, <2>3, Unheard, NothingSaid
    <3>2. ASSUME NEW p \in BOOLEAN, Believes(net, known[c], c, a, p)
          PROVE  Believes(net', known[c], c, a, p)
      <4>1. ~LastSays(net[l], a, p) /\ Only(net'[l], a, p)
        BY <3>1
      <4> HIDE DEF s, B
      <4> QED BY <1>0, <1>2, <3>2, <4>1, SameBelief
    <3> QED BY <2>1, <2>2, <3>2
  <2>4. CASE c # s
    <3>1. \A i \in LinksOf(c) : net'[i] = net[i]
      BY <1>2, <2>4 DEF LinksOf
    <3> HIDE DEF s
    <3> QED BY <2>1, <2>2, <3>1 DEF Believes
  <2> QED BY <2>3, <2>4
<1> QED BY <1>1, <1>3, <1>4, Keeps

\* The table is emptied: the process will know what is under way, or nothing.
LEMMA EmptyNotices ==
  ASSUME Sound, Notices, NEW l \in Links, AbortAllServerSockets(l)
  PROVE  Notices'
<1> DEFINE s == Owner[l]
           A == {a \in Servers : \E k \in LinksOf(s) : About(k, a) # {}}
<1>0. /\ known \in [Servers -> SUBSET Servers] /\ doubt \in [Servers -> SUBSET Servers]
      /\ TypeOK /\ s \in Servers /\ Watched \subseteq Servers
  BY OwnerAssumption, ServerAssumption DEF Sound, TypeOK
<1>1. /\ known' = [known EXCEPT ![s] = {}] /\ unlisted' = unlisted \cup {s}
      /\ doubt' = [doubt EXCEPT ![s] = A]
      /\ UNCHANGED <<groups, job, net>>
  BY DEF AbortAllServerSockets, hub
<1>2. SUFFICES ASSUME NEW c \in Watched, NEW a \in Servers, a \notin doubt'[c]
               PROVE  \E p \in BOOLEAN : Informed(c, a, p)'
  BY DEF Notices
<1>3. /\ Online(a)' <=> Online(a)
      /\ Pending(c, a) => Pending(c, a)'
      /\ Withdrawing(c, a) => Withdrawing(c, a)'
  BY <1>1, SameOnline DEF Pending, Pends, Withdrawing, Withdraws
<1>4. CASE c = s
  <2>1. known'[c] = {} /\ c \in unlisted' /\ \A i \in LinksOf(c) : About(i, a) = {}
    BY <1>0, <1>1, <1>2, <1>4
  <2>2. \A i \in LinksOf(c) : Only(net'[i], a, FALSE)
    <3>1. \A i \in LinksOf(c) : i \in Links
      BY DEF LinksOf
    <3>2. net' = net
      BY <1>1
    <3> QED BY <1>0, <2>1, <3>1, <3>2, Unheard
  <2>3. Believes(net', known'[c], c, a, FALSE)
    BY <2>1, <2>2 DEF Believes
  <2> QED BY <2>1, <2>3 DEF Informed
<1>5. CASE c # s
  <2>1. a \notin doubt[c] /\ known'[c] = known[c] /\ (c \in unlisted => c \in unlisted')
    BY <1>0, <1>1, <1>2, <1>5
  <2>2. PICK p \in BOOLEAN : Informed(c, a, p)
    BY <2>1 DEF Notices
  <2>3. Believes(net', known'[c], c, a, p)
    <3>1. net' = net
      BY <1>1
    <3> QED BY <2>1, <2>2, <3>1 DEF Informed
  <2>4. Informed(c, a, p)'
    BY <1>3, <2>1, <2>2, <2>3 DEF Informed
  <2> QED BY <2>4
<1> QED BY <1>4, <1>5

\* An old server socket is closed, by its key.
LEMMA CloseNotices ==
  ASSUME Sound, Notices, NEW l \in Links, NEW x \in Servers, CloseServerSocket(l, x)
  PROVE  Notices'
<1> DEFINE s == Owner[l]
<1>0. /\ known \in [Servers -> SUBSET Servers] /\ doubt \in [Servers -> SUBSET Servers]
      /\ s \in Servers /\ Watched \subseteq Servers
  BY OwnerAssumption, ServerAssumption DEF Sound, TypeOK
<1>1. /\ \/ /\ known' = [known EXCEPT ![s] = @ \ {x}]
            /\ doubt' = [doubt EXCEPT ![s] = @ \cup {x}]
         \/ known' = known /\ doubt' = doubt
      /\ UNCHANGED <<groups, job, net, unlisted>>
  BY DEF CloseServerSocket, AbortServerSocket, hub
<1>2. \A c, a : Kept(c, a)
  BY <1>1, SameOnline DEF Kept, Pending, Pends, Withdrawing, Withdraws
<1>3. ASSUME NEW c \in Watched, NEW a \in Servers, a \notin doubt'[c]
      PROVE  a \notin doubt[c] /\ (a \in known'[c] <=> a \in known[c])
  <2>1. CASE known' = known /\ doubt' = doubt
    BY <1>3, <2>1
  <2>2. CASE /\ known' = [known EXCEPT ![s] = @ \ {x}]
             /\ doubt' = [doubt EXCEPT ![s] = @ \cup {x}]
    BY <1>0, <1>3, <2>2
  <2> QED BY <1>1, <2>1, <2>2
<1>4. \A c \in Watched, a \in Servers :
        a \notin doubt'[c] =>
          \A p \in BOOLEAN :
            Believes(net, known[c], c, a, p) => Believes(net', known'[c], c, a, p)
  BY <1>1, <1>3 DEF Believes
<1> QED BY <1>1, <1>2, <1>3, <1>4, Keeps

LEMMA NextNotices == Sound /\ Notices /\ [Next]_vars => Notices'
<1> SUFFICES ASSUME Sound, Notices, [Next]_vars PROVE Notices'
  OBVIOUS
<1>1. CASE Hub
  <2>1. "strand" \in Threads /\ "accept" \in Kinds /\ "abort" \in Kinds
    BY DEF Threads, Kinds
  <2>2. CASE Announce
    BY <2>1, <2>2, PushNotices DEF Announce, At
  <2>3. ASSUME NEW t \in Threads, Withdraw(t) PROVE Notices'
    BY <2>1, <2>3, PushNotices DEF Withdraw, At
  <2> QED BY <1>1, <2>2, <2>3, InsertNotices, ListNotices, LosingNotices, RouteNotices DEF Hub
<1>2. ASSUME UNCHANGED <<groups, job, net, known, doubt, unlisted>> PROVE Notices'
  <2>1. \A c, a : Kept(c, a)
    BY <1>2, SameOnline DEF Kept, Pending, Pends, Withdrawing, Withdraws
  <2> QED BY <1>2, <2>1, Keeps
<1>3. ASSUME NEW v \in Links, Destroy(v) PROVE Notices'
  <2>1. /\ \A s \in Servers : table[s] # v
        /\ members' = [members EXCEPT ![v] = {}]
        /\ UNCHANGED <<table, job, net, known, doubt, unlisted>>
    BY <1>3 DEF Destroy, process, history
  <2>2. /\ members \in [Links -> SUBSET Links] /\ table \in [Servers -> MaybeLink]
    BY DEF Sound, TypeOK
  <2>3. ASSUME NEW a \in Servers PROVE Online(a)' <=> Online(a)
    <3>1. table' = table
      BY <2>1
    <3>2. table[a] # NoLink => members'[table[a]] = members[table[a]]
      BY <2>1, <2>2 DEF MaybeLink
    <3> QED BY <3>1, <3>2 DEF Online, Group
  <2>4. \A c \in Watched, a \in Servers : Kept(c, a)
    BY <2>1, <2>3 DEF Kept, Pending, Pends, Withdrawing, Withdraws
  <2> QED BY <2>1, <2>4, Keeps
<1>4. CASE UNCHANGED vars
  BY <1>2, <1>4 DEF vars, hub, process, history
<1>5. ASSUME NEW s \in Servers, ResetSendback(s) PROVE Notices'
  BY <1>2, <1>5 DEF ResetSendback, process, history
<1>6. CASE ~Hub /\ Next
  BY <1>3, <1>5, <1>6, LoginNotices, LosingNotices, RouteNotices, ExchangeNotices,
     AbortNotices, EmptyNotices, CloseNotices DEF Next
<1> QED BY <1>1, <1>4, <1>6

-----------------------------------------------------------------------------
\* At rest a process has a socket for every inner server the hub has, but for
\* those it may be wrong about, unless it emptied its table and is still to be
\* sent the list (PushAllAcceptServer, StageClient::ProcessTransitroute).
THEOREM Knowing == Spec => []KnowsOnline
<1>1. Sound /\ Notices => KnowsOnline
  <2> SUFFICES ASSUME Sound, Notices, NEW b \in Watched, AtRest(b), b \notin unlisted,
                      NEW a \in Servers, Online(a), a \notin doubt[b]
               PROVE  a \in known[b]
    BY DEF KnowsOnline
  <2>1. PICK p \in BOOLEAN : Informed(b, a, p)
    BY DEF Notices
  <2>2. ~Pending(b, a)
    BY DEF AtRest, At, Pending, Pends, Threads
  <2>3. \A l \in LinksOf(b) : ~LastSays(net[l], a, p)
    BY NothingSaid DEF AtRest
  <2> QED BY <2>1, <2>2, <2>3 DEF Informed, Believes
<1> QED BY InitSound, NextSound, InitNotices, NextNotices, <1>1, PTL DEF Spec

\* At rest a process has a socket for no inner server that has gone, but for
\* those it may be wrong about (ProcessAbort, StageClient::AbortServerSocket).
THEOREM Forgetting == Spec => []ForgetsOffline
<1>1. Sound /\ Notices => ForgetsOffline
  <2> SUFFICES ASSUME Sound, Notices, NEW b \in Watched, AtRest(b),
                      NEW a \in known[b], a \notin doubt[b]
               PROVE  a \in Servers /\ Online(a)
    BY DEF ForgetsOffline
  <2>1. a \in Servers
    BY ServerAssumption DEF Sound, TypeOK
  <2>2. PICK p \in BOOLEAN : Informed(b, a, p)
    BY <2>1 DEF Notices
  <2>3. ~Withdrawing(b, a)
    BY DEF AtRest, At, Withdrawing, Withdraws
  <2>4. \A l \in LinksOf(b) : ~LastSays(net[l], a, p)
    BY NothingSaid DEF AtRest
  <2> QED BY <2>1, <2>2, <2>3, <2>4 DEF Informed, Believes
<1> QED BY InitSound, NextSound, InitNotices, NextNotices, <1>1, PTL DEF Spec
=============================================================================
