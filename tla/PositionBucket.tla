--------------------------- MODULE PositionBucket ---------------------------
(***************************************************************************)
(* The bucket of src/collections/bucketlist_fix.h: a queue and stack of at *)
(* most Capacity values in one block of memory, in the nodes of a          *)
(* PositionList.  Nodes that were used and are not listed wait in a stack; *)
(* a node that was never used is taken only when that stack is empty, and  *)
(* is then the one behind the m_count first.                               *)
(*                                                                         *)
(* The process that uses the block may be killed after any write; the next *)
(* one calls Attach, which rebuilds the list from what it finds.  Attach   *)
(* in its fast mode rebuilds nothing and forgets the waiting nodes: an     *)
(* Enqueue that follows may take a node that is still listed, and what     *)
(* becomes of the block then is not followed (lost).                       *)
(***************************************************************************)
EXTENDS PositionList

CONSTANTS
  Values,                             \* what callers put in
  Default                             \* TValue(), what a fresh vector holds

VARIABLES
  memory,                             \* the block
  phase,                              \* "idle", "killed" or "lost"
  call,                               \* the method that was killed
  items                               \* what the bucket is to hold, in order

bucketVars == <<memory, phase, call, items>>

Blank == [first |-> 0, last |-> 0, count |-> 0, capacity |-> 0,
          next |-> [n \in Positions |-> 0], prev |-> [n \in Positions |-> 0],
          value |-> [n \in Positions |-> Default],
          held |-> 0, frees |-> <<>>]

InitializeBucket ==
  <<Put("held", 0)>> \o Initialize(Capacity) \o <<Put("frees", <<>>)>>

NoCall == [op |-> "none", had |-> <<>>]

BucketInit ==
  /\ memory = After(Blank, InitializeBucket)
  /\ phase = "idle" /\ call = NoCall /\ items = <<>>

(***************************************************************************)
(* The methods.                                                            *)
(***************************************************************************)

\* A mutant: the node that was given back first, whoever has it now.
NodeForBottom(m) ==
  IF m.frees = <<>> THEN m.held + 1 ELSE GetNode(m, m.frees[1])

\* Behind the listed nodes, or the node that was given back last.
NodeFor(m) ==
  IF m.frees = <<>> THEN m.held + 1 ELSE GetNode(m, S!Last(m.frees))

Enqueue(m, v) ==
  LET node == NodeFor(m)
  IN  When(m.held < Capacity,
        When(m.frees # <<>>, <<Put("frees", S!Front(m.frees))>>)
          \o <<Set("value", node, v)>> \o AddLast(m, node)
          \o <<Put("held", m.held + 1)>>)

PopOrDequeue(m, stack_mode) ==
  LET node == GetNode(m, IF stack_mode THEN m.last ELSE m.first)
  IN  When(m.held > 0 /\ node # 0,
        Remove(m, node)
          \o <<Put("frees", Append(m.frees, node)), Put("held", m.held - 1)>>)

\* memset, which runs through the fields in their order.
ClearBucket ==
  <<Put("first", 0), Put("last", 0), Put("count", 0), Put("capacity", 0),
    Put("held", 0), Put("frees", <<>>)>>

\* What the list yields when it is read from its beginning.
CopyTo(m) == LET s == From(m, m.first, m.held)
             IN  [i \in DOMAIN s |-> m.value[s[i]]]

\* A mutant: the bucket's own counter decides alone.
SavedAll(m) ==
  LET s == From(m, GetNode(m, m.first), m.held)
  IN  [i \in 1 .. m.held |-> IF i <= Len(s) THEN m.value[s[i]] ELSE Default]

\* What a new process takes over: no more than both counters admit; a value
\* the links do not lead to is replaced by a default.
Saved(m) ==
  LET maxcount == IF m.held > m.count THEN m.count ELSE m.held
      s == From(m, GetNode(m, m.first), maxcount)
  IN  [i \in 1 .. maxcount |-> IF i <= Len(s) THEN m.value[s[i]] ELSE Default]

Refill(m, emptied, values) ==
  LET r[i \in 0 .. Len(values)] ==
        IF i = 0 THEN emptied
        ELSE LET writes == r[i - 1]
             IN  writes \o Enqueue(After(m, writes), values[i])
  IN  r[Len(values)]

Attach(m) ==
  Refill(m, <<Put("frees", <<>>), Put("held", 0)>> \o ClearList, Saved(m))

(***************************************************************************)
(* The process.  No one else looks at the block, so a method is one step:  *)
(* it makes all of its writes, or the first k and is killed.               *)
(***************************************************************************)

Run(op, writes, result) ==
  /\ writes # <<>>
  /\ items' = result
  /\ \/ memory' = After(memory, writes) /\ phase' = "idle" /\ call' = NoCall
     \/ \E k \in 0 .. Len(writes) - 1 :
          /\ memory' = AfterSome(memory, writes, k)
          /\ phase' = "killed" /\ call' = op

\* call keeps what was there before, for the one who attaches after a kill.
Call(name, writes, result) ==
  phase = "idle" /\ Run([op |-> name, had |-> items], writes, result)

CallEnqueue(v) == Call("Enqueue", Enqueue(memory, v), Append(items, v))

CallDequeue ==
  items # <<>> /\ Call("Dequeue", PopOrDequeue(memory, FALSE), Tail(items))

CallPop ==
  items # <<>> /\ Call("Pop", PopOrDequeue(memory, TRUE), S!Front(items))

CallClear == Call("Clear", ClearBucket, <<>>)

\* A slow Attach, by the same process or after a kill.
CallAttach ==
  /\ phase \in {"idle", "killed"}
  /\ Run([op |-> "Attach", had |-> Saved(memory)], Attach(memory), Saved(memory))

\* A fast one, of a block in order.
CallAttachFast ==
  /\ phase = "idle"
  /\ memory' = [memory EXCEPT !.frees = <<>>]
  /\ phase' = IF memory.frees # <<>> THEN "lost" ELSE "idle"
  /\ UNCHANGED <<call, items>>

BucketNext ==
  \/ \E v \in Values : CallEnqueue(v)
  \/ CallDequeue
  \/ CallPop
  \/ CallClear
  \/ CallAttach
  \/ CallAttachFast

(***************************************************************************)
(* Properties.                                                             *)
(***************************************************************************)

Unused(m) == S!ToSet(m.frees)

\* Between two calls the nodes are linked both ways and hold what was put in
\* and not yet taken out, in order, all of which Attach would keep, and a node is listed, waits in the stack
\* or was never used, and only one of the three: whatever calls were made, and
\* wherever a process was killed before the block was attached.
PositionsExact ==
  phase = "idle" =>
    LET s == Forward(memory)
    IN  /\ Represents(memory, s)
        /\ CopyTo(memory) = items /\ Saved(memory) = items
        /\ memory.held = Len(items)
        /\ Cardinality(Unused(memory)) = Len(memory.frees)
        /\ S!ToSet(s) \cap Unused(memory) = {}
        /\ S!ToSet(s) \cup Unused(memory) = 1 .. Len(items) + Len(memory.frees)

\* What may be left of the values had when a method is killed.  Putting one in
\* loses nothing; taking the first one out cuts the list behind it before it
\* counts or moves on; clearing forgets where the list begins before it forgets
\* how long it is.
MayRemain(op, had) ==
  LET defaults(k) == [i \in 1 .. k |-> Default]
  IN  CASE op = "Enqueue" -> {had}
        [] op = "Dequeue" ->
             {had, Tail(had), <<had[1]>> \o defaults(Len(had) - 1)}
               \cup IF Len(had) > 1 THEN {<<had[1]>> \o defaults(Len(had) - 2)}
                    ELSE {}
        [] op = "Pop" -> {had, S!Front(had), S!Front(had) \o <<Default>>}
        [] op = "Clear" -> {had, <<>>, defaults(Len(had))}
        [] op = "Attach" -> {SubSeq(had, 1, k) : k \in 0 .. Len(had)}

\* What a process takes over from one that was killed in a method is no less
\* than MayRemain says.
AttachKeeps == phase = "killed" => items' \in MayRemain(call.op, call.had)
=============================================================================
