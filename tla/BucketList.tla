----------------------------- MODULE BucketList -----------------------------
(***************************************************************************)
(* The bucket of src/collections/bucketlist.h: the same queue and stack,   *)
(* over the pointer list of src/collections/linkedlist.h, in one block of  *)
(* memory that processes map at addresses of their own.  All pointers in   *)
(* it are absolute; what is needed to mend them, the first node and the    *)
(* top of the stack of free nodes, is kept relative to the block as well.  *)
(*                                                                         *)
(* A pointer is a number: the address of the block and the offset in it.   *)
(* At offset 1 is the header of the list, behind it the nodes, then the    *)
(* stack of pointers to free nodes; what lies above its top is never read  *)
(* and is NULL here.  An address that is not mapped cannot be read: inside *)
(* TRUE says that the code has not tried.                                  *)
(***************************************************************************)
EXTENDS LinkedList, FiniteSets

CONSTANTS
  Capacity,                           \* the number of nodes
  Values,                             \* what callers put in
  Addresses                           \* where the block may be mapped

VARIABLES
  base,                               \* where the block is mapped now
  attached,                           \* whether it was attached there
  bucket,                             \* the fields of the block
  list,                               \* the pointer list
  value,                              \* the values, by node
  stack,                              \* the pointers to free nodes, by address
  held,                               \* what the bucket is to hold, in order
  inside

bucketListVars == <<base, attached, bucket, list, value, stack, held, inside>>

HeaderAt(a) == a + 1
NodesAt(a) == a + 2
FreesAt(a) == a + 2 + Capacity
NodeSet(a) == NodesAt(a) .. NodesAt(a) + Capacity - 1
FreeSet(a) == FreesAt(a) .. FreesAt(a) + Capacity - 1

VA2RVA(b, va) == IF va = NULL THEN NULL ELSE va - b.self
RVA2VA(b, rva) == IF rva = NULL THEN NULL ELSE rva + b.self

\* The constructor, on a fresh block; a base of 0 stands for no block at all.
New(a) ==
  /\ bucket = [self |-> a, header |-> HeaderAt(a), nodes |-> NodesAt(a),
               frees |-> FreesAt(a), top |-> FreesAt(a), count |-> 0,
               rva |-> [header |-> 1, first |-> NULL, top |-> NULL],
               disposed |-> FALSE]
  /\ list = EmptyList(NodeSet(a))
  /\ value = [n \in NodeSet(a) |-> NULL]
  /\ stack = [f \in FreeSet(a) |-> NULL]

BucketListInit ==
  /\ base \in Addresses /\ New(base)
  /\ attached = TRUE /\ held = <<>> /\ inside = TRUE

\* The relative pointers follow the absolute ones.
Update(b, l) ==
  [b EXCEPT !.rva = [@ EXCEPT !.first = VA2RVA(b, l.first),
                              !.top = VA2RVA(b, b.top)]]

Ready == attached /\ ~bucket.disposed

\* A list operation must not leave the block.
Within(nodes) == nodes \subseteq NodeSet(base) \cup {NULL}

NodeFor ==
  IF bucket.top <= bucket.frees THEN bucket.nodes + bucket.count
  ELSE stack[bucket.top - 1]

Enqueue(v) ==
  /\ Ready /\ bucket.count < Capacity
  /\ list' = AddLast(list, NodeFor)
  /\ value' = [value EXCEPT ![NodeFor] = v]
  /\ bucket' =
       Update([bucket EXCEPT !.top = IF @ <= bucket.frees THEN @ ELSE @ - 1,
                             !.count = @ + 1], list')
  /\ stack' = IF bucket.top <= bucket.frees THEN stack
              ELSE With(stack, bucket.top - 1, NULL)
  /\ held' = Append(held, v)
  /\ inside' = (inside /\ Within({NodeFor, list.last}))
  /\ UNCHANGED <<base, attached>>

PopOrDequeue(stack_mode) ==
  LET node == IF stack_mode THEN list.last ELSE list.first
  IN  /\ Ready /\ bucket.count > 0 /\ node # NULL
      /\ list' = Remove(list, node)
      /\ stack' = [stack EXCEPT ![bucket.top] = node]
      /\ bucket' = Update([bucket EXCEPT !.top = @ + 1, !.count = @ - 1], list')
      /\ held' = IF stack_mode THEN SubSeq(held, 1, Len(held) - 1) ELSE Tail(held)
      /\ inside' = (inside /\ Within({node, list.next[node], list.prev[node]})
                           /\ bucket.top \in FreeSet(base))
      /\ UNCHANGED <<base, attached, value>>

Dequeue == PopOrDequeue(FALSE)
Pop == PopOrDequeue(TRUE)

\* memset on the header of the list alone: neither the nodes' links nor what is
\* kept relative to the block.
Forgotten(l) == [l EXCEPT !.first = NULL, !.last = NULL, !.count = 0]

ClearBucket ==
  /\ Ready
  /\ list' = Forgotten(list)
  /\ bucket' = [bucket EXCEPT !.count = 0, !.top = bucket.frees]
  /\ stack' = [f \in DOMAIN stack |-> NULL]
  /\ held' = <<>>
  /\ UNCHANGED <<base, attached, value, inside>>

\* memset on the fields of the block.
Dispose ==
  /\ Ready
  /\ bucket' = [self |-> NULL, header |-> NULL, nodes |-> NULL, frees |-> NULL,
                top |-> NULL, count |-> 0,
                rva |-> [header |-> NULL, first |-> NULL, top |-> NULL],
                disposed |-> TRUE]
  /\ held' = <<>>
  /\ UNCHANGED <<base, attached, list, value, stack, inside>>

(***************************************************************************)
(* Another process maps the block at another address: every byte is as it  *)
(* was, every absolute pointer leads to where the block was before.        *)
(***************************************************************************)

Moved(f, from, to) == [x \in {y - base + to : y \in from} |-> f[x - to + base]]

Map(a) ==
  /\ attached
  /\ base' = a /\ attached' = FALSE
  /\ list' = [list EXCEPT
       !.next = Moved(@, NodeSet(base), a), !.prev = Moved(@, NodeSet(base), a),
       !.owner = Moved([n \in NodeSet(base) |-> @[n] /\ a = base], NodeSet(base), a)]
  /\ value' = Moved(value, NodeSet(base), a)
  /\ stack' = Moved(stack, FreeSet(base), a)
  /\ UNCHANGED <<bucket, held, inside>>

\* A mutant: only the pointers of the list are mended.
MendedNot(b, before, p) == p

\* What a pointer from the time before leads to now.
Mended(b, before, p) == IF p = NULL THEN NULL ELSE RVA2VA(b, p - before)

\* Outside of the block there is nothing to follow.
NextOf(l, n) == IF n \in NodesOf(l) THEN l.next[n] ELSE NULL

\* The node each turn of the loop is at, from the first on.
Chain(b, l, before) ==
  LET c[i \in 0 .. b.count] ==
        IF i = 0 THEN RVA2VA(b, b.rva.first)
        ELSE IF c[i - 1] = NULL THEN NULL
        ELSE Mended(b, before, NextOf(l, c[i - 1]))
  IN  SelectSeq([i \in 1 .. b.count |-> c[i - 1]], LAMBDA n : n # NULL)

\* Every node is put at the end of a list that begins empty.
Relinked(l, nodes) ==
  LET r[i \in 0 .. Len(nodes)] ==
        IF i = 0 THEN Forgotten(l) ELSE AddLast(r[i - 1], nodes[i])
  IN  r[Len(nodes)]

AttachEmpty(b) ==
  /\ list' = Forgotten(list)
  /\ bucket' = Update([b EXCEPT !.count = 0, !.nodes = NodesAt(base),
                         !.frees = FreesAt(base), !.top = FreesAt(base)], list')
  /\ stack' = [f \in DOMAIN stack |-> NULL]
  /\ UNCHANGED inside

AttachHeld(b, before) ==
  LET top == IF FreesAt(base) > RVA2VA(b, b.rva.top) THEN FreesAt(base)
             ELSE RVA2VA(b, b.rva.top)
      nodes == Chain(b, list, before)
  IN  /\ list' = Relinked(list, nodes)
      /\ bucket' = [b EXCEPT !.nodes = NodesAt(base), !.frees = FreesAt(base),
                             !.top = top]
      /\ stack' = [f \in DOMAIN stack |->
                     IF f < top THEN Mended(b, before, stack[f]) ELSE stack[f]]
      /\ inside' = (inside /\ Within({nodes[i] : i \in DOMAIN nodes})
                           /\ top - 1 <= FreesAt(base) + Capacity - 1)

Attach ==
  /\ ~attached /\ attached' = TRUE
  /\ IF bucket.disposed THEN UNCHANGED <<bucket, list, stack, inside>>
     ELSE LET b == [bucket EXCEPT !.self = base, !.header = bucket.rva.header + base]
          IN  IF b.count <= 0 THEN AttachEmpty(b) ELSE AttachHeld(b, bucket.self)
  /\ UNCHANGED <<base, value, held>>

BucketListNext ==
  \/ \E v \in Values : Enqueue(v)
  \/ Dequeue
  \/ Pop
  \/ ClearBucket
  \/ Dispose
  \/ \E a \in Addresses : Map(a)
  \/ Attach

(***************************************************************************)
(* Properties.                                                             *)
(***************************************************************************)

FreeNodes == {stack[f] : f \in FreesAt(base) .. bucket.top - 1}

\* Whenever the block is attached, and wherever it was mapped before, all of
\* its pointers lead into it, the list is linked both ways and yields what was
\* put in and not yet taken out, in order, and every node is listed, waits in
\* the stack or was never used; and no address outside of it was followed.
PointersExact ==
  /\ inside
  /\ Ready =>
       LET s == Steps(list, Capacity + 1)
           k == Len(held)
           free == bucket.top - FreesAt(base)
       IN  /\ bucket.self = base /\ bucket.header = HeaderAt(base)
           /\ bucket.nodes = NodesAt(base) /\ bucket.frees = FreesAt(base)
           /\ k = Len(s) /\ bucket.count = k /\ list.count = k
           /\ \A i \in 1 .. k :
                /\ value[s[i]] = held[i] /\ list.owner[s[i]]
                /\ list.prev[s[i]] = IF i = 1 THEN NULL ELSE s[i - 1]
           /\ list.last = IF k = 0 THEN NULL ELSE s[k]
           /\ Cardinality(FreeNodes) = free
           /\ FreeNodes \cap {s[i] : i \in 1 .. k} = {}
           /\ FreeNodes \cup {s[i] : i \in 1 .. k} =
                NodesAt(base) .. NodesAt(base) + k + free - 1
=============================================================================
