---------------------------- MODULE PositionList ----------------------------
(***************************************************************************)
(* The list of src/collections/linkedlist_fix.h, whose nodes lie in one    *)
(* block of memory, behind the list, and are linked by their positions     *)
(* 1, 2, ...; 0 is no node.                                                *)
(*                                                                         *)
(* The block may be shared memory that outlives a process, which may be    *)
(* killed between any two writes.  So a method is the sequence of writes   *)
(* it makes, in the order of the program, and takes the memory it finds as *)
(* its first argument; After is the memory they leave.                     *)
(* Find is left out: it takes a position for a pointer and does not compile *)
(* once it is used.                                                        *)
(***************************************************************************)
EXTENDS Integers, Sequences, FiniteSets

S == INSTANCE SequencesExt

CONSTANT
  Capacity                            \* the number of nodes

Positions == 1 .. Capacity

\* A write of a field of the list, and one of a field of a node.
Put(field, v) == [field |-> field, at |-> 0, to |-> v]
Set(field, n, v) == [field |-> field, at |-> n, to |-> v]

Write(m, w) ==
  IF w.at = 0 THEN [m EXCEPT ![w.field] = w.to]
  ELSE [m EXCEPT ![w.field][w.at] = w.to]

\* The memory after the first k writes.
AfterSome(m, writes, k) ==
  LET a[j \in 0 .. k] == IF j = 0 THEN m ELSE Write(a[j - 1], writes[j])
  IN  a[k]

After(m, writes) == AfterSome(m, writes, Len(writes))

\* The writes, if the condition holds.
When(condition, writes) == IF condition THEN writes ELSE <<>>

\* The node at a position: none outside of the list's capacity, where that is
\* known.
GetNode(m, p) ==
  IF p > 0 /\ ~(m.capacity > 0 /\ p > m.capacity) THEN p ELSE 0

IsEmpty(m) == m.first = 0 \/ m.last = 0

\* node->Next = 0; node->Previous = 0
Detach(n) == <<Set("next", n, 0), Set("prev", n, 0)>>

ClearList == <<Put("last", 0), Put("first", 0), Put("count", 0)>>

Initialize(capacity) == <<Put("capacity", capacity)>> \o ClearList

AddFirst(m, n) ==
  Detach(n)
    \o When(IsEmpty(m), <<Put("last", n), Put("first", n), Put("count", 0)>>)
    \o When(~IsEmpty(m), <<Set("next", n, m.first), Set("prev", m.first, n),
                           Put("first", n)>>)
    \o <<Put("count", IF IsEmpty(m) THEN 1 ELSE m.count + 1)>>

AddAfter(m, node, n) ==
  LET current == GetNode(m, m.next[node])
  IN  Detach(n)
        \o <<Set("next", node, n)>>
        \o When(current # 0, <<Set("prev", current, n)>>)
        \o <<Set("prev", n, node), Set("next", n, current)>>
        \o When(node = m.last, <<Put("last", n)>>)
        \o <<Put("count", m.count + 1)>>

AddLast(m, n) ==
  IF IsEmpty(m)
  THEN Detach(n) \o <<Put("first", n), Put("last", n), Put("count", 0),
                      Put("count", 1)>>
  ELSE AddAfter(m, GetNode(m, m.last), n)

\* A mutant: the node before does not learn of the new one.
AddBeforeHalf(m, node, n) ==
  LET current == GetNode(m, m.prev[node])
  IN  IF current = 0 THEN AddFirst(m, n)
      ELSE Detach(n)
             \o <<Set("prev", node, n), Set("next", n, node),
                  Set("prev", n, current), Put("count", m.count + 1)>>

AddBefore(m, node, n) ==
  LET current == GetNode(m, m.prev[node])
  IN  IF current = 0 THEN AddFirst(m, n)
      ELSE Detach(n)
             \o <<Set("next", current, n), Set("prev", node, n),
                  Set("next", n, node), Set("prev", n, current)>>
             \o When(node = m.first, <<Put("first", n)>>)
             \o <<Put("count", m.count + 1)>>

\* One node fewer, and no node at all if none is left.
Uncount(m) ==
  <<Put("count", m.count - 1)>> \o When(m.count <= 1,
    <<Put("count", 0), Put("first", 0), Put("last", 0)>>)

RemoveFirst(m) ==
  LET first == GetNode(m, m.first)
      current == GetNode(m, m.next[first])
  IN  IF first = 0 THEN <<>>
      ELSE <<Set("prev", first, 0), Set("next", first, 0)>>
             \o When(current # 0, <<Set("prev", current, 0)>>)
             \o Uncount(m)
             \o <<Put("first", IF m.count <= 1 THEN 0 ELSE current)>>

RemoveLast(m) ==
  LET last == GetNode(m, m.last)
      current == GetNode(m, m.prev[last])
  IN  IF last = 0 THEN <<>>
      ELSE <<Set("prev", last, 0), Set("next", last, 0)>>
             \o When(current # 0, <<Set("next", current, 0)>>)
             \o Uncount(m)
             \o <<Put("last", IF m.count <= 1 THEN 0 ELSE current)>>

\* A node that is neither first nor last has two neighbours: of one that is
\* not in the list, the code would dereference NULL.
Remove(m, n) ==
  CASE n = m.first -> RemoveFirst(m)
    [] n # m.first /\ n = m.last -> RemoveLast(m)
    [] OTHER ->
         <<Set("next", m.prev[n], m.next[n]), Set("prev", m.next[n], m.prev[n])>>
           \o Uncount(m) \o Detach(n)

\* The first k nodes from a position on, as long as there is a next.
From(m, p, k) ==
  LET w[j \in 0 .. k] ==
        IF j = 0 THEN <<>>
        ELSE LET s == w[j - 1]
                 n == IF s = <<>> THEN p ELSE GetNode(m, m.next[s[Len(s)]])
             IN  IF Len(s) < j - 1 \/ n = 0 THEN s ELSE Append(s, n)
  IN  w[k]

Forward(m) == From(m, m.first, Capacity + 1)

\* The list is exactly the nodes of s, in that order, read from either end.
Represents(m, s) ==
  /\ Forward(m) = s
  /\ m.count = Len(s)
  /\ m.first = IF s = <<>> THEN 0 ELSE s[1]
  /\ m.last = IF s = <<>> THEN 0 ELSE s[Len(s)]
  /\ \A i \in DOMAIN s : m.prev[s[i]] = IF i = 1 THEN 0 ELSE s[i - 1]
===============================================================================
