----------------------------- MODULE LinkedList -----------------------------
(***************************************************************************)
(* The intrusive list of src/stage/core/LinkedList.h: a node lies in the   *)
(* object it lists and is linked by hand.  A list is a record of the three *)
(* fields of LinkedList<T> and the three links of every node there is;     *)
(* owner tells whether LinkedList_ points to the list.                     *)
(*                                                                         *)
(* The operators do what the methods do to the links, whether or not the   *)
(* node is in the list: keeping to lists they are right for is the         *)
(* caller's part.  AddBefore is left out: it copies a node where it means  *)
(* a pointer and does not compile once it is used.                         *)
(***************************************************************************)
EXTENDS Integers, Sequences

CONSTANT NULL

NodesOf(l) == DOMAIN l.next

EmptyList(Nodes) ==
  [first |-> NULL, last |-> NULL, count |-> 0,
   next |-> [n \in Nodes |-> NULL], prev |-> [n \in Nodes |-> NULL],
   owner |-> [n \in Nodes |-> FALSE]]

\* f with the value of n replaced, where n is a node.
With(f, n, v) == [m \in DOMAIN f |-> IF m = n THEN v ELSE f[m]]

\* node->LinkedList_ = NULL; node->Next = NULL; node->Previous = NULL
Unlinked(l, n) ==
  [first |-> l.first, last |-> l.last, count |-> l.count,
   next |-> With(l.next, n, NULL), prev |-> With(l.prev, n, NULL),
   owner |-> With(l.owner, n, FALSE)]

\* The first node of an empty list.
OnlyNode(l, n) ==
  [first |-> n, last |-> n, count |-> 1,
   next |-> With(l.next, n, NULL), prev |-> With(l.prev, n, NULL),
   owner |-> With(l.owner, n, TRUE)]

AddFirst(l, n) ==
  IF l.last = NULL THEN OnlyNode(l, n)
  ELSE [first |-> n, last |-> l.last, count |-> l.count + 1,
        next |-> With(l.next, n, l.first),
        prev |-> With(With(l.prev, n, NULL), l.first, n),
        owner |-> With(l.owner, n, TRUE)]

\* A mutant: the last node stays the last.
AddAfterLast(l, node, n) ==
  LET current == Unlinked(l, n).next[node]
  IN  [first |-> l.first, last |-> l.last, count |-> l.count + 1,
       next |-> With(With(l.next, node, n), n, current),
       prev |-> With(With(l.prev, current, n), n, node),
       owner |-> With(l.owner, n, TRUE)]

AddAfter(l, node, n) ==
  LET current == Unlinked(l, n).next[node]
  IN  [first |-> l.first, last |-> IF node = l.last THEN n ELSE l.last,
       count |-> l.count + 1,
       next |-> With(With(l.next, node, n), n, current),
       prev |-> With(With(l.prev, current, n), n, node),
       owner |-> With(l.owner, n, TRUE)]

AddLast(l, n) ==
  IF l.last = NULL THEN OnlyNode(l, n) ELSE AddAfter(l, l.last, n)

RemoveFirst(l) ==
  IF l.first = NULL THEN l
  ELSE LET current == l.next[l.first]
           u == Unlinked(l, l.first)
           gone == l.count - 1 <= 0
       IN  [first |-> IF gone THEN NULL ELSE current,
            last |-> IF gone THEN NULL ELSE l.last,
            count |-> IF gone THEN 0 ELSE l.count - 1,
            next |-> u.next, prev |-> With(u.prev, current, NULL),
            owner |-> u.owner]

RemoveLast(l) ==
  IF l.last = NULL THEN l
  ELSE LET current == l.prev[l.last]
           u == Unlinked(l, l.last)
           gone == l.count - 1 <= 0
       IN  [first |-> IF gone THEN NULL ELSE l.first,
            last |-> IF gone THEN NULL ELSE current,
            count |-> IF gone THEN 0 ELSE l.count - 1,
            next |-> With(u.next, current, NULL), prev |-> u.prev,
            owner |-> u.owner]

\* Neither first nor last, a node is taken to have two neighbours: of one that
\* has not, NULL is dereferenced.
RemoveFaults(l, n) ==
  n # l.first /\ n # l.last /\ (l.prev[n] = NULL \/ l.next[n] = NULL)

\* A mutant: the node before still leads to the one that is gone.
RemoveInnerHalf(l, n) ==
  [first |-> l.first, last |-> l.last, count |-> l.count - 1,
   next |-> With(l.next, n, NULL),
   prev |-> With(With(l.prev, l.next[n], l.prev[n]), n, NULL),
   owner |-> With(l.owner, n, FALSE)]

RemoveInner(l, n) ==
  LET gone == l.count - 1 <= 0
  IN  [first |-> IF gone THEN NULL ELSE l.first,
       last |-> IF gone THEN NULL ELSE l.last,
       count |-> IF gone THEN 0 ELSE l.count - 1,
       next |-> With(With(l.next, l.prev[n], l.next[n]), n, NULL),
       prev |-> With(With(l.prev, l.next[n], l.prev[n]), n, NULL),
       owner |-> With(l.owner, n, FALSE)]

Remove(l, n) ==
  CASE n = l.first -> RemoveFirst(l)
    [] n # l.first /\ n = l.last -> RemoveLast(l)
    [] OTHER -> RemoveInner(l, n)

\* The first k nodes from m_first on, as long as Next leads to one.
Steps(l, k) ==
  LET w[j \in 0 .. k] ==
        IF j = 0 THEN <<>>
        ELSE LET s == w[j - 1]
                 n == IF s = <<>> THEN l.first ELSE l.next[s[Len(s)]]
             IN  IF Len(s) < j - 1 \/ n = NULL THEN s ELSE Append(s, n)
  IN  w[k]

\* The nodes from m_first on, in order.
Walk(l) == Steps(l, l.count)

\* Clear(false) forgets the nodes, Clear(true) unlinks them too.
Clear(l, thorough) ==
  LET nodes == IF thorough THEN {Walk(l)[i] : i \in DOMAIN Walk(l)} ELSE {}
  IN  [first |-> NULL, last |-> NULL, count |-> 0,
       next |-> [n \in NodesOf(l) |-> IF n \in nodes THEN NULL ELSE l.next[n]],
       prev |-> [n \in NodesOf(l) |-> IF n \in nodes THEN NULL ELSE l.prev[n]],
       owner |-> [n \in NodesOf(l) |-> n \notin nodes /\ l.owner[n]]]
================================================================================
