-------------------------------- MODULE Lists --------------------------------
(***************************************************************************)
(* The lists of src/collections under callers of their own: the pointer    *)
(* list of linkedlist.h and the position list of linkedlist_fix.h go       *)
(* through the same calls on the same nodes, and order is what they are to *)
(* hold.  Callers keep to nodes the calls are right for.  AddBefore of the *)
(* pointer list copies a node where it means a pointer and does not        *)
(* compile; the pointer list makes the same change by AddAfter.            *)
(***************************************************************************)
EXTENDS PositionList

CONSTANT NULL

VARIABLES pointers, positions, order

listVars == <<pointers, positions, order>>

P == INSTANCE LinkedList

ListsInit ==
  /\ pointers = P!EmptyList(Positions)
  /\ positions = After([first |-> 0, last |-> 0, count |-> 0, capacity |-> 0,
                        next |-> [n \in Positions |-> 0],
                        prev |-> [n \in Positions |-> 0]], Initialize(Capacity))
  /\ order = <<>>

Unlisted == Positions \ S!ToSet(order)

Becomes(pointerList, writes, s) ==
  /\ pointers' = pointerList /\ positions' = After(positions, writes) /\ order' = s

PutFirst(n) == Becomes(P!AddFirst(pointers, n), AddFirst(positions, n), <<n>> \o order)

PutLast(n) == Becomes(P!AddLast(pointers, n), AddLast(positions, n), Append(order, n))

PutAfter(i, n) ==
  Becomes(P!AddAfter(pointers, order[i], n), AddAfter(positions, order[i], n),
          S!InsertAt(order, i + 1, n))

PutBefore(i, n) ==
  Becomes(IF i = 1 THEN P!AddFirst(pointers, n)
          ELSE P!AddAfter(pointers, order[i - 1], n),
          AddBefore(positions, order[i], n), S!InsertAt(order, i, n))

TakeFirst == Becomes(P!RemoveFirst(pointers), RemoveFirst(positions), Tail(order))

TakeLast == Becomes(P!RemoveLast(pointers), RemoveLast(positions), S!Front(order))

TakeNode(i) ==
  Becomes(P!Remove(pointers, order[i]), Remove(positions, order[i]),
          S!RemoveAt(order, i))

\* The pointer list unlinks its nodes, the position list forgets them.
ClearLists == Becomes(P!Clear(pointers, TRUE), ClearList, <<>>)

ListsNext ==
  \/ \E n \in Unlisted :
       \/ PutFirst(n) \/ PutLast(n)
       \/ \E i \in DOMAIN order : PutAfter(i, n) \/ PutBefore(i, n)
  \/ /\ order # <<>>
     /\ \/ TakeFirst \/ TakeLast \/ ClearLists
        \/ \E i \in DOMAIN order : TakeNode(i)

\* Both lists hold exactly the nodes that were put in and not yet taken out, in
\* order, linked and counted the same from either end, and a node of the
\* pointer list knows whether it is in it.
ListsExact ==
  /\ Represents(positions, order)
  /\ P!Steps(pointers, Capacity + 1) = order
  /\ pointers.count = Len(order)
  /\ pointers.last = IF order = <<>> THEN NULL ELSE order[Len(order)]
  /\ \A n \in Positions : pointers.owner[n] = (n \in S!ToSet(order))
  /\ \A i \in DOMAIN order :
       pointers.prev[order[i]] = IF i = 1 THEN NULL ELSE order[i - 1]
=============================================================================
