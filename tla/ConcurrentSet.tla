--------------------------- MODULE ConcurrentSet ---------------------------
(***************************************************************************)
(* The set of src/collections/ConcurrentSet.h, which may be changed while  *)
(* it is gone through.  A value has a node, allocated when it is inserted  *)
(* and freed when it is removed; the list holds the nodes in the order of  *)
(* insertion, the table finds them by value, and the set of available      *)
(* nodes tells an enumerator whether the node it stands on still is one.   *)
(*                                                                         *)
(* An address that was freed may be allocated again.  used is the history  *)
(* of the enumerators' accesses: the addresses they read that were not     *)
(* allocated.  The enumerations' history is kept by tour: the values that  *)
(* were there from the start on and have not been removed, how often each  *)
(* of them was yielded, and whether no value the enumerator stood on was   *)
(* removed.                                                                *)
(* erase(iterator) is left out: it does not compile once it is used.       *)
(***************************************************************************)
EXTENDS LinkedList, FiniteSets

CONSTANTS
  Values, Nodes,                      \* addresses malloc may return
  Walkers                             \* the enumerators

VARIABLES
  list, value, table, available, heap,
  cursor,                             \* m_pCurrentEntry and m_bRst
  used, tour

setVars == <<list, value, table, available, heap, cursor, used, tour>>

Unseen == [v \in Values |-> 0]

NoTour == [staying |-> {}, seen |-> Unseen, sound |-> FALSE, over |-> FALSE]

SetInit ==
  /\ list = EmptyList(Nodes) /\ value = [n \in Nodes |-> NULL]
  /\ table = <<>> /\ available = {} /\ heap = {}
  /\ cursor = [w \in Walkers |-> [entry |-> NULL, rst |-> TRUE]]
  /\ used = {} /\ tour = [w \in Walkers |-> NoTour]

(***************************************************************************)
(* The set.                                                                *)
(***************************************************************************)

AllocEntry(n) == n \notin heap /\ heap' = heap \cup {n}

Insert(v) ==
  /\ v \notin DOMAIN table
  /\ \E n \in Nodes :
       /\ AllocEntry(n)
       /\ value' = [value EXCEPT ![n] = v]
       /\ table' = [x \in DOMAIN table \cup {v} |-> IF x = v THEN n ELSE table[x]]
       /\ list' = AddLast(list, n)
       /\ available' = available \cup {n}
  /\ UNCHANGED <<cursor, used, tour>>

\* The enumerators are not told; the tours are history.
Forsaken(n, v) ==
  [w \in Walkers |->
     [tour[w] EXCEPT !.staying = @ \ {v}, !.seen[v] = 0,
                     !.sound = @ /\ cursor[w].entry # n]]

DeleteEntry(n) == heap' = heap \ {n} /\ value' = [value EXCEPT ![n] = NULL]

RemoveValue(v) ==
  /\ v \in DOMAIN table
  /\ LET n == table[v]
     IN  /\ list' = Remove(list, n)
         /\ available' = available \ {n}
         /\ table' = [x \in DOMAIN table \ {v} |-> table[x]]
         /\ DeleteEntry(n)
         /\ tour' = Forsaken(n, v)
  /\ UNCHANGED <<cursor, used>>

\* Every listed node is freed; of the list the header alone is reset, the rest
\* is freed memory.
ClearSet ==
  /\ table # <<>>
  /\ heap' = heap \ {Walk(list)[i] : i \in DOMAIN Walk(list)}
  /\ list' = EmptyList(Nodes) /\ value' = [n \in Nodes |-> NULL]
  /\ table' = <<>> /\ available' = {}
  /\ tour' = [w \in Walkers |->
                [tour[w] EXCEPT !.staying = {}, !.seen = Unseen,
                                !.sound = @ /\ cursor[w].entry = NULL]]
  /\ UNCHANGED <<cursor, used>>

(***************************************************************************)
(* The enumerators.                                                        *)
(***************************************************************************)

GetFirst == IF list.count <= 0 THEN NULL ELSE list.first
GetLast == IF list.count <= 0 THEN NULL ELSE list.last

\* A mutant: whatever is not null is taken for a node of the set.
AnyEntry(n) == n # NULL

IsAvailableEntry(n) ==
  n # NULL /\ list.count > 0 /\ list.first # NULL /\ n \in available

\* The entry's link is read, or it is given up.
Beyond(w, link) ==
  LET n == cursor[w].entry
  IN  IF IsAvailableEntry(n) THEN link[n] ELSE NULL

Reads(w) ==
  LET n == cursor[w].entry
  IN  IF IsAvailableEntry(n) THEN used' = used \cup ({n} \ heap) ELSE UNCHANGED used

\* A tour starts with the values there are; it goes on to an entry, or it is over.
Started == [staying |-> DOMAIN table, seen |-> Unseen, sound |-> TRUE, over |-> FALSE]

Arrived(t, entry) ==
  [t EXCEPT
     !.seen = [v \in Values |->
                 IF entry # NULL /\ v \in t.staying /\ value[entry] = v THEN @[v] + 1
                                                                      ELSE @[v]],
     !.over = entry = NULL]

\* ++ and the step of an enumeration.
MoveNext(w) ==
  LET rst == cursor[w].rst
      entry == IF rst THEN GetFirst ELSE Beyond(w, list.next)
  IN  /\ rst \/ cursor[w].entry # NULL
      /\ cursor' = [cursor EXCEPT ![w] = [entry |-> entry, rst |-> FALSE]]
      /\ IF rst THEN UNCHANGED used ELSE Reads(w)
      /\ tour' = [tour EXCEPT ![w] = Arrived(IF rst THEN Started ELSE @, entry)]
      /\ UNCHANGED <<list, value, table, available, heap>>

\* -- : the tour does not count.
MoveBack(w) ==
  /\ cursor[w].rst \/ cursor[w].entry # NULL
  /\ cursor' = [cursor EXCEPT ![w] =
       [entry |-> IF @.rst THEN GetLast ELSE Beyond(w, list.prev), rst |-> FALSE]]
  /\ IF cursor[w].rst THEN UNCHANGED used ELSE Reads(w)
  /\ tour' = [tour EXCEPT ![w] = NoTour]
  /\ UNCHANGED <<list, value, table, available, heap>>

\* The value is read in place; an entry that is none any more is given up.
GetCurrent(w) ==
  /\ cursor[w].entry # NULL
  /\ cursor' = [cursor EXCEPT ![w].entry = IF IsAvailableEntry(@) THEN @ ELSE NULL]
  /\ Reads(w)
  /\ tour' = IF cursor'[w].entry = NULL THEN [tour EXCEPT ![w] = NoTour] ELSE tour
  /\ UNCHANGED <<list, value, table, available, heap>>

Placed(w, n) ==
  /\ cursor' = [cursor EXCEPT ![w] = [entry |-> n, rst |-> n = NULL]]
  /\ UNCHANGED <<list, value, table, available, heap, used>>

\* Without a value begin() is a reset: the next ++ looks for the first again.
Begin(w) ==
  /\ Placed(w, GetFirst)
  /\ tour' = [tour EXCEPT ![w] =
       IF GetFirst = NULL THEN NoTour ELSE Arrived(Started, GetFirst)]

\* rend()
AtEnd(w) == Placed(w, GetLast) /\ tour' = [tour EXCEPT ![w] = NoTour]

Find(w, v) ==
  /\ Placed(w, IF v \in DOMAIN table THEN table[v] ELSE NULL)
  /\ tour' = [tour EXCEPT ![w] = NoTour]

Reset(w) == Placed(w, NULL) /\ tour' = [tour EXCEPT ![w] = NoTour]

SetNext ==
  \/ \E v \in Values : Insert(v) \/ RemoveValue(v)
  \/ ClearSet
  \/ \E w \in Walkers :
       \/ MoveNext(w) \/ MoveBack(w) \/ GetCurrent(w)
       \/ Begin(w) \/ AtEnd(w) \/ Reset(w)
       \/ \E v \in Values : Find(w, v)

(***************************************************************************)
(* Properties.                                                             *)
(***************************************************************************)

\* List, table, available nodes and allocated memory are four views of one set,
\* and no enumerator reads memory that is not allocated, whatever was removed,
\* freed and allocated again while it stood where it stands.
SetAgrees ==
  LET s == Steps(list, Cardinality(Nodes) + 1)
      listed == {s[i] : i \in DOMAIN s}
  IN  /\ used = {}
      /\ Cardinality(listed) = Len(s) /\ list.count = Len(s)
      /\ \A i \in DOMAIN s : list.prev[s[i]] = IF i = 1 THEN NULL ELSE s[i - 1]
      /\ list.last = IF s = <<>> THEN NULL ELSE s[Len(s)]
      /\ listed = available /\ listed = heap
      /\ listed = {table[v] : v \in DOMAIN table}
      /\ \A v \in DOMAIN table : value[table[v]] = v

\* An enumeration that has come to its end, and was never standing on a value
\* that was removed, has yielded each value that was there from the start and
\* was not removed exactly once.
ToursComplete ==
  \A w \in Walkers :
    LET t == tour[w]
    IN  t.sound /\ t.over => \A v \in t.staying : t.seen[v] = 1
=============================================================================
