---------------------------- MODULE LinkedListProofs -------------------------
(***************************************************************************)
(* Linked lists, and what is built on them: the timer scheduler keeps list,*)
(* table and flags in step, implements a queue with a cursor, and lets     *)
(* threads wait for each other at a stale stop or a disposal only, and the *)
(* set of src/collections bears changes while it is gone through.          *)
(***************************************************************************)
EXTENDS Timers, Collections, SequenceTheorems, FiniteSetTheorems,
        WellFoundedInduction, TLAPS

(* Linked lists.                                                           *)

\* l chains the nodes of T, out of all nodes N, in the order of the places p.
Chained(l, N, T, p) ==
  /\ T \subseteq N /\ l.count \in Nat
  /\ p \in [T -> 1 .. l.count]
  /\ \A s, t \in T : p[s] = p[t] => s = t
  /\ \A i \in 1 .. l.count : \E t \in T : p[t] = i
  /\ l.first \in T \cup {NULL} /\ l.last \in T \cup {NULL}
  /\ T # {} => l.first # NULL /\ l.last # NULL
  /\ l.first # NULL => p[l.first] = 1
  /\ l.last # NULL => p[l.last] = l.count
  /\ l.next \in [N -> T \cup {NULL}] /\ l.prev \in [N -> T \cup {NULL}]
  /\ \A s \in N : s \notin T => l.next[s] = NULL /\ l.prev[s] = NULL
  /\ \A s \in T : IF l.next[s] = NULL THEN p[s] = l.count
                                      ELSE p[l.next[s]] = p[s] + 1
  /\ \A s \in T : IF l.prev[s] = NULL THEN p[s] = 1
                                      ELSE p[l.prev[s]] = p[s] - 1

LEMMA EmptyChained ==
  ASSUME NEW N, NEW l, NULL \notin N,
         l.first = NULL, l.last = NULL, l.count = 0,
         l.next = [n \in N |-> NULL], l.prev = [n \in N |-> NULL]
  PROVE  \E p : Chained(l, N, {}, p)
<1> DEFINE p == [t \in {} |-> 1]
<1>1. p \in [{} -> 1 .. l.count]
  OBVIOUS
<1> HIDE DEF p
<1>2. Chained(l, N, {}, p)
  BY <1>1 DEF Chained
<1> QED BY <1>2

\* What InStep says of the links follows.
LEMMA ChainedLinks ==
  ASSUME NEW N, NULL \notin N, NEW l, NEW T, NEW p, Chained(l, N, T, p)
  PROVE  /\ \A t \in T : /\ p[t] = 1 <=> t = l.first
                         /\ p[t] = l.count <=> t = l.last
         /\ \A s, t \in T : /\ l.next[s] = t <=> p[t] = p[s] + 1
                            /\ l.prev[t] = s <=> p[t] = p[s] + 1
         /\ l.count = 0 <=> T = {}
         /\ l.first = NULL <=> T = {}
         /\ l.last = NULL <=> T = {}
<1>1. \A t \in T : /\ p[t] = 1 <=> t = l.first
                   /\ p[t] = l.count <=> t = l.last
  BY DEF Chained
<1>2. ASSUME NEW s \in T, NEW t \in T
      PROVE  l.next[s] = t <=> p[t] = p[s] + 1
  <2>1. p[s] \in Int /\ p[t] \in Int /\ p[t] <= l.count /\ l.count \in Int
    BY DEF Chained
  <2>2. t # NULL /\ s \in N /\ l.next[s] \in T \cup {NULL}
    BY DEF Chained
  <2> QED BY <2>1, <2>2 DEF Chained
<1>3. ASSUME NEW s \in T, NEW t \in T
      PROVE  l.prev[t] = s <=> p[t] = p[s] + 1
  <2>1. p[s] \in Int /\ p[t] \in Int /\ 1 <= p[s]
    BY DEF Chained
  <2>2. s # NULL /\ t \in N /\ l.prev[t] \in T \cup {NULL}
    BY DEF Chained
  <2> QED BY <2>1, <2>2 DEF Chained
<1>4. l.count = 0 <=> T = {}
  BY DEF Chained
<1>5. (l.first = NULL <=> T = {}) /\ (l.last = NULL <=> T = {})
  BY DEF Chained
<1> QED BY <1>1, <1>2, <1>3, <1>4, <1>5

\* The places once t has been put last, and once it is gone.
PlacedLast(l, T, p, t) == [s \in T \cup {t} |-> IF s = t THEN l.count + 1 ELSE p[s]]
PlacedWithout(T, p, t) == [s \in T \ {t} |-> IF p[s] > p[t] THEN p[s] - 1 ELSE p[s]]

\* k is l with t put behind the last node.
Longer(k, l, N, T, t) ==
  /\ k.first = IF T = {} THEN t ELSE l.first
  /\ k.last = t /\ k.count = l.count + 1
  /\ k.next \in [N -> T \cup {t, NULL}] /\ k.prev \in [N -> T \cup {t, NULL}]
  /\ \A s \in N : /\ k.next[s] = IF s = l.last THEN t ELSE l.next[s]
                  /\ k.prev[s] = IF s = t THEN l.last ELSE l.prev[s]

LEMMA AddLastLinks ==
  ASSUME NEW N, NULL \notin N, NEW l, NEW T, NEW p, Chained(l, N, T, p),
         NEW t \in N, t \notin T
  PROVE  Longer(AddLast(l, t), l, N, T, t)
<1> DEFINE k == AddLast(l, t)
<1>1. l.next[t] = NULL /\ l.prev[t] = NULL /\ DOMAIN l.next = N /\ DOMAIN l.prev = N
  BY DEF Chained
<1>2. CASE T = {}
  <2>1. l.last = NULL /\ l.first = NULL /\ l.count = 0
    BY <1>2, ChainedLinks
  <2>2. k = OnlyNode(l, t)
    BY <2>1 DEF AddLast
  <2>3. /\ k.first = t /\ k.last = t /\ k.count = 1
        /\ k.next = [m \in N |-> IF m = t THEN NULL ELSE l.next[m]]
        /\ k.prev = [m \in N |-> IF m = t THEN NULL ELSE l.prev[m]]
    BY <2>2, <1>1 DEF OnlyNode, With
  <2>4. \A s \in N : l.next[s] = NULL /\ l.prev[s] = NULL
    BY <1>2 DEF Chained
  <2> HIDE DEF k
  <2>5. \A s \in N : /\ k.next[s] = NULL /\ l.next[s] = NULL /\ s # l.last
                     /\ k.prev[s] = NULL /\ l.prev[s] = NULL /\ l.last = NULL
    BY <2>1, <2>3, <2>4
  <2>6. k.next \in [N -> T \cup {t, NULL}] /\ k.prev \in [N -> T \cup {t, NULL}]
    BY <2>3, <2>4
  <2>7. Longer(k, l, N, T, t)
    BY <2>1, <2>3, <2>5, <2>6, <1>2 DEF Longer
  <2> QED BY <2>7 DEF k
<1>3. CASE T # {}
  <2>1. l.last \in T /\ l.last # NULL /\ l.last # t /\ l.last \in N /\ l.next[l.last] = NULL
    <3>1. l.last \in T /\ l.last # NULL /\ p[l.last] = l.count /\ l.last \in N
      BY <1>3 DEF Chained
    <3>2. l.next[l.last] # NULL => p[l.next[l.last]] = l.count + 1 /\ l.next[l.last] \in T
      BY <3>1 DEF Chained
    <3>3. \A s \in T : p[s] <= l.count /\ l.count \in Int /\ p[s] \in Int
      BY DEF Chained
    <3> QED BY <3>1, <3>2, <3>3
  <2>2. k = AddAfter(l, l.last, t)
    BY <2>1 DEF AddLast
  <2>3. Unlinked(l, t).next[l.last] = NULL
    BY <2>1, <1>1 DEF Unlinked, With
  <2>4. /\ k.first = l.first /\ k.last = t /\ k.count = l.count + 1
        /\ k.next = With(With(l.next, l.last, t), t, NULL)
        /\ k.prev = With(With(l.prev, NULL, t), t, l.last)
    BY <2>2, <2>3 DEF AddAfter
  <2> HIDE DEF k
  <2>5. /\ k.next = [m \in N |-> IF m = t THEN NULL ELSE IF m = l.last THEN t ELSE l.next[m]]
        /\ k.prev = [m \in N |-> IF m = t THEN l.last ELSE IF m = NULL THEN t ELSE l.prev[m]]
    BY <2>4, <1>1 DEF With
  <2>6. \A s \in N : l.next[s] \in T \cup {NULL} /\ l.prev[s] \in T \cup {NULL}
    BY DEF Chained
  <2>7. \A s \in N : /\ k.next[s] = IF s = l.last THEN t ELSE l.next[s]
                     /\ k.prev[s] = IF s = t THEN l.last ELSE l.prev[s]
    BY <2>1, <2>5, <1>1
  <2>8. k.next \in [N -> T \cup {t, NULL}] /\ k.prev \in [N -> T \cup {t, NULL}]
    BY <2>1, <2>5, <2>6
  <2>9. Longer(k, l, N, T, t)
    BY <2>4, <2>7, <2>8, <1>3 DEF Longer
  <2> QED BY <2>9 DEF k
<1> QED BY <1>2, <1>3

LEMMA AddLastChained ==
  ASSUME NEW N, NULL \notin N, NEW l, NEW T, NEW p, Chained(l, N, T, p),
         NEW t \in N, t \notin T
  PROVE  Chained(AddLast(l, t), N, T \cup {t}, PlacedLast(l, T, p, t))
<1> DEFINE k == AddLast(l, t)
           q == PlacedLast(l, T, p, t)
           U == T \cup {t}
<1>1. /\ k.first = IF T = {} THEN t ELSE l.first
      /\ k.last = t /\ k.count = l.count + 1
      /\ k.next \in [N -> U \cup {NULL}] /\ k.prev \in [N -> U \cup {NULL}]
      /\ \A s \in N : /\ k.next[s] = IF s = l.last THEN t ELSE l.next[s]
                      /\ k.prev[s] = IF s = t THEN l.last ELSE l.prev[s]
  <2>1. T \cup {t, NULL} = U \cup {NULL}
    OBVIOUS
  <2> QED BY <2>1, AddLastLinks DEF Longer
<1>2. /\ DOMAIN q = U /\ q[t] = l.count + 1
      /\ \A s \in T : q[s] = p[s] /\ s # t /\ p[s] \in 1 .. l.count /\ s \in N
      /\ l.count \in Nat
  BY DEF PlacedLast, Chained
<1> HIDE DEF k, q
<1>3. U \subseteq N /\ k.count \in Nat /\ q \in [U -> 1 .. k.count]
  <2>1. \A s \in U : q[s] \in 1 .. k.count
    BY <1>1, <1>2
  <2>2. q = [s \in U |-> q[s]]
    BY DEF q, PlacedLast
  <2> QED BY <2>1, <2>2, <1>1, <1>2
<1>4. \A r, s \in U : q[r] = q[s] => r = s
  BY <1>2 DEF Chained
<1>5. \A i \in 1 .. k.count : \E s \in U : q[s] = i
  <2> SUFFICES ASSUME NEW i \in 1 .. k.count PROVE \E s \in U : q[s] = i
    OBVIOUS
  <2>1. CASE i = l.count + 1
    BY <2>1, <1>2
  <2>2. CASE i # l.count + 1
    <3>1. i \in 1 .. l.count
      BY <2>2, <1>1, <1>2
    <3> QED BY <3>1, <1>2 DEF Chained
  <2> QED BY <2>1, <2>2
<1>6. /\ k.first \in U \cup {NULL} /\ k.last \in U \cup {NULL}
      /\ k.first # NULL /\ k.last # NULL
      /\ q[k.first] = 1 /\ q[k.last] = k.count
  <2>1. T = {} => l.count = 0
    BY ChainedLinks
  <2>2. T # {} => l.first \in T /\ l.first # NULL /\ p[l.first] = 1
    BY DEF Chained
  <2> QED BY <2>1, <2>2, <1>1, <1>2
<1>7. \A s \in N : s \notin U => k.next[s] = NULL /\ k.prev[s] = NULL
  <2>1. \A s \in N : s \notin U => s # l.last
    BY DEF Chained
  <2> QED BY <2>1, <1>1 DEF Chained
<1>8. ASSUME NEW s \in U
      PROVE  IF k.next[s] = NULL THEN q[s] = k.count ELSE q[k.next[s]] = q[s] + 1
  <2>1. CASE s = l.last /\ s \in T
    <3>1. p[s] = l.count /\ k.next[s] = t /\ t # NULL
      BY <2>1, <1>1, <1>2 DEF Chained
    <3> QED BY <3>1, <2>1, <1>2
  <2>2. CASE s \in T /\ s # l.last
    <3>1. k.next[s] = l.next[s] /\ l.next[s] \in T \cup {NULL}
      BY <2>2, <1>1, <1>2 DEF Chained
    <3>2. l.next[s] # NULL
      BY <2>2, ChainedLinks DEF Chained
    <3>3. p[l.next[s]] = p[s] + 1
      BY <2>2, <3>2 DEF Chained
    <3> QED BY <3>1, <3>2, <3>3, <2>2, <1>2
  <2>3. CASE s = t
    <3>1. l.last # t /\ l.next[t] = NULL
      BY DEF Chained
    <3> QED BY <3>1, <2>3, <1>1, <1>2
  <2> QED BY <2>1, <2>2, <2>3
<1>9. ASSUME NEW s \in U
      PROVE  IF k.prev[s] = NULL THEN q[s] = 1 ELSE q[k.prev[s]] = q[s] - 1
  <2>1. CASE s \in T
    <3>1. k.prev[s] = l.prev[s] /\ l.prev[s] \in T \cup {NULL}
      BY <2>1, <1>1, <1>2 DEF Chained
    <3>2. IF l.prev[s] = NULL THEN p[s] = 1 ELSE p[l.prev[s]] = p[s] - 1
      BY <2>1 DEF Chained
    <3> QED BY <3>1, <3>2, <2>1, <1>2
  <2>2. CASE s = t
    <3>1. k.prev[s] = l.last
      BY <2>2, <1>1
    <3>2. CASE T = {}
      <4>1. l.last = NULL /\ l.count = 0
        BY <3>2, ChainedLinks
      <4> QED BY <4>1, <3>1, <2>2, <1>2
    <3>3. CASE T # {}
      <4>1. l.last \in T /\ l.last # NULL /\ p[l.last] = l.count
        BY <3>3 DEF Chained
      <4> QED BY <4>1, <3>1, <2>2, <1>2
    <3> QED BY <3>2, <3>3
  <2> QED BY <2>1, <2>2
<1>10. Chained(k, N, U, q)
  BY <1>1, <1>3, <1>4, <1>5, <1>6, <1>7, <1>8, <1>9 DEF Chained
<1> QED BY <1>10 DEF k, q

\* k is l with t taken out.
Shorter(k, l, N, T, t) ==
  /\ k.first = IF t = l.first THEN l.next[t] ELSE l.first
  /\ k.last = IF t = l.last THEN l.prev[t] ELSE l.last
  /\ k.count = l.count - 1
  /\ k.next \in [N -> (T \ {t}) \cup {NULL}] /\ k.prev \in [N -> (T \ {t}) \cup {NULL}]
  /\ \A s \in N :
       /\ k.next[s] = IF s = t THEN NULL ELSE IF l.next[s] = t THEN l.next[t] ELSE l.next[s]
       /\ k.prev[s] = IF s = t THEN NULL ELSE IF l.prev[s] = t THEN l.prev[t] ELSE l.prev[s]

\* The links around a node.
LEMMA Neighbours ==
  ASSUME NEW N, NULL \notin N, NEW l, NEW T, NEW p, Chained(l, N, T, p), NEW t \in T
  PROVE  /\ t \in N /\ t # NULL /\ l.first # NULL /\ l.last # NULL
         /\ l.next[t] \in (T \ {t}) \cup {NULL} /\ l.prev[t] \in (T \ {t}) \cup {NULL}
         /\ t = l.first <=> l.prev[t] = NULL
         /\ t = l.last <=> l.next[t] = NULL
         /\ \A s \in N : /\ l.next[s] = t <=> s = l.prev[t]
                         /\ l.prev[s] = t <=> s = l.next[t]
         /\ l.count - 1 <= 0 <=> t = l.first /\ t = l.last
         /\ l.count \in Nat /\ l.count # 0
<1>1. t \in N /\ t # NULL /\ l.first # NULL /\ l.last # NULL
  BY DEF Chained
<1>2. /\ l.next[t] \in T \cup {NULL} /\ l.prev[t] \in T \cup {NULL}
      /\ p[t] \in Int /\ 1 <= p[t] /\ p[t] <= l.count /\ l.count \in Nat
      /\ \A s \in T : p[s] \in 1 .. l.count
  BY <1>1 DEF Chained
<1>3. l.next[t] # t /\ l.prev[t] # t
  BY <1>1, <1>2 DEF Chained
<1>4. t = l.first <=> l.prev[t] = NULL
  <2>1. p[t] = 1 <=> t = l.first
    BY ChainedLinks
  <2>2. l.prev[t] # NULL => p[l.prev[t]] = p[t] - 1 /\ l.prev[t] \in T
    BY <1>2 DEF Chained
  <2>3. l.prev[t] = NULL => p[t] = 1
    BY DEF Chained
  <2> QED BY <2>1, <2>2, <2>3, <1>2
<1>5. t = l.last <=> l.next[t] = NULL
  <2>1. p[t] = l.count <=> t = l.last
    BY ChainedLinks
  <2>2. l.next[t] # NULL => p[l.next[t]] = p[t] + 1 /\ l.next[t] \in T
    BY <1>2 DEF Chained
  <2>3. l.next[t] = NULL => p[t] = l.count
    BY DEF Chained
  <2> QED BY <2>1, <2>2, <2>3, <1>2
<1>6. ASSUME NEW s \in N
      PROVE  /\ l.next[s] = t <=> s = l.prev[t]
             /\ l.prev[s] = t <=> s = l.next[t]
  <2>1. CASE s \in T
    BY <2>1, ChainedLinks
  <2>2. CASE s \notin T
    BY <2>2, <1>1, <1>2 DEF Chained
  <2> QED BY <2>1, <2>2
<1>7. l.count - 1 <= 0 <=> t = l.first /\ t = l.last
  <2>1. (p[t] = 1 <=> t = l.first) /\ (p[t] = l.count <=> t = l.last)
    BY ChainedLinks
  <2> QED BY <2>1, <1>2
<1> QED BY <1>1, <1>2, <1>3, <1>4, <1>5, <1>6, <1>7

LEMMA RemoveLinks ==
  ASSUME NEW N, NULL \notin N, NEW l, NEW T, NEW p, Chained(l, N, T, p), NEW t \in T
  PROVE  /\ ~RemoveFaults(l, t)
         /\ Shorter(Remove(l, t), l, N, T, t)
         /\ Shorter(Unlinked(Remove(l, t), t), l, N, T, t)
<1> DEFINE r == Remove(l, t)
           k == Unlinked(r, t)
<1>1. /\ t \in N /\ t # NULL /\ l.first # NULL /\ l.last # NULL
      /\ l.next[t] \in (T \ {t}) \cup {NULL} /\ l.prev[t] \in (T \ {t}) \cup {NULL}
      /\ t = l.first <=> l.prev[t] = NULL
      /\ t = l.last <=> l.next[t] = NULL
      /\ l.count - 1 <= 0 <=> t = l.first /\ t = l.last
      /\ l.count \in Nat /\ l.count # 0
  BY Neighbours
<1>2. \A s \in N : /\ l.next[s] = t <=> s = l.prev[t]
                   /\ l.prev[s] = t <=> s = l.next[t]
  BY Neighbours
<1>3. DOMAIN l.next = N /\ DOMAIN l.prev = N
  BY DEF Chained
<1>4. ~RemoveFaults(l, t)
  BY <1>1 DEF RemoveFaults
<1>5. /\ r.first = IF t = l.first THEN l.next[t] ELSE l.first
      /\ r.last = IF t = l.last THEN l.prev[t] ELSE l.last
      /\ r.count = l.count - 1
      /\ r.next = [s \in N |-> IF s = t THEN NULL ELSE
                                IF s = l.prev[t] THEN l.next[t] ELSE l.next[s]]
      /\ r.prev = [s \in N |-> IF s = t THEN NULL ELSE
                                IF s = l.next[t] THEN l.prev[t] ELSE l.prev[s]]
  <2>1. CASE t = l.first
    <3>1. r = RemoveFirst(l)
      BY <2>1 DEF Remove
    <3>2. /\ r.first = IF l.count - 1 <= 0 THEN NULL ELSE l.next[t]
          /\ r.last = IF l.count - 1 <= 0 THEN NULL ELSE l.last
          /\ r.count = IF l.count - 1 <= 0 THEN 0 ELSE l.count - 1
          /\ r.next = With(l.next, t, NULL)
          /\ r.prev = With(With(l.prev, t, NULL), l.next[t], NULL)
      BY <3>1, <2>1, <1>1 DEF RemoveFirst, Unlinked
    <3> HIDE DEF r
    <3>3. /\ r.next = [s \in N |-> IF s = t THEN NULL ELSE l.next[s]]
          /\ r.prev = [s \in N |-> IF s = l.next[t] THEN NULL ELSE
                                    IF s = t THEN NULL ELSE l.prev[s]]
      BY <3>2, <1>3 DEF With
    <3>4. /\ l.prev[t] = NULL /\ NULL \notin N
          /\ r.first = l.next[t] /\ r.count = l.count - 1
          /\ r.last = IF t = l.last THEN l.prev[t] ELSE l.last
      BY <3>2, <2>1, <1>1
    <3>5. /\ \A s \in N : (IF s = t THEN NULL ELSE l.next[s]) =
                 (IF s = t THEN NULL ELSE IF s = l.prev[t] THEN l.next[t] ELSE l.next[s])
          /\ \A s \in N :
                 (IF s = l.next[t] THEN NULL ELSE IF s = t THEN NULL ELSE l.prev[s]) =
                 (IF s = t THEN NULL ELSE IF s = l.next[t] THEN l.prev[t] ELSE l.prev[s])
      BY <3>4
    <3> QED BY <3>3, <3>4, <3>5, <2>1
  <2>2. CASE t # l.first /\ t = l.last
    <3>1. r = RemoveLast(l)
      BY <2>2 DEF Remove
    <3>2. /\ r.first = IF l.count - 1 <= 0 THEN NULL ELSE l.first
          /\ r.last = IF l.count - 1 <= 0 THEN NULL ELSE l.prev[t]
          /\ r.count = IF l.count - 1 <= 0 THEN 0 ELSE l.count - 1
          /\ r.next = With(With(l.next, t, NULL), l.prev[t], NULL)
          /\ r.prev = With(l.prev, t, NULL)
      BY <3>1, <2>2, <1>1 DEF RemoveLast, Unlinked
    <3> HIDE DEF r
    <3>3. /\ r.next = [s \in N |-> IF s = l.prev[t] THEN NULL ELSE
                                    IF s = t THEN NULL ELSE l.next[s]]
          /\ r.prev = [s \in N |-> IF s = t THEN NULL ELSE l.prev[s]]
      BY <3>2, <1>3 DEF With
    <3>4. /\ l.next[t] = NULL /\ NULL \notin N
          /\ r.first = l.first /\ r.count = l.count - 1 /\ r.last = l.prev[t]
      BY <3>2, <2>2, <1>1
    <3>5. /\ \A s \in N : (IF s = t THEN NULL ELSE l.prev[s]) =
                 (IF s = t THEN NULL ELSE IF s = l.next[t] THEN l.prev[t] ELSE l.prev[s])
          /\ \A s \in N :
                 (IF s = l.prev[t] THEN NULL ELSE IF s = t THEN NULL ELSE l.next[s]) =
                 (IF s = t THEN NULL ELSE IF s = l.prev[t] THEN l.next[t] ELSE l.next[s])
      BY <3>4
    <3> QED BY <3>3, <3>4, <3>5, <2>2
  <2>3. CASE t # l.first /\ t # l.last
    <3>1. r = RemoveInner(l, t)
      BY <2>3 DEF Remove
    <3>2. /\ r.first = l.first /\ r.last = l.last /\ r.count = l.count - 1
          /\ r.next = With(With(l.next, l.prev[t], l.next[t]), t, NULL)
          /\ r.prev = With(With(l.prev, l.next[t], l.prev[t]), t, NULL)
      BY <3>1, <2>3, <1>1 DEF RemoveInner
    <3> HIDE DEF r
    <3>3. /\ r.next = [s \in N |-> IF s = t THEN NULL ELSE
                                    IF s = l.prev[t] THEN l.next[t] ELSE l.next[s]]
          /\ r.prev = [s \in N |-> IF s = t THEN NULL ELSE
                                    IF s = l.next[t] THEN l.prev[t] ELSE l.prev[s]]
      BY <3>2, <1>3 DEF With
    <3> QED BY <3>2, <3>3, <2>3
  <2> QED BY <2>1, <2>2, <2>3
<1> HIDE DEF r
<1>6. /\ k.first = r.first /\ k.last = r.last /\ k.count = r.count
      /\ k.next = [s \in N |-> IF s = t THEN NULL ELSE r.next[s]]
      /\ k.prev = [s \in N |-> IF s = t THEN NULL ELSE r.prev[s]]
  BY <1>5 DEF Unlinked, With
<1> HIDE DEF k
<1>7. \A s \in N :
       /\ k.next[s] = IF s = t THEN NULL ELSE IF l.next[s] = t THEN l.next[t] ELSE l.next[s]
       /\ k.prev[s] = IF s = t THEN NULL ELSE IF l.prev[s] = t THEN l.prev[t] ELSE l.prev[s]
  <2>1. \A s \in N : /\ k.next[s] = IF s = t THEN NULL ELSE r.next[s]
                     /\ k.prev[s] = IF s = t THEN NULL ELSE r.prev[s]
    BY <1>6
  <2>2. \A s \in N :
          /\ r.next[s] = IF s = t THEN NULL ELSE IF s = l.prev[t] THEN l.next[t] ELSE l.next[s]
          /\ r.prev[s] = IF s = t THEN NULL ELSE IF s = l.next[t] THEN l.prev[t] ELSE l.prev[s]
    BY <1>5
  <2> QED BY <2>1, <2>2, <1>2
<1>8. k.next \in [N -> (T \ {t}) \cup {NULL}] /\ k.prev \in [N -> (T \ {t}) \cup {NULL}]
  <2>1. \A s \in N : l.next[s] \in T \cup {NULL} /\ l.prev[s] \in T \cup {NULL}
    BY DEF Chained
  <2>2. \A s \in N : /\ k.next[s] \in (T \ {t}) \cup {NULL}
                     /\ k.prev[s] \in (T \ {t}) \cup {NULL}
    BY <2>1, <1>7, <1>1
  <2> QED BY <2>2, <1>6
<1>9. Shorter(k, l, N, T, t)
  BY <1>5, <1>6, <1>7, <1>8 DEF Shorter
<1>10. Shorter(r, l, N, T, t)
  <2>1. /\ \A s \in N : k.next[s] = r.next[s] /\ k.prev[s] = r.prev[s]
        /\ k.next = [s \in N |-> k.next[s]] /\ k.prev = [s \in N |-> k.prev[s]]
        /\ r.next = [s \in N |-> r.next[s]] /\ r.prev = [s \in N |-> r.prev[s]]
    BY <1>5, <1>6
  <2>2. k.next = r.next /\ k.prev = r.prev
    BY <2>1
  <2> QED BY <2>2, <1>6, <1>9 DEF Shorter
<1> QED BY <1>4, <1>9, <1>10 DEF k, r

LEMMA RemoveChained ==
  ASSUME NEW N, NULL \notin N, NEW l, NEW T, NEW p, Chained(l, N, T, p), NEW t \in T,
         NEW k, Shorter(k, l, N, T, t)
  PROVE  Chained(k, N, T \ {t}, PlacedWithout(T, p, t))
<1> DEFINE q == PlacedWithout(T, p, t)
           U == T \ {t}
<1>1. /\ t \in N /\ t # NULL /\ l.first # NULL /\ l.last # NULL
      /\ l.next[t] \in U \cup {NULL} /\ l.prev[t] \in U \cup {NULL}
      /\ t = l.first <=> l.prev[t] = NULL
      /\ t = l.last <=> l.next[t] = NULL
      /\ \A s \in N : /\ l.next[s] = t <=> s = l.prev[t]
                      /\ l.prev[s] = t <=> s = l.next[t]
      /\ l.count \in Nat /\ l.count # 0
  BY Neighbours
<1>2. /\ DOMAIN q = U /\ p[t] \in 1 .. l.count
      /\ \A s \in U : /\ q[s] = IF p[s] > p[t] THEN p[s] - 1 ELSE p[s]
                      /\ s \in T /\ s \in N /\ s # t /\ p[s] # p[t] /\ p[s] \in 1 .. l.count
  BY DEF PlacedWithout, Chained
<1>3. q = [s \in U |-> q[s]]
  BY DEF PlacedWithout
<1> HIDE DEF q
<1>4. U \subseteq N /\ k.count \in Nat /\ q \in [U -> 1 .. k.count]
  <2>1. k.count = l.count - 1
    BY DEF Shorter
  <2>2. \A s \in U : q[s] \in 1 .. k.count
    BY <1>1, <1>2, <2>1
  <2> QED BY <2>1, <2>2, <1>1, <1>2, <1>3
<1>5. \A r, s \in U : q[r] = q[s] => r = s
  <2> SUFFICES ASSUME NEW r \in U, NEW s \in U, q[r] = q[s] PROVE r = s
    OBVIOUS
  <2>1. p[r] = p[s]
    BY <1>2
  <2> QED BY <2>1 DEF Chained
<1>6. \A i \in 1 .. k.count : \E s \in U : q[s] = i
  <2> SUFFICES ASSUME NEW i \in 1 .. k.count PROVE \E s \in U : q[s] = i
    OBVIOUS
  <2>0. i \in 1 .. l.count /\ i + 1 \in 1 .. l.count
    BY <1>1 DEF Shorter
  <2>1. CASE i < p[t]
    <3>1. PICK s \in T : p[s] = i
      BY <2>0 DEF Chained
    <3> QED BY <3>1, <2>1, <1>2
  <2>2. CASE ~(i < p[t])
    <3>1. PICK s \in T : p[s] = i + 1
      BY <2>0 DEF Chained
    <3> QED BY <3>1, <2>2, <1>2
  <2> QED BY <2>1, <2>2
<1>7. /\ k.first \in U \cup {NULL} /\ k.last \in U \cup {NULL}
      /\ U # {} => k.first # NULL /\ k.last # NULL
  <2>1. /\ l.first \in T /\ l.last \in T
        /\ (p[t] = 1 <=> t = l.first) /\ (p[t] = l.count <=> t = l.last)
    BY <1>1, ChainedLinks DEF Chained
  <2>2. k.first \in U \cup {NULL} /\ k.last \in U \cup {NULL}
    BY <2>1, <1>1 DEF Shorter
  <2>3. ASSUME k.first = NULL \/ k.last = NULL
        PROVE  U = {}
    <3>1. t = l.first /\ t = l.last
      BY <2>1, <2>3, <1>1 DEF Shorter
    <3>2. l.count = 1
      BY <3>1, <2>1, <1>1
    <3> QED BY <3>2, <1>2
  <2> QED BY <2>2, <2>3
<1>8. k.first # NULL => q[k.first] = 1
  <2> SUFFICES ASSUME k.first # NULL PROVE q[k.first] = 1
    OBVIOUS
  <2>1. CASE t = l.first
    <3>1. k.first = l.next[t] /\ l.next[t] \in U /\ p[t] = 1
      BY <2>1, <1>1, ChainedLinks DEF Shorter
    <3>2. p[l.next[t]] = 2
      BY <3>1, <1>1, <1>2, ChainedLinks
    <3> QED BY <3>1, <3>2, <1>2
  <2>2. CASE t # l.first
    <3>1. k.first = l.first /\ l.first \in U /\ p[l.first] = 1
      BY <2>2, <1>1 DEF Shorter, Chained
    <3> QED BY <3>1, <1>2
  <2> QED BY <2>1, <2>2
<1>9. k.last # NULL => q[k.last] = k.count
  <2> SUFFICES ASSUME k.last # NULL PROVE q[k.last] = l.count - 1
    BY DEF Shorter
  <2>1. CASE t = l.last
    <3>1. k.last = l.prev[t] /\ l.prev[t] \in U /\ p[t] = l.count
      BY <2>1, <1>1, ChainedLinks DEF Shorter
    <3>2. p[t] = p[l.prev[t]] + 1
      BY <3>1, <1>1, <1>2, ChainedLinks
    <3> QED BY <3>1, <3>2, <1>2
  <2>2. CASE t # l.last
    <3>1. k.last = l.last /\ l.last \in U /\ p[l.last] = l.count /\ p[t] # l.count
      BY <2>2, <1>1, ChainedLinks DEF Shorter, Chained
    <3> QED BY <3>1, <1>2
  <2> QED BY <2>1, <2>2
<1>10. \A s \in N : s \notin U => k.next[s] = NULL /\ k.prev[s] = NULL
  <2> SUFFICES ASSUME NEW s \in N, s \notin T PROVE k.next[s] = NULL /\ k.prev[s] = NULL
    BY DEF Shorter
  <2>1. l.next[s] = NULL /\ l.prev[s] = NULL
    BY DEF Chained
  <2> QED BY <2>1, <1>1 DEF Shorter
<1>11. ASSUME NEW s \in U
       PROVE  IF k.next[s] = NULL THEN q[s] = k.count ELSE q[k.next[s]] = q[s] + 1
  <2>0. /\ s \in N /\ s # t /\ p[s] \in Int /\ p[t] \in Int /\ k.count = l.count - 1
        /\ IF l.next[s] = NULL THEN p[s] = l.count ELSE p[l.next[s]] = p[s] + 1
        /\ l.next[s] \in T \cup {NULL}
    BY <1>2 DEF Chained, Shorter
  <2>1. CASE l.next[s] = t
    <3>1. k.next[s] = l.next[t] /\ p[t] = p[s] + 1
      BY <2>1, <2>0, <1>1 DEF Shorter
    <3>2. q[s] = p[s]
      BY <3>1, <2>0, <1>2
    <3>3. IF l.next[t] = NULL THEN p[t] = l.count ELSE p[l.next[t]] = p[t] + 1
      BY DEF Chained
    <3> QED BY <3>1, <3>2, <3>3, <2>0, <1>1, <1>2
  <2>2. CASE l.next[s] # t
    <3>1. k.next[s] = l.next[s]
      BY <2>2, <2>0 DEF Shorter
    <3>2. CASE l.next[s] = NULL
      BY <3>1, <3>2, <2>0, <1>2
    <3>3. CASE l.next[s] # NULL
      <4>1. l.next[s] \in U /\ p[l.next[s]] = p[s] + 1
        BY <3>3, <2>0, <2>2
      <4>2. p[l.next[s]] # p[t]
        BY <4>1, <1>2
      <4> QED BY <4>1, <4>2, <3>1, <3>3, <2>0, <1>2
    <3> QED BY <3>2, <3>3
  <2> QED BY <2>1, <2>2
<1>12. ASSUME NEW s \in U
       PROVE  IF k.prev[s] = NULL THEN q[s] = 1 ELSE q[k.prev[s]] = q[s] - 1
  <2>0. /\ s \in N /\ s # t /\ p[s] \in Int /\ p[t] \in Int /\ 1 <= p[s] /\ 1 <= p[t]
        /\ IF l.prev[s] = NULL THEN p[s] = 1 ELSE p[l.prev[s]] = p[s] - 1
        /\ l.prev[s] \in T \cup {NULL}
    BY <1>2 DEF Chained
  <2>1. CASE l.prev[s] = t
    <3>1. k.prev[s] = l.prev[t] /\ p[t] = p[s] - 1
      BY <2>1, <2>0, <1>1 DEF Shorter
    <3>2. q[s] = p[s] - 1
      BY <3>1, <2>0, <1>2
    <3>3. IF l.prev[t] = NULL THEN p[t] = 1 ELSE p[l.prev[t]] = p[t] - 1
      BY DEF Chained
    <3> QED BY <3>1, <3>2, <3>3, <2>0, <1>1, <1>2
  <2>2. CASE l.prev[s] # t
    <3>1. k.prev[s] = l.prev[s]
      BY <2>2, <2>0 DEF Shorter
    <3>2. CASE l.prev[s] = NULL
      BY <3>1, <3>2, <2>0, <1>2
    <3>3. CASE l.prev[s] # NULL
      <4>1. l.prev[s] \in U /\ p[l.prev[s]] = p[s] - 1
        BY <3>3, <2>0, <2>2
      <4>2. p[l.prev[s]] # p[t]
        BY <4>1, <1>2
      <4> QED BY <4>1, <4>2, <3>1, <3>3, <2>0, <1>2
    <3> QED BY <3>2, <3>3
  <2> QED BY <2>1, <2>2
<1>13. k.next \in [N -> U \cup {NULL}] /\ k.prev \in [N -> U \cup {NULL}]
  BY DEF Shorter
<1>14. Chained(k, N, U, q)
  BY <1>4, <1>5, <1>6, <1>7, <1>8, <1>9, <1>10, <1>11, <1>12, <1>13 DEF Chained
<1> QED BY <1>14 DEF q

-----------------------------------------------------------------------------
(* The inductive invariant.                                                *)

TimerType == [enabled : BOOLEAN, disposed : BOOLEAN, interval : Nat, age : Nat \cup {NULL}]

WithTimer == {"start", "stop", "interval", "dispose"}
AtTimer == {"look", "judge", "ask", "callback", "stop", "stopping"}

\* Every variable but the list has its type; the round has a timer where it
\* needs one, and so has a call.
Typed ==
  /\ timer \in [Timers -> TimerType]
  /\ minPeriod \in Nat /\ closed \in BOOLEAN /\ crashed \in BOOLEAN
  /\ slock \in Threads \cup {NULL} /\ tlock \in [Timers -> Threads \cup {NULL}]
  /\ pc \in {"idle", "fetch"} \cup AtTimer
  /\ current \in Timers \cup {NULL} /\ (pc \in AtTimer => current \in Timers)
  /\ counts \in Nat /\ lag \in Nat /\ sinceRound \in Nat /\ ops \in Nat
  /\ call \in [Threads -> [op : WithTimer \cup {"close", "none"}, timer : Timers \cup {NULL}]]
  /\ \A th \in Threads : call[th].op \in WithTimer => call[th].timer \in Timers

\* List, table and cursor belong together, and exactly the timers of the table
\* are enabled, whoever is in a call.
Listed ==
  /\ \E p : Chained(list, Timers, table, p)
  /\ cursor \in table \cup {NULL}
  /\ \A t \in Timers : timer[t].enabled <=> t \in table

\* The scheduler's mutex is held over a step by a stale stop or a disposal
\* only, a timer's by a call on it only.
Locked ==
  /\ slock = NULL \/ (slock = Ticker /\ pc = "stopping")
                  \/ (slock # NULL /\ call[slock].op = "close")
  /\ call[Ticker].op # "close"
  /\ \A t \in Timers : tlock[t] # NULL =>
       call[tlock[t]].op \in WithTimer /\ call[tlock[t]].timer = t

IInv == Typed /\ Listed /\ Locked

LEMMA ListKept ==
  ASSUME Listed, UNCHANGED <<list, table>>, cursor' \in table \cup {NULL},
         \A t \in Timers : timer'[t].enabled = timer[t].enabled
  PROVE  Listed'
BY DEF Listed

LEMMA TableOfTimers ==
  ASSUME Listed
  PROVE  table \subseteq Timers /\ list.first \in table \cup {NULL}
BY DEF Listed, Chained

LEMMA SchedulerStarts ==
  ASSUME Listed, Typed, NEW t \in Timers, t \notin table, SchedulerStart(t)
  PROVE  /\ Listed' /\ minPeriod' \in Nat
         /\ timer' \in [Timers -> TimerType]
<1>1. PICK p : Chained(list, Timers, table, p)
  BY DEF Listed
<1>2. Chained(list', Timers, table', PlacedLast(list, table, p, t))
  BY <1>1, AddLastChained, TimersAssumption DEF SchedulerStart
<1>3. cursor' \in table' \cup {NULL}
  BY DEF SchedulerStart, Listed
<1>4. /\ timer[t].interval \in Nat
      /\ timer' = [timer EXCEPT ![t].enabled = TRUE, ![t].age = 0]
      /\ timer \in [Timers -> TimerType]
  BY DEF SchedulerStart, Typed, TimerType
<1>5. \A s \in Timers : timer'[s].enabled = IF s = t THEN TRUE ELSE timer[s].enabled
  BY <1>4 DEF TimerType
<1>6. \A s \in Timers : timer'[s].enabled <=> s \in table'
  BY <1>5 DEF SchedulerStart, Listed
<1>7. timer' \in [Timers -> TimerType]
  BY <1>4 DEF TimerType
<1>8. minPeriod' \in Nat
  BY <1>4 DEF SchedulerStart, Typed
<1> QED BY <1>2, <1>3, <1>6, <1>7, <1>8 DEF Listed

\* Stopping a timer of the table does not fault, and the cursor stays in it.
LEMMA SchedulerStops ==
  ASSUME Listed, NEW t \in table, SchedulerStop(t),
         \A s \in Timers : timer'[s].enabled = IF s = t THEN FALSE ELSE timer[s].enabled
  PROVE  Listed'
<1>1. PICK p : Chained(list, Timers, table, p)
  BY DEF Listed
<1>2. /\ list' = Unlinked(Remove(list, t), t) /\ table' = table \ {t}
      /\ Remove(list, t).count = list'.count
      /\ cursor' = IF Remove(list, t).count <= 0 \/ table \ {t} = {} THEN NULL
                   ELSE CursorBehind(t)
  BY DEF SchedulerStop, Unlinked
<1>3. Shorter(list', list, Timers, table, t)
  BY <1>1, <1>2, RemoveLinks, TimersAssumption
<1>4. Chained(list', Timers, table', PlacedWithout(table, p, t))
  BY <1>1, <1>2, <1>3, RemoveChained, TimersAssumption
<1>5. cursor' \in table' \cup {NULL}
  <2>1. /\ list.next[t] \in (table \ {t}) \cup {NULL}
        /\ list.first \in table /\ list.count \in Nat
        /\ t = list.last <=> list.next[t] = NULL
        /\ list.count - 1 <= 0 <=> t = list.first /\ t = list.last
    BY <1>1, Neighbours, TimersAssumption DEF Chained
  <2>2. list'.count = list.count - 1
    BY <1>3 DEF Shorter
  <2>3. CASE Remove(list, t).count <= 0 \/ table \ {t} = {}
    BY <2>3, <1>2
  <2>4. CASE ~(Remove(list, t).count <= 0 \/ table \ {t} = {})
    <3>1. cursor' = CursorBehind(t) /\ ~(t = list.first /\ t = list.last)
      BY <2>1, <2>2, <2>4, <1>2
    <3> QED BY <3>1, <2>1, <1>2 DEF CursorBehind, Listed
  <2> QED BY <2>3, <2>4
<1>6. \A s \in Timers : timer'[s].enabled <=> s \in table'
  BY <1>2 DEF Listed
<1> QED BY <1>4, <1>5, <1>6 DEF Listed

\* A timer that is not in the table is taken to have neighbours it has not.
LEMMA StaleFaults ==
  ASSUME Listed, NEW t \in Timers, ~RemoveFaults(list, t)
  PROVE  t \in table
<1>1. /\ t \notin table => list.next[t] = NULL /\ list.prev[t] = NULL
      /\ t # NULL /\ list.first \in table \cup {NULL} /\ list.last \in table \cup {NULL}
  BY TimersAssumption DEF Listed, Chained
<1> QED BY <1>1 DEF RemoveFaults

-----------------------------------------------------------------------------
(* Calls.                                                                  *)

LEMMA EntersStep ==
  ASSUME IInv, NEW th \in Threads, NEW t \in Timers, NEW op \in WithTimer,
         CanCall(th, t), Enters(th, op, t)
  PROVE  IInv'
<1>1. /\ call[th] = NoCall /\ NoCall.op = "none" /\ th # NULL /\ Ticker \in Threads
      /\ op \notin {"none", "close"}
  BY TimersAssumption DEF CanCall, NoCall, Threads, WithTimer
<1>2. /\ call' = [call EXCEPT ![th] = [op |-> op, timer |-> t]]
      /\ tlock' = [tlock EXCEPT ![t] = th] /\ ops' = ops + 1
      /\ UNCHANGED <<timer, list, table, cursor, minPeriod, closed, slock, pc, current,
                     counts, lag, sinceRound, crashed>>
  BY DEF Enters, scheduler, round, clock
<1>3. Typed'
  BY <1>2 DEF IInv, Typed
<1>4. Listed'
  BY <1>2, ListKept DEF IInv, Listed
<1>5. Locked'
  <2>1. slock = NULL \/ (slock = Ticker /\ pc = "stopping")
          \/ (slock # NULL /\ slock # th /\ slock \in Threads /\ call[slock].op = "close")
    BY <1>1 DEF IInv, Locked, Typed
  <2>2. /\ \A o \in Threads : call'[o] = IF o = th THEN [op |-> op, timer |-> t] ELSE call[o]
        /\ \A s \in Timers : tlock'[s] = IF s = t THEN th ELSE tlock[s]
    BY <1>2 DEF IInv, Typed
  <2>3. call'[Ticker].op # "close"
    BY <2>2, <1>1 DEF IInv, Locked
  <2>4. ASSUME NEW s \in Timers, tlock'[s] # NULL
        PROVE  call'[tlock'[s]].op \in WithTimer /\ call'[tlock'[s]].timer = s
    <3>1. CASE s = t
      BY <3>1, <2>2
    <3>2. CASE s # t
      <4>1. /\ tlock'[s] = tlock[s] /\ tlock[s] \in Threads
            /\ call[tlock[s]].op \in WithTimer /\ call[tlock[s]].timer = s
        BY <3>2, <2>2, <2>4 DEF IInv, Locked, Typed
      <4>2. tlock[s] # th
        BY <4>1, <1>1 DEF WithTimer
      <4> QED BY <4>1, <4>2, <2>2
    <3> QED BY <3>1, <3>2
  <2> QED BY <2>1, <2>2, <2>3, <2>4, <1>2 DEF Locked
<1> QED BY <1>3, <1>4, <1>5 DEF IInv

LEMMA SetsStep ==
  ASSUME IInv, NEW t \in Timers, NEW x \in TimerType, x.enabled = timer[t].enabled,
         Sets(t, x)
  PROVE  IInv'
<1>1. /\ timer' = [timer EXCEPT ![t] = x] /\ ops' = ops + 1
      /\ UNCHANGED <<list, table, cursor, minPeriod, closed, slock, tlock, pc, current,
                     counts, lag, sinceRound, call, crashed>>
  BY DEF Sets, scheduler, round, clock
<1>2. Typed'
  BY <1>1 DEF IInv, Typed
<1>3. \A s \in Timers : timer'[s].enabled = timer[s].enabled
  BY <1>1 DEF IInv, Typed
<1>4. Listed'
  BY <1>1, <1>3, ListKept DEF IInv, Listed
<1>5. Locked'
  BY <1>1 DEF IInv, Locked
<1> QED BY <1>2, <1>4, <1>5 DEF IInv

LEMMA CallStep ==
  ASSUME IInv, NEW th \in Threads, Call(th)
  PROVE  IInv'
<1> PICK t \in Timers : Start(th, t) \/ Stop(th, t) \/ SetInterval(th, t) \/ Dispose(th, t)
  BY DEF Call
<1>1. timer[t] \in TimerType
  BY DEF IInv, Typed
<1>2. CASE Start(th, t)
  BY <1>2, EntersStep DEF Start, WithTimer
<1>3. CASE Stop(th, t)
  <2>1. CASE timer[t].enabled
    BY <2>1, <1>3, EntersStep DEF Stop, WithTimer
  <2>2. CASE ~timer[t].enabled
    <3> DEFINE x == [timer[t] EXCEPT !.age = NULL]
    <3>1. x \in TimerType /\ x.enabled = timer[t].enabled
      BY <1>1 DEF TimerType
    <3>2. Sets(t, x)
      BY <2>2, <1>3 DEF Stop
    <3> QED BY <3>1, <3>2, SetsStep
  <2> QED BY <2>1, <2>2
<1>4. CASE SetInterval(th, t)
  <2> PICK i \in Intervals :
        IF i <= 0 /\ timer[t].enabled
          THEN ~timer[t].disposed /\ Enters(th, "interval", t)
          ELSE Sets(t, [timer[t] EXCEPT !.interval = i])
    BY <1>4 DEF SetInterval
  <2>1. CASE i <= 0 /\ timer[t].enabled
    BY <2>1, <1>4, EntersStep DEF SetInterval, WithTimer
  <2>2. CASE ~(i <= 0 /\ timer[t].enabled)
    <3> DEFINE x == [timer[t] EXCEPT !.interval = i]
    <3>1. x \in TimerType /\ x.enabled = timer[t].enabled
      BY <1>1, TimersAssumption DEF TimerType
    <3>2. Sets(t, x)
      BY <2>2
    <3> QED BY <3>1, <3>2, SetsStep
  <2> QED BY <2>1, <2>2
<1>5. CASE Dispose(th, t)
  <2>1. CASE timer[t].enabled
    BY <2>1, <1>5, EntersStep DEF Dispose, WithTimer
  <2>2. CASE ~timer[t].enabled
    <3> DEFINE x == [timer[t] EXCEPT !.disposed = TRUE]
    <3>1. x \in TimerType /\ x.enabled = timer[t].enabled
      BY <1>1 DEF TimerType
    <3>2. Sets(t, x)
      BY <2>2, <1>5 DEF Dispose
    <3> QED BY <3>1, <3>2, SetsStep
  <2> QED BY <2>1, <2>2
<1> QED BY <1>2, <1>3, <1>4, <1>5

\* Who leaves a call gives the timer's mutex back.
LEMMA LeavesStep ==
  ASSUME IInv, NEW th \in Threads, call[th].op \in WithTimer, Leaves(th),
         Listed', timer' \in [Timers -> TimerType], minPeriod' \in Nat,
         crashed' \in BOOLEAN, UNCHANGED closed
  PROVE  IInv'
<1>1. /\ call' = [call EXCEPT ![th] = NoCall]
      /\ tlock' = [tlock EXCEPT ![call[th].timer] = NULL]
      /\ UNCHANGED <<slock, pc, current, counts, lag, sinceRound, ops>>
  BY DEF Leaves, round, clock
<1>2. NoCall = [op |-> "none", timer |-> NULL]
  BY DEF NoCall
<1>3. call[th].timer \in Timers /\ call[th].op # "close" /\ Ticker \in Threads
  BY DEF IInv, Typed, WithTimer, Threads
<1>4. Typed'
  BY <1>1, <1>2 DEF IInv, Typed, WithTimer
<1>5. Locked'
  BY <1>1, <1>2, <1>3 DEF IInv, Locked, Typed
<1> QED BY <1>4, <1>5 DEF IInv

LEMMA StartEndsStep ==
  ASSUME IInv, NEW th \in Threads, StartEnds(th)
  PROVE  IInv'
<1> DEFINE t == call[th].timer
<1>1. call[th].op \in WithTimer /\ t \in Timers /\ Leaves(th) /\ UNCHANGED crashed
  BY DEF StartEnds, Waits, WithTimer, IInv, Typed
<1>2. CASE closed \/ timer[t].interval <= 0 \/ t \in table
  <2>1. UNCHANGED <<timer, list, table, cursor, minPeriod, closed>>
    BY <1>2 DEF StartEnds, scheduler
  <2>2. Listed'
    BY <2>1, ListKept DEF IInv, Listed
  <2> QED BY <1>1, <2>1, <2>2, LeavesStep DEF IInv, Typed
<1>3. CASE ~(closed \/ timer[t].interval <= 0 \/ t \in table)
  <2>1. SchedulerStart(t) /\ UNCHANGED closed /\ t \notin table
    BY <1>3 DEF StartEnds
  <2>2. Listed' /\ minPeriod' \in Nat /\ timer' \in [Timers -> TimerType]
    BY <1>1, <2>1, SchedulerStarts DEF IInv
  <2> QED BY <1>1, <2>1, <2>2, LeavesStep DEF IInv, Typed
<1> QED BY <1>2, <1>3

LEMMA StopEndsStep ==
  ASSUME IInv, NEW th \in Threads, StopEnds(th)
  PROVE  IInv'
<1> DEFINE t == call[th].timer
           op == call[th].op
<1>1. op \in WithTimer /\ t \in Timers /\ Leaves(th)
  BY DEF StopEnds, Waits, WithTimer, IInv, Typed
<1>2. timer \in [Timers -> TimerType] /\ minPeriod \in Nat /\ crashed \in BOOLEAN
  BY DEF IInv, Typed
<1>3. CASE closed
  <2>1. /\ timer' = [timer EXCEPT ![t].disposed = @ \/ op = "dispose"]
        /\ UNCHANGED <<list, table, cursor, minPeriod, closed, crashed>>
    BY <1>3 DEF StopEnds, scheduler
  <2>2. timer' \in [Timers -> TimerType]
    BY <1>1, <1>2, <2>1 DEF TimerType
  <2>3. \A s \in Timers : timer'[s].enabled = timer[s].enabled
    BY <1>1, <1>2, <2>1 DEF TimerType
  <2>4. Listed'
    BY <2>1, <2>3, ListKept DEF IInv, Listed
  <2> QED BY <1>1, <1>2, <2>1, <2>2, <2>4, LeavesStep
<1>4. CASE ~closed /\ RemoveFaults(list, t)
  <2>1. crashed' = TRUE /\ UNCHANGED <<timer, list, table, cursor, minPeriod, closed>>
    BY <1>4 DEF StopEnds, scheduler
  <2>2. Listed'
    BY <2>1, ListKept DEF IInv, Listed
  <2> QED BY <1>1, <1>2, <2>1, <2>2, LeavesStep
<1>5. CASE ~closed /\ ~RemoveFaults(list, t)
  <2>1. /\ SchedulerStop(t) /\ UNCHANGED <<closed, crashed>>
        /\ timer' = [timer EXCEPT ![t] = Stopped(@, op)]
    BY <1>5 DEF StopEnds
  <2>2. Stopped(timer[t], op) \in TimerType /\ Stopped(timer[t], op).enabled = FALSE
    BY <1>1, <1>2 DEF Stopped, TimerType
  <2>3. /\ timer' \in [Timers -> TimerType]
        /\ \A s \in Timers : timer'[s].enabled = IF s = t THEN FALSE ELSE timer[s].enabled
    BY <1>1, <1>2, <2>1, <2>2
  <2>4. t \in table
    BY <1>1, <1>5, StaleFaults DEF IInv
  <2>5. Listed'
    BY <2>1, <2>3, <2>4, SchedulerStops DEF IInv
  <2>6. minPeriod' \in Nat
    BY <1>2, <2>1 DEF SchedulerStop
  <2> QED BY <1>1, <1>2, <2>1, <2>3, <2>5, <2>6, LeavesStep
<1> QED BY <1>3, <1>4, <1>5

-----------------------------------------------------------------------------
(* Disposal of the scheduler.                                              *)

LEMMA CloseStep ==
  ASSUME IInv, NEW u \in Users, Close(u)
  PROVE  IInv'
<1>1. /\ call[u] = NoCall /\ NoCall.op = "none" /\ slock = NULL
      /\ u \in Threads /\ u # NULL /\ u # Ticker /\ Ticker \in Threads
  BY TimersAssumption DEF Close, NoCall, Threads
<1>2. /\ slock' = u /\ cursor' = NULL /\ ops' = ops + 1
      /\ call' = [call EXCEPT ![u] = [op |-> "close", timer |-> NULL]]
      /\ UNCHANGED <<timer, list, table, minPeriod, closed, tlock, pc, current, counts,
                     lag, sinceRound, crashed>>
  BY DEF Close, round, clock
<1>3. Typed'
  BY <1>1, <1>2 DEF IInv, Typed, WithTimer
<1>4. Listed'
  BY <1>2, ListKept DEF IInv
<1>5. Locked'
  BY <1>1, <1>2 DEF IInv, Locked, Typed, WithTimer
<1> QED BY <1>3, <1>4, <1>5 DEF IInv

LEMMA CloseStopsStep ==
  ASSUME IInv, NEW th \in Threads, CloseStops(th)
  PROVE  IInv'
<1> DEFINE t == list.first
<1>1. /\ t \in table /\ t \in Timers /\ SchedulerStop(t)
      /\ timer' = [timer EXCEPT ![t].enabled = FALSE, ![t].age = NULL]
      /\ UNCHANGED <<closed, slock, tlock, pc, current, counts, lag, sinceRound,
                     call, ops, crashed>>
  BY TableOfTimers DEF CloseStops, IInv, round, clock
<1>2. /\ timer' \in [Timers -> TimerType]
      /\ \A s \in Timers : timer'[s].enabled = IF s = t THEN FALSE ELSE timer[s].enabled
  <2> DEFINE x == [timer[t] EXCEPT !.enabled = FALSE, !.age = NULL]
  <2>1. timer \in [Timers -> TimerType] /\ x \in TimerType /\ x.enabled = FALSE
    <3>1. timer \in [Timers -> TimerType] /\ t \in Timers
      BY <1>1 DEF IInv, Typed
    <3>2. timer[t] \in TimerType
      BY <3>1
    <3> QED BY <3>1, <3>2 DEF TimerType
  <2>2. timer' = [timer EXCEPT ![t] = x]
    BY <1>1, <2>1
  <2> HIDE DEF x
  <2> QED BY <1>1, <2>1, <2>2
<1>3. Listed'
  BY <1>1, <1>2, SchedulerStops DEF IInv
<1>4. minPeriod' \in Nat
  BY <1>1 DEF SchedulerStop, IInv, Typed
<1>5. Typed'
  BY <1>1, <1>2, <1>4 DEF IInv, Typed
<1>6. Locked'
  BY <1>1 DEF IInv, Locked
<1> QED BY <1>3, <1>5, <1>6 DEF IInv

LEMMA CloseEndsStep ==
  ASSUME IInv, NEW th \in Threads, CloseEnds(th)
  PROVE  IInv'
<1>1. /\ call[th].op = "close" /\ list.first = NULL /\ th # NULL /\ pc = "idle"
      /\ closed' = TRUE /\ slock' = NULL /\ list' = Clear(list, FALSE) /\ table' = {}
      /\ call' = [call EXCEPT ![th] = NoCall] /\ NoCall = [op |-> "none", timer |-> NULL]
      /\ UNCHANGED <<timer, cursor, minPeriod, tlock, pc, current, counts, lag, sinceRound,
                     ops, crashed>>
  BY TimersAssumption DEF CloseEnds, Threads, NoCall, round, clock
<1>2. PICK p : Chained(list, Timers, table, p)
  BY DEF IInv, Listed
<1>3. table = {} /\ list.count = 0 /\ list.last = NULL
  BY <1>1, <1>2, ChainedLinks, TimersAssumption
<1>4. /\ list.next = [n \in Timers |-> NULL] /\ list.prev = [n \in Timers |-> NULL]
  BY <1>2, <1>3 DEF Chained
<1>5. /\ list'.first = NULL /\ list'.last = NULL /\ list'.count = 0
      /\ list'.next = [n \in Timers |-> NULL] /\ list'.prev = [n \in Timers |-> NULL]
  BY <1>1, <1>4 DEF Clear, NodesOf
<1>6. \E q : Chained(list', Timers, table', q)
  BY <1>1, <1>5, EmptyChained, TimersAssumption
<1>7. Listed'
  BY <1>1, <1>3, <1>6 DEF IInv, Listed
<1>8. Typed'
  BY <1>1 DEF IInv, Typed, WithTimer
<1>9. Locked'
  BY <1>1 DEF IInv, Locked, Typed, WithTimer
<1> QED BY <1>7, <1>8, <1>9 DEF IInv

-----------------------------------------------------------------------------
(* The round.                                                              *)

LEMMA CursorStaysIn ==
  ASSUME Listed
  PROVE  CursorNext \in table \cup {NULL}
BY TableOfTimers DEF Listed, CursorNext, Chained

\* A step of the round that takes and gives back no mutex, and leaves what is
\* enabled as it is.
LEMMA RoundKeeps ==
  ASSUME IInv, pc # "stopping",
         timer' \in [Timers -> TimerType],
         \A t \in Timers : timer'[t].enabled = timer[t].enabled,
         UNCHANGED <<list, table, minPeriod, closed, slock, tlock, call, ops, crashed>>,
         cursor' \in table \cup {NULL},
         pc' \in {"idle", "fetch"} \cup AtTimer,
         current' \in Timers \cup {NULL}, pc' \in AtTimer => current' \in Timers,
         counts' \in Nat, lag' \in Nat, sinceRound' \in Nat
  PROVE  IInv'
<1>1. Typed'
  BY DEF IInv, Typed
<1>2. Listed'
  BY ListKept DEF IInv
<1>3. Locked'
  BY DEF IInv, Locked
<1> QED BY <1>1, <1>2, <1>3 DEF IInv

LEMMA RoundBegins ==
  ASSUME IInv, DoEvents \/ RoundEnds \/ NextTimerObject
  PROVE  IInv'
<1>1. /\ timer \in [Timers -> TimerType] /\ counts \in Nat /\ lag \in Nat /\ sinceRound \in Nat
      /\ current \in Timers \cup {NULL} /\ (pc \in AtTimer => current \in Timers)
      /\ cursor \in table \cup {NULL} /\ table \subseteq Timers /\ list.count \in Nat
      /\ CursorNext \in table \cup {NULL}
  BY CursorStaysIn, TableOfTimers DEF IInv, Typed, Listed, Chained
<1>2. CASE DoEvents
  <2>1. /\ pc = "idle" /\ pc' = "fetch" /\ counts' \in Nat /\ lag' = 0 /\ sinceRound' = 0
        /\ UNCHANGED <<timer, list, table, cursor, minPeriod, closed, slock, tlock, current,
                       call, ops, crashed>>
    BY <1>1, <1>2 DEF DoEvents, scheduler
  <2> QED BY <1>1, <2>1, RoundKeeps DEF AtTimer
<1>3. CASE RoundEnds
  <2>1. /\ pc = "fetch" /\ pc' = "idle" /\ current' = NULL /\ counts' = 0 /\ lag' = 0
        /\ UNCHANGED <<timer, list, table, cursor, minPeriod, closed, slock, tlock, sinceRound,
                       call, ops, crashed>>
    BY <1>3 DEF RoundEnds, scheduler
  <2> QED BY <1>1, <2>1, RoundKeeps DEF AtTimer
<1>4. CASE NextTimerObject
  <2>1. /\ pc = "fetch" /\ cursor' = CursorNext /\ current' = CursorNext
        /\ counts > 0 /\ counts' = counts - 1
        /\ pc' = IF CursorNext = NULL THEN "fetch" ELSE "look"
        /\ UNCHANGED <<timer, list, table, minPeriod, closed, slock, tlock, lag, sinceRound,
                       call, ops, crashed>>
    BY <1>4 DEF NextTimerObject, clock
  <2>2. counts' \in Nat
    BY <1>1, <2>1
  <2> QED BY <1>1, <2>1, <2>2, RoundKeeps DEF AtTimer
<1> QED BY <1>2, <1>3, <1>4

LEMMA RoundAtTimer ==
  ASSUME IInv,
         \/ Look \/ JudgeOff \/ JudgeDue \/ JudgeEarly \/ DoTick \/ CallbackEnds
         \/ StaleStop /\ closed
  PROVE  IInv'
<1>1. /\ timer \in [Timers -> TimerType] /\ counts \in Nat /\ lag \in Nat /\ sinceRound \in Nat
      /\ current \in Timers \cup {NULL} /\ (pc \in AtTimer => current \in Timers)
      /\ cursor \in table \cup {NULL}
  BY DEF IInv, Typed, Listed
<1>2. /\ pc \in AtTimer \ {"stopping"}
      /\ pc' \in {"fetch", "judge", "ask", "callback", "stop"}
      /\ UNCHANGED <<list, table, cursor, minPeriod, closed, slock, tlock, current, counts,
                     lag, sinceRound, call, ops, crashed>>
  BY DEF Look, JudgeOff, JudgeDue, JudgeEarly, DoTick, CallbackEnds, StaleStop, Goes,
         scheduler, clock, AtTimer
<1>3. \/ UNCHANGED timer
      \/ \E a \in Nat \cup {NULL} : timer' = [timer EXCEPT ![current].age = a]
  <2>1. CASE Look
    <3>1. (IF timer[current].age = NULL THEN lag ELSE timer[current].age) \in Nat \cup {NULL}
      BY <1>1, <1>2 DEF TimerType
    <3> QED BY <2>1, <3>1 DEF Look
  <2>2. CASE JudgeDue
    BY <2>2, <1>1 DEF JudgeDue
  <2> QED BY <2>1, <2>2 DEF JudgeOff, JudgeEarly, DoTick, CallbackEnds, StaleStop
<1>4. /\ timer' \in [Timers -> TimerType]
      /\ \A t \in Timers : timer'[t].enabled = timer[t].enabled
  BY <1>1, <1>2, <1>3 DEF TimerType
<1>5. current' \in Timers /\ pc # "stopping" /\ pc' \in {"idle", "fetch"} \cup AtTimer
  BY <1>1, <1>2 DEF AtTimer
<1> QED BY <1>1, <1>2, <1>4, <1>5, RoundKeeps

\* A stale stop takes the scheduler's mutex before the timer's.
LEMMA StaleStopStep ==
  ASSUME IInv, StaleStop, ~closed
  PROVE  IInv'
<1>1. /\ pc = "stop" /\ pc' = "stopping" /\ slock' = Ticker
      /\ UNCHANGED <<timer, list, table, cursor, minPeriod, closed, tlock, current, counts,
                     lag, sinceRound, call, ops, crashed>>
  BY DEF StaleStop, Goes, scheduler, clock
<1>2. Typed'
  BY <1>1 DEF IInv, Typed, AtTimer, Threads
<1>3. Listed'
  BY <1>1, ListKept DEF IInv, Listed
<1>4. Locked'
  BY <1>1 DEF IInv, Locked
<1> QED BY <1>2, <1>3, <1>4 DEF IInv

LEMMA StaleStopEndsStep ==
  ASSUME IInv, StaleStopEnds
  PROVE  IInv'
<1>1. /\ pc = "stopping" /\ slock' = NULL /\ pc' = "fetch" /\ current \in Timers
      /\ UNCHANGED <<tlock, current, counts, lag, sinceRound, call, ops>>
  BY DEF StaleStopEnds, clock, IInv, Typed, AtTimer
<1>2. timer \in [Timers -> TimerType] /\ minPeriod \in Nat /\ closed \in BOOLEAN /\ crashed \in BOOLEAN
  BY DEF IInv, Typed
<1>3. /\ Listed' /\ timer' \in [Timers -> TimerType] /\ minPeriod' \in Nat
      /\ closed' \in BOOLEAN /\ crashed' \in BOOLEAN
  <2>1. CASE RemoveFaults(list, current)
    <3>1. crashed' = TRUE /\ UNCHANGED <<timer, list, table, cursor, minPeriod, closed>>
      BY <2>1 DEF StaleStopEnds, scheduler
    <3>2. Listed'
      BY <3>1, ListKept DEF IInv, Listed
    <3> QED BY <3>1, <3>2, <1>2
  <2>2. CASE ~RemoveFaults(list, current)
    <3>1. /\ SchedulerStop(current) /\ UNCHANGED <<closed, crashed>>
          /\ timer' = [timer EXCEPT ![current].enabled = FALSE, ![current].age = NULL]
      BY <2>2 DEF StaleStopEnds
    <3>2. current \in table
      BY <2>2, <1>1, StaleFaults DEF IInv
    <3>3. /\ timer' \in [Timers -> TimerType]
          /\ \A s \in Timers :
               timer'[s].enabled = IF s = current THEN FALSE ELSE timer[s].enabled
      BY <1>1, <1>2, <3>1 DEF TimerType
    <3>4. Listed'
      BY <3>1, <3>2, <3>3, SchedulerStops DEF IInv
    <3>5. minPeriod' \in Nat
      BY <1>2, <3>1 DEF SchedulerStop
    <3> QED BY <1>2, <3>1, <3>3, <3>4, <3>5
  <2> QED BY <2>1, <2>2
<1>4. Typed'
  BY <1>1, <1>3 DEF IInv, Typed, AtTimer
<1>5. Locked'
  BY <1>1 DEF IInv, Locked
<1> QED BY <1>3, <1>4, <1>5 DEF IInv

LEMMA ElapseStep ==
  ASSUME IInv, Elapse
  PROVE  IInv'
<1>1. /\ timer' = [t \in Timers |->
                     [timer[t] EXCEPT !.age = IF @ = NULL THEN @ ELSE Older(@, MaxAge)]]
      /\ lag' \in Nat /\ sinceRound' \in Nat
      /\ UNCHANGED <<list, table, cursor, minPeriod, closed, slock, tlock, pc, current,
                     counts, call, ops, crashed>>
  BY DEF Elapse, Older, scheduler, round, IInv, Typed
<1>2. \A t \in Timers : timer[t] \in TimerType
  BY DEF IInv, Typed
<1>3. \A t \in Timers :
       /\ timer'[t] = [timer[t] EXCEPT !.age = IF @ = NULL THEN @ ELSE Older(@, MaxAge)]
       /\ timer'[t] \in TimerType /\ timer'[t].enabled = timer[t].enabled
  BY <1>1, <1>2 DEF TimerType, Older
<1>4. timer' \in [Timers -> TimerType]
  <2>1. timer' = [t \in Timers |-> timer'[t]]
    BY <1>1
  <2> QED BY <1>3, <2>1
<1>5. Typed'
  BY <1>1, <1>4 DEF IInv, Typed
<1>6. Listed'
  BY <1>1, <1>3, ListKept DEF IInv, Listed
<1>7. Locked'
  BY <1>1 DEF IInv, Locked
<1> QED BY <1>5, <1>6, <1>7 DEF IInv

-----------------------------------------------------------------------------
LEMMA InitIInv == Init => IInv
<1> SUFFICES ASSUME Init PROVE IInv
  OBVIOUS
<1>1. PICK given \in [Timers -> Intervals \ {0}] :
        timer = [t \in Timers |-> [enabled |-> FALSE, disposed |-> FALSE,
                                    interval |-> given[t], age |-> NULL]]
  BY Zenon DEF Init
<1>2. /\ list = EmptyList(Timers) /\ table = {} /\ cursor = NULL
      /\ minPeriod = 1 /\ closed = FALSE
      /\ slock = NULL /\ tlock = [t \in Timers |-> NULL]
      /\ pc = "idle" /\ current = NULL /\ counts = 0 /\ lag = 0 /\ sinceRound = 0
      /\ call = [th \in Threads |-> [op |-> "none", timer |-> NULL]]
      /\ ops = 0 /\ crashed = FALSE
  BY DEF Init, NoCall
<1>3. timer \in [Timers -> TimerType] /\ \A t \in Timers : timer[t].enabled = FALSE
  <2>1. \A t \in Timers : given[t] \in Nat
    BY TimersAssumption
  <2>2. \A t \in Timers : [enabled |-> FALSE, disposed |-> FALSE,
                          interval |-> given[t], age |-> NULL] \in TimerType
    BY <2>1 DEF TimerType
  <2>3. timer \in [Timers -> TimerType]
    BY <1>1, <2>2, Zenon
  <2>4. \A t \in Timers : timer[t].enabled = FALSE
    BY <1>1
  <2> QED BY <2>3, <2>4
<1>4. Typed
  <2>1. /\ slock \in Threads \cup {NULL} /\ tlock \in [Timers -> Threads \cup {NULL}]
        /\ call \in [Threads -> [op : WithTimer \cup {"close", "none"}, timer : Timers \cup {NULL}]]
        /\ \A th \in Threads : call[th].op = "none"
    BY <1>2
  <2> QED BY <1>2, <1>3, <2>1 DEF Typed, AtTimer, WithTimer
<1>6. Listed
  <2>1. /\ list.first = NULL /\ list.last = NULL /\ list.count = 0
        /\ list.next = [n \in Timers |-> NULL] /\ list.prev = [n \in Timers |-> NULL]
    BY <1>2 DEF EmptyList
  <2>2. \E p : Chained(list, Timers, {}, p)
    BY <2>1, EmptyChained, TimersAssumption, Zenon
  <2>3. table = {}
    BY <1>2
  <2> QED BY <1>2, <1>3, <2>2, <2>3 DEF Listed
<1>5. Locked
  BY <1>2 DEF Locked, Threads
<1> QED BY <1>4, <1>5, <1>6 DEF IInv

LEMMA StepIInv == IInv /\ [Next]_vars => IInv'
<1> SUFFICES ASSUME IInv, [Next]_vars PROVE IInv'
  OBVIOUS
<1>1. ASSUME NEW th \in Threads, Call(th) PROVE IInv'
  BY <1>1, CallStep
<1>2. ASSUME NEW th \in Threads, Return(th) PROVE IInv'
  BY <1>2, StartEndsStep, StopEndsStep, CloseStopsStep, CloseEndsStep DEF Return
<1>3. ASSUME NEW u \in Users, Close(u) PROVE IInv'
  BY <1>3, CloseStep
<1>4. CASE Round
  BY <1>4, RoundBegins, RoundAtTimer, StaleStopStep, StaleStopEndsStep DEF Round
<1>5. CASE Elapse
  BY <1>5, ElapseStep
<1>6. CASE UNCHANGED vars
  BY <1>6 DEF vars, scheduler, round, clock, IInv, Typed, Listed, Locked
<1> QED BY <1>1, <1>2, <1>3, <1>4, <1>5, <1>6 DEF Next

LEMMA Invariance == Spec => []IInv
<1> QED BY InitIInv, StepIInv, PTL DEF Spec

\* Every variable keeps its type, and a round that is at a timer has one, for
\* any timers, threads and intervals.
THEOREM TimerTypes == Spec => []Typed
<1>1. IInv => Typed
  BY DEF IInv
<1> QED BY <1>1, Invariance, PTL

\* List, table, cursor and flags stay in step whatever threads and callbacks
\* start, stop and dispose: TimerScheduler's and LinkedList's links.
THEOREM StaysInStep == Spec => []InStep
<1>1. ASSUME IInv PROVE InStep
  <2>1. PICK p : Chained(list, Timers, table, p)
    BY <1>1 DEF IInv, Listed
  <2>2. /\ \A t \in table : /\ p[t] = 1 <=> t = list.first
                            /\ p[t] = list.count <=> t = list.last
        /\ \A s, t \in table : /\ list.next[s] = t <=> p[t] = p[s] + 1
                               /\ list.prev[t] = s <=> p[t] = p[s] + 1
    BY <2>1, ChainedLinks, TimersAssumption
  <2>3. /\ p \in [table -> 1 .. list.count]
        /\ \A i \in 1 .. list.count : \E t \in table : p[t] = i
        /\ \A s, t \in table : p[s] = p[t] => s = t
    BY <2>1 DEF Chained
  <2>4. cursor \in table \cup {NULL} /\ \A t \in Timers : timer[t].enabled <=> t \in table
    BY <1>1 DEF IInv, Listed
  <2>5. \E place \in [table -> 1 .. list.count] :
          /\ \A i \in 1 .. list.count : \E t \in table : place[t] = i
          /\ \A t \in table : /\ place[t] = 1 <=> t = list.first
                              /\ place[t] = list.count <=> t = list.last
          /\ \A s, t \in table : /\ place[s] = place[t] => s = t
                                 /\ list.next[s] = t <=> place[t] = place[s] + 1
                                 /\ list.prev[t] = s <=> place[t] = place[s] + 1
    BY <2>2, <2>3
  <2> QED BY <2>4, <2>5 DEF InStep
<1> QED BY <1>1, Invariance, PTL

\* Two threads come to wait for each other at a stale stop of the timer one of
\* them is calling, or when the scheduler is being disposed, and never else.
THEOREM StuckNowhereElse == Spec => []StuckOnlyAtStaleStop
<1>1. ASSUME IInv PROVE StuckOnlyAtStaleStop
  <2> SUFFICES ASSUME NEW a \in Threads, NEW b \in Threads, a # b,
                      WaitsFor(a, b), WaitsFor(b, a),
                      \A u \in Users : call[u].op # "close"
               PROVE  pc = "stopping" /\ \E u \in Users : call[u].timer = current
    BY DEF StuckOnlyAtStaleStop, Stuck
  <2>1. \A th \in Threads : call[th].op # "close" /\ th # NULL
    BY <1>1, TimersAssumption DEF IInv, Locked, Threads
  <2>2. slock # NULL => slock = Ticker /\ pc = "stopping"
    BY <1>1, <2>1 DEF IInv, Locked, Typed
  <2>3. ASSUME NEW c \in Users, NEW d \in Threads, c # d, WaitsFor(c, d), WaitsFor(d, c)
        PROVE  pc = "stopping" /\ call[c].timer = current
    <3>1. c # Ticker /\ c \in Threads
      BY TimersAssumption DEF Threads
    <3>2. slock = d /\ d = Ticker /\ pc = "stopping"
      BY <2>1, <2>2, <2>3, <3>1 DEF WaitsFor
    <3>3. tlock[current] = c /\ current \in Timers
      BY <1>1, <2>1, <2>3, <3>1, <3>2 DEF WaitsFor, IInv, Typed, AtTimer
    <3> QED BY <1>1, <2>1, <3>1, <3>2, <3>3 DEF IInv, Locked
  <2> QED BY <2>3 DEF Threads
<1> QED BY <1>1, Invariance, PTL

-----------------------------------------------------------------------------
(* The nodes in order.                                                     *)

\* The node at the i-th place, and the nodes up to it.
NodeAt(T, p, i) == CHOOSE t \in T : p[t] = i
Upto(T, p, n) == [i \in 1 .. n |-> NodeAt(T, p, i)]

\* Walk takes one step with the nodes s behind it, and all steps up to k.
Onward(l, s, j) ==
  LET n == IF s = <<>> THEN l.first ELSE l.next[s[Len(s)]]
  IN  IF Len(s) < j - 1 \/ n = NULL THEN s ELSE Append(s, n)
IsWalk(w, l, k) ==
  w = [j \in 0 .. k |-> IF j = 0 THEN <<>> ELSE Onward(l, w[j - 1], j)]

LEMMA LeastOf ==
  ASSUME NEW S, S \subseteq Nat, S # {}
  PROVE  \E j \in S : \A i \in S : ~(i < j)
<1> DEFINE R == {ij \in Nat \X Nat : ij[1] < ij[2]}
<1>1. IsWellFoundedOn(R, Nat)
  BY NatLessThanWellFounded DEF OpToRel
<1>2. \A i, j \in Nat : i < j => <<i, j>> \in R
  OBVIOUS
<1> HIDE DEF R
<1>3. \E j \in S : \A i \in S : ~(<<i, j>> \in R)
  BY <1>1, WFMin
<1> QED BY <1>2, <1>3

LEMMA StepsWalk ==
  ASSUME NEW l, NEW k
  PROVE  Steps(l, k) = (CHOOSE w : IsWalk(w, l, k))[k]
BY DEF Steps, IsWalk, Onward

LEMMA NodesPlaced ==
  ASSUME NEW N, NULL \notin N, NEW l, NEW T, NEW p, Chained(l, N, T, p)
  PROVE  /\ \A i \in 1 .. l.count : NodeAt(T, p, i) \in T /\ p[NodeAt(T, p, i)] = i
         /\ \A t \in T : NodeAt(T, p, p[t]) = t /\ p[t] \in 1 .. l.count
         /\ l.count \in Nat
<1>1. ASSUME NEW i \in 1 .. l.count
      PROVE  NodeAt(T, p, i) \in T /\ p[NodeAt(T, p, i)] = i
  <2>1. \E t \in T : p[t] = i
    BY DEF Chained
  <2> QED BY <2>1 DEF NodeAt
<1>2. ASSUME NEW t \in T
      PROVE  NodeAt(T, p, p[t]) = t /\ p[t] \in 1 .. l.count
  <2>1. p[t] \in 1 .. l.count
    BY DEF Chained
  <2> QED BY <2>1, <1>1 DEF Chained
<1> QED BY <1>1, <1>2 DEF Chained

LEMMA UptoSeq ==
  ASSUME NEW T, NEW p, NEW n \in Nat
  PROVE  /\ Upto(T, p, n) \in Seq({NodeAt(T, p, i) : i \in 1 .. n})
         /\ Len(Upto(T, p, n)) = n
         /\ Upto(T, p, n) = <<>> <=> n = 0
         /\ \A i \in 1 .. n : Upto(T, p, n)[i] = NodeAt(T, p, i)
<1> DEFINE s == Upto(T, p, n)
           S == {NodeAt(T, p, i) : i \in 1 .. n}
<1>1. DOMAIN s = 1 .. n /\ \A i \in 1 .. n : s[i] = NodeAt(T, p, i) /\ NodeAt(T, p, i) \in S
  BY DEF Upto
<1>2. s \in [1 .. n -> S]
  BY DEF Upto
<1> HIDE DEF S, s
<1>3. s \in Seq(S) /\ Len(s) = n
  BY <1>1, <1>2
<1>4. s = <<>> <=> n = 0
  BY <1>3, EmptySeq
<1> QED BY <1>1, <1>3, <1>4 DEF s, S

\* A step from the first j - 1 nodes leads to the first j.
LEMMA OnwardUpto ==
  ASSUME NEW N, NULL \notin N, NEW l, NEW T, NEW p, Chained(l, N, T, p),
         NEW j \in 1 .. l.count
  PROVE  Onward(l, Upto(T, p, j - 1), j) = Upto(T, p, j)
<1> DEFINE s == Upto(T, p, j - 1)
           n == NodeAt(T, p, j)
           next == IF s = <<>> THEN l.first ELSE l.next[s[Len(s)]]
<1>1. /\ n \in T /\ p[n] = j /\ n # NULL /\ j - 1 \in Nat /\ l.count \in Nat
      /\ j - 1 # 0 => j - 1 \in 1 .. l.count
  BY NodesPlaced DEF Chained
<1>2. Len(s) = j - 1 /\ (s = <<>> <=> j - 1 = 0) /\ \A i \in 1 .. j - 1 : s[i] = NodeAt(T, p, i)
  BY <1>1, UptoSeq
<1>3. next = n
  <2>1. CASE j = 1
    <3>1. next = l.first
      BY <2>1, <1>2
    <3>2. l.first = n
      BY <2>1, <1>1, ChainedLinks
    <3> QED BY <3>1, <3>2
  <2>2. CASE j # 1
    <3> DEFINE m == NodeAt(T, p, j - 1)
    <3>1. m \in T /\ p[m] = j - 1
      BY <2>2, <1>1, NodesPlaced
    <3>2. s[Len(s)] = m /\ s # <<>>
      BY <2>2, <1>1, <1>2
    <3>3. l.next[m] = n
      BY <1>1, <3>1, ChainedLinks
    <3> HIDE DEF m, s, n
    <3> QED BY <3>2, <3>3
  <2> QED BY <2>1, <2>2
<1>4. Append(s, n) = Upto(T, p, j)
  <2>1. s \in Seq({NodeAt(T, p, i) : i \in 1 .. j - 1})
    BY <1>1, UptoSeq
  <2>2. Append(s, n) = [i \in 1 .. j |-> IF i = j THEN n ELSE s[i]]
    BY <1>1, <1>2, <2>1
  <2>3. \A i \in 1 .. j : (IF i = j THEN n ELSE s[i]) = NodeAt(T, p, i)
    BY <1>1, <1>2
  <2> QED BY <2>2, <2>3 DEF Upto
<1>5. Onward(l, s, j) = IF Len(s) < j - 1 \/ next = NULL THEN s ELSE Append(s, next)
  BY DEF Onward
<1> HIDE DEF s, n, next
<1>6. Onward(l, s, j) = Upto(T, p, j)
  BY <1>1, <1>2, <1>3, <1>4, <1>5
<1> QED BY <1>6 DEF s

\* Behind the last node there is nothing more.
LEMMA OnwardEnds ==
  ASSUME NEW N, NULL \notin N, NEW l, NEW T, NEW p, Chained(l, N, T, p),
         NEW j \in Nat, l.count < j
  PROVE  Onward(l, Upto(T, p, l.count), j) = Upto(T, p, l.count)
<1> DEFINE s == Upto(T, p, l.count)
           next == IF s = <<>> THEN l.first ELSE l.next[s[Len(s)]]
<1>1. l.count \in Nat
  BY DEF Chained
<1>2. Len(s) = l.count /\ (s = <<>> <=> l.count = 0)
      /\ \A i \in 1 .. l.count : s[i] = NodeAt(T, p, i)
  BY <1>1, UptoSeq
<1>3. next = NULL
  <2>1. CASE l.count = 0
    <3>1. l.first = NULL
      BY <2>1, ChainedLinks
    <3> QED BY <3>1, <2>1, <1>2
  <2>2. CASE l.count # 0
    <3> DEFINE m == NodeAt(T, p, l.count)
    <3>1. m \in T /\ p[m] = l.count
      BY <2>2, <1>1, NodesPlaced
    <3>2. m = l.last
      BY <3>1, ChainedLinks
    <3>3. l.next[m] = NULL
      BY <3>1, <3>2, Neighbours
    <3>4. s[Len(s)] = m /\ s # <<>>
      BY <2>2, <1>1, <1>2
    <3> HIDE DEF m, s
    <3> QED BY <3>3, <3>4
  <2> QED BY <2>1, <2>2
<1>4. Onward(l, s, j) = IF Len(s) < j - 1 \/ next = NULL THEN s ELSE Append(s, next)
  BY DEF Onward
<1> HIDE DEF s, next
<1>5. Onward(l, s, j) = s
  BY <1>3, <1>4
<1> QED BY <1>5 DEF s

LEMMA StepsIsUpto ==
  ASSUME NEW N, NULL \notin N, NEW l, NEW T, NEW p, Chained(l, N, T, p),
         NEW k \in Nat, l.count <= k
  PROVE  Steps(l, k) = Upto(T, p, l.count)
<1> DEFINE Most(j) == IF j <= l.count THEN j ELSE l.count
           g == [j \in 0 .. k |-> Upto(T, p, Most(j))]
           w == CHOOSE w : IsWalk(w, l, k)
<1>1. l.count \in Nat
  BY DEF Chained
<1>2. Upto(T, p, 0) = <<>>
  BY UptoSeq
<1>3. ASSUME NEW j \in 1 .. k
      PROVE  Onward(l, Upto(T, p, Most(j - 1)), j) = Upto(T, p, Most(j))
  <2>1. CASE j <= l.count
    <3>1. j \in 1 .. l.count /\ j - 1 <= l.count
      BY <2>1, <1>1
    <3> QED BY <3>1, <2>1, OnwardUpto
  <2>2. CASE ~(j <= l.count)
    <3>1. Most(j - 1) = l.count /\ Most(j) = l.count /\ j \in Nat /\ l.count < j
      BY <2>2, <1>1
    <3> QED BY <3>1, OnwardEnds
  <2> QED BY <2>1, <2>2
<1>4. Most(0) = 0 /\ Most(k) = l.count
  BY <1>1
<1> HIDE DEF Most
<1>5. IsWalk(g, l, k)
  <2>1. ASSUME NEW j \in 0 .. k
        PROVE  Upto(T, p, Most(j)) = IF j = 0 THEN <<>> ELSE Onward(l, g[j - 1], j)
    <3>1. CASE j = 0
      BY <3>1, <1>2, <1>4
    <3>2. CASE j # 0
      <4>1. j \in 1 .. k /\ j - 1 \in 0 .. k
        BY <3>2
      <4>2. g[j - 1] = Upto(T, p, Most(j - 1))
        BY <4>1
      <4> HIDE DEF g
      <4> QED BY <3>2, <4>1, <4>2, <1>3
    <3> QED BY <3>1, <3>2
  <2> QED BY <2>1, Zenon DEF IsWalk
<1> HIDE DEF g
<1>6. IsWalk(w, l, k)
  BY <1>5
<1> HIDE DEF w
<1>7. \A j \in 0 .. k : w[j] = IF j = 0 THEN <<>> ELSE Onward(l, w[j - 1], j)
  BY <1>6 DEF IsWalk
<1>8. \A j \in 0 .. k : w[j] = Upto(T, p, Most(j))
  <2> DEFINE Odd == {j \in 0 .. k : w[j] # Upto(T, p, Most(j))}
  <2> SUFFICES ASSUME Odd # {} PROVE FALSE
    OBVIOUS
  <2>1. Odd \subseteq Nat
    OBVIOUS
  <2>2. \E j \in Odd : \A i \in Odd : ~(i < j)
    <3> HIDE DEF Odd
    <3> QED BY <2>1, LeastOf
  <2>3. PICK j \in Odd : \A i \in Odd : ~(i < j)
    BY <2>2
  <2>4. j \in 0 .. k /\ w[j] # Upto(T, p, Most(j))
    OBVIOUS
  <2>5. CASE j = 0
    BY <2>4, <2>5, <1>2, <1>4, <1>7
  <2>6. CASE j # 0
    <3>1. j - 1 \in 0 .. k /\ j - 1 \notin Odd /\ j \in 1 .. k
      BY <2>3, <2>4, <2>6
    <3>2. w[j - 1] = Upto(T, p, Most(j - 1))
      BY <3>1
    <3> QED BY <2>4, <2>6, <3>1, <3>2, <1>3, <1>7
  <2> QED BY <2>5, <2>6
<1>9. Steps(l, k) = w[k]
  BY StepsWalk DEF w
<1>10. k \in 0 .. k
  OBVIOUS
<1> QED BY <1>4, <1>8, <1>9, <1>10

LEMMA WalkIsUpto ==
  ASSUME NEW N, NULL \notin N, NEW l, NEW T, NEW p, Chained(l, N, T, p)
  PROVE  Walk(l) = Upto(T, p, l.count)
<1>1. l.count \in Nat /\ l.count <= l.count
  BY DEF Chained
<1> QED BY <1>1, StepsIsUpto DEF Walk

-----------------------------------------------------------------------------
(* The abstract queue.                                                     *)

\* s without its i-th element.
Cut(s, i) == SubSeq(s, 1, i - 1) \o SubSeq(s, i + 1, Len(s))

LEMMA CutNth ==
  ASSUME NEW S, NEW s \in Seq(S), NEW i \in 1 .. Len(s)
  PROVE  Cut(s, i) = [j \in 1 .. Len(s) - 1 |-> IF j < i THEN s[j] ELSE s[j + 1]]
<1> DEFINE a == SubSeq(s, 1, i - 1)
           b == SubSeq(s, i + 1, Len(s))
<1>1. Len(s) \in Nat /\ i \in Int /\ 1 <= i /\ i <= Len(s)
  OBVIOUS
<1>2. a \in Seq(S) /\ Len(a) = i - 1 /\ \A j \in 1 .. i - 1 : a[j] = s[j]
  BY <1>1
<1>3. b \in Seq(S) /\ Len(b) = Len(s) - i /\ \A j \in 1 .. Len(s) - i : b[j] = s[i + j]
  BY <1>1
<1>4. Cut(s, i) = a \o b
  BY DEF Cut
<1> HIDE DEF a, b
<1> DEFINE c == a \o b
<1>5. /\ c \in Seq(S) /\ Len(c) = Len(a) + Len(b)
      /\ \A j \in 1 .. Len(a) + Len(b) : c[j] = IF j <= Len(a) THEN a[j] ELSE b[j - Len(a)]
  BY <1>2, <1>3, ConcatProperties
<1> HIDE DEF c
<1>6. Len(a) + Len(b) = Len(s) - 1
  BY <1>1, <1>2, <1>3
<1>7. ASSUME NEW j \in 1 .. Len(s) - 1
      PROVE  (IF j <= i - 1 THEN a[j] ELSE b[j - (i - 1)]) = IF j < i THEN s[j] ELSE s[j + 1]
  <2>1. CASE j < i
    <3>1. j \in 1 .. i - 1 /\ j <= i - 1
      BY <2>1, <1>1
    <3> QED BY <3>1, <2>1, <1>2
  <2>2. CASE ~(j < i)
    <3>1. ~(j <= i - 1) /\ j - (i - 1) \in 1 .. Len(s) - i /\ i + (j - (i - 1)) = j + 1
      BY <2>2, <1>1
    <3> QED BY <3>1, <2>2, <1>3
  <2> QED BY <2>1, <2>2
<1>8. c = [j \in 1 .. Len(s) - 1 |-> c[j]]
  BY <1>5, <1>6
<1>9. \A j \in 1 .. Len(s) - 1 : c[j] = IF j < i THEN s[j] ELSE s[j + 1]
  BY <1>2, <1>5, <1>6, <1>7
<1> QED BY <1>4, <1>8, <1>9 DEF c

\* The walk of a list as a sequence of its nodes.
LEMMA WalkSeq ==
  ASSUME NEW N, NULL \notin N, NEW l, NEW T, NEW p, Chained(l, N, T, p)
  PROVE  /\ Walk(l) \in Seq(T) /\ Len(Walk(l)) = l.count /\ l.count \in Nat
         /\ \A i \in 1 .. l.count : Walk(l)[i] \in T /\ p[Walk(l)[i]] = i
         /\ \A t \in T : p[t] \in 1 .. l.count /\ Walk(l)[p[t]] = t
<1>1. Walk(l) = Upto(T, p, l.count) /\ l.count \in Nat
  BY WalkIsUpto, NodesPlaced
<1>2. /\ Upto(T, p, l.count) \in Seq({NodeAt(T, p, i) : i \in 1 .. l.count})
      /\ Len(Upto(T, p, l.count)) = l.count
      /\ \A i \in 1 .. l.count : Upto(T, p, l.count)[i] = NodeAt(T, p, i)
  BY <1>1, UptoSeq
<1>3. /\ \A i \in 1 .. l.count : NodeAt(T, p, i) \in T /\ p[NodeAt(T, p, i)] = i
      /\ \A t \in T : NodeAt(T, p, p[t]) = t /\ p[t] \in 1 .. l.count
  BY NodesPlaced
<1>4. Upto(T, p, l.count) \in Seq(T)
  <2>1. {NodeAt(T, p, i) : i \in 1 .. l.count} \subseteq T
    BY <1>3
  <2> QED BY <1>2, <2>1
<1> QED BY <1>1, <1>2, <1>3, <1>4

LEMMA EmptyWalk ==
  ASSUME NEW N, NULL \notin N, NEW l, NEW p, Chained(l, N, {}, p)
  PROVE  Walk(l) = <<>>
<1>1. l.count = 0
  BY ChainedLinks
<1>2. Walk(l) \in Seq({}) /\ Len(Walk(l)) = 0
  BY <1>1, WalkSeq
<1> QED BY <1>2, EmptySeq

LEMMA WalkAddLast ==
  ASSUME NEW N, NULL \notin N, NEW l, NEW T, NEW p, Chained(l, N, T, p),
         NEW t \in N, t \notin T
  PROVE  Walk(AddLast(l, t)) = Append(Walk(l), t)
<1> DEFINE k == AddLast(l, t)
           q == PlacedLast(l, T, p, t)
           v == Walk(l)
           w == Walk(k)
<1>1. Chained(k, N, T \cup {t}, q)
  BY AddLastChained
<1>2. k.count = l.count + 1
  BY AddLastLinks DEF Longer
<1>3. /\ v \in Seq(T) /\ Len(v) = l.count /\ l.count \in Nat
      /\ \A i \in 1 .. l.count : v[i] \in T /\ p[v[i]] = i
  BY WalkSeq
<1> HIDE DEF k
<1>4. /\ w \in Seq(T \cup {t}) /\ Len(w) = l.count + 1
      /\ \A s \in T \cup {t} : q[s] \in 1 .. l.count + 1 /\ w[q[s]] = s
  BY <1>1, <1>2, WalkSeq
<1>5. q[t] = l.count + 1 /\ \A s \in T : q[s] = p[s]
  BY DEF PlacedLast
<1> HIDE DEF q, v, w
<1>6. \A i \in 1 .. l.count : w[i] = v[i]
  BY <1>3, <1>4, <1>5
<1>7. w[l.count + 1] = t
  BY <1>4, <1>5
<1>8. v \in Seq(T \cup {t})
  BY <1>3
<1>9. Append(v, t) \in Seq(T \cup {t}) /\ Len(Append(v, t)) = l.count + 1
  BY <1>3, <1>8
<1>10. \A i \in 1 .. l.count + 1 : Append(v, t)[i] = w[i]
  BY <1>3, <1>6, <1>7, <1>8
<1>11. w = Append(v, t)
  BY <1>4, <1>9, <1>10, SeqEqual
<1> QED BY <1>11 DEF w, k, v

LEMMA WalkRemove ==
  ASSUME NEW N, NULL \notin N, NEW l, NEW T, NEW p, Chained(l, N, T, p), NEW t \in T,
         NEW k, Shorter(k, l, N, T, t)
  PROVE  Walk(k) = Cut(Walk(l), p[t])
<1> DEFINE q == PlacedWithout(T, p, t)
           v == Walk(l)
           w == Walk(k)
           r == [j \in 1 .. Len(v) - 1 |-> IF j < p[t] THEN v[j] ELSE v[j + 1]]
<1>1. Chained(k, N, T \ {t}, q)
  BY RemoveChained
<1>2. k.count = l.count - 1
  BY DEF Shorter
<1>3. /\ v \in Seq(T) /\ Len(v) = l.count /\ l.count \in Nat /\ p[t] \in 1 .. l.count
      /\ \A i \in 1 .. l.count : v[i] \in T /\ p[v[i]] = i
  BY WalkSeq
<1>4. /\ w \in Seq(T \ {t}) /\ Len(w) = l.count - 1 /\ l.count - 1 \in Nat
      /\ \A s \in T \ {t} : q[s] \in 1 .. l.count - 1 /\ w[q[s]] = s
  BY <1>1, <1>2, WalkSeq
<1>5. \A s \in T \ {t} : q[s] = IF p[s] > p[t] THEN p[s] - 1 ELSE p[s]
  BY DEF PlacedWithout
<1>6. Cut(v, p[t]) = r
  BY <1>3, CutNth
<1> HIDE DEF q, v, w
<1>7. ASSUME NEW j \in 1 .. l.count - 1
      PROVE  w[j] = IF j < p[t] THEN v[j] ELSE v[j + 1]
  <2>1. CASE j < p[t]
    <3>1. v[j] \in T \ {t} /\ p[v[j]] = j
      BY <2>1, <1>3
    <3>2. q[v[j]] = j
      BY <2>1, <3>1, <1>3, <1>5
    <3> QED BY <2>1, <3>1, <3>2, <1>4
  <2>2. CASE ~(j < p[t])
    <3>1. v[j + 1] \in T \ {t} /\ p[v[j + 1]] = j + 1
      BY <2>2, <1>3
    <3>2. q[v[j + 1]] = j
      BY <2>2, <3>1, <1>3, <1>5, SMTT(20)
    <3> QED BY <2>2, <3>1, <3>2, <1>4
  <2> QED BY <2>1, <2>2
<1>8. w = [j \in 1 .. l.count - 1 |-> w[j]]
  BY <1>4
<1>9. w = r
  BY <1>3, <1>7, <1>8
<1> QED BY <1>6, <1>9 DEF v, w

\* Stopping a timer takes it out of the queue, and the cursor goes on behind it.
LEMMA StopQueued ==
  ASSUME Listed, NEW t \in table, SchedulerStop(t)
  PROVE  /\ \E i \in DOMAIN Walk(list) : Walk(list)[i] = t /\ Queue!Stop(i)
         /\ table' # {} => UNCHANGED minPeriod
<1> DEFINE v == Walk(list)
<1>1. PICK p : Chained(list, Timers, table, p)
  BY DEF Listed
<1>2. /\ list' = Unlinked(Remove(list, t), t) /\ table' = table \ {t}
      /\ Remove(list, t).count = list'.count
      /\ cursor' = IF Remove(list, t).count <= 0 \/ table \ {t} = {} THEN NULL
                   ELSE CursorBehind(t)
      /\ minPeriod' = IF Remove(list, t).count <= 0 \/ table \ {t} = {} THEN 0 ELSE minPeriod
  BY DEF SchedulerStop, Unlinked
<1>3. Shorter(list', list, Timers, table, t)
  BY <1>1, <1>2, RemoveLinks, TimersAssumption
<1>4. Walk(list') = Cut(v, p[t])
  BY <1>1, <1>3, WalkRemove, TimersAssumption
<1>5. /\ v \in Seq(table) /\ Len(v) = list.count /\ list.count \in Nat
      /\ \A i \in 1 .. list.count : v[i] \in table /\ p[v[i]] = i
      /\ \A s \in table : p[s] \in 1 .. list.count /\ v[p[s]] = s
  BY <1>1, WalkSeq, TimersAssumption
<1>6. /\ list'.count = list.count - 1
      /\ Chained(list', Timers, table \ {t}, PlacedWithout(table, p, t))
  BY <1>1, <1>2, <1>3, RemoveChained, TimersAssumption DEF Shorter
<1>7. list.count - 1 = 0 <=> table \ {t} = {}
  <2> DEFINE k == list'
             T == table \ {t}
             q == PlacedWithout(table, p, t)
  <2>1. Chained(k, Timers, T, q) /\ k.count = list.count - 1
    BY <1>6
  <2> HIDE DEF k, T, q
  <2>2. k.count = 0 <=> T = {}
    BY <2>1, ChainedLinks, TimersAssumption
  <2> QED BY <2>1, <2>2 DEF T
<1>8. p[t] \in DOMAIN v /\ v[p[t]] = t
  BY <1>5
<1>9. /\ cursor' = IF Len(v) = 1 THEN NULL
                   ELSE IF cursor = t THEN v[IF p[t] = Len(v) THEN 1 ELSE p[t] + 1] ELSE cursor
      /\ table' # {} => UNCHANGED minPeriod
  <2>0. list.count - 1 <= 0 <=> Len(v) = 1
    BY <1>5, <1>8
  <2>1. CASE Len(v) = 1
    BY <2>0, <2>1, <1>2, <1>5, <1>6, <1>7
  <2>2. CASE Len(v) # 1
    <3>1. cursor' = CursorBehind(t) /\ UNCHANGED minPeriod
      BY <2>0, <2>2, <1>2, <1>5, <1>6, <1>7
    <3>2. CASE cursor # t
      BY <3>1, <3>2, <2>2 DEF CursorBehind
    <3>3. CASE cursor = t
      <4>1. /\ list.next[t] \in table \cup {NULL} /\ list.first \in table
            /\ p[list.first] = 1 /\ NULL \notin table
            /\ IF list.next[t] = NULL THEN p[t] = list.count
                                      ELSE p[list.next[t]] = p[t] + 1
        BY <1>1, Neighbours, TimersAssumption DEF Chained
      <4>2. CASE list.next[t] = NULL
        <5>1. p[t] = Len(v) /\ cursor' = list.first /\ v[1] = list.first
          BY <4>1, <4>2, <3>1, <3>3, <1>5 DEF CursorBehind
        <5> QED BY <5>1, <3>3, <2>2, <3>1
      <4>3. CASE list.next[t] # NULL
        <5>1. p[t] # Len(v) /\ cursor' = list.next[t] /\ v[p[t] + 1] = list.next[t]
          BY <4>1, <4>3, <3>1, <3>3, <1>5 DEF CursorBehind
        <5> QED BY <5>1, <3>3, <2>2, <3>1
      <4> QED BY <4>2, <4>3
    <3> QED BY <3>2, <3>3
  <2> QED BY <2>1, <2>2
<1>10. Queue!Stop(p[t])
  BY <1>4, <1>8, <1>9 DEF Queue!Stop, Queue!Behind, Queue!RemoveAt, Cut
<1> QED BY <1>8, <1>9, <1>10

LEMMA StartQueued ==
  ASSUME Listed, NEW t \in Timers, t \notin table, SchedulerStart(t),
         table # {} => minPeriod # 0
  PROVE  Queue!Start(t)
<1>1. PICK p : Chained(list, Timers, table, p)
  BY DEF Listed
<1>2. Walk(list') = Append(Walk(list), t)
  BY <1>1, WalkAddLast, TimersAssumption DEF SchedulerStart
<1>3. /\ Walk(list) \in Seq(table) /\ Len(Walk(list)) = list.count /\ list.count \in Nat
      /\ \A i \in 1 .. list.count : Walk(list)[i] \in table
      /\ list.count = 0 <=> table = {}
  BY <1>1, WalkSeq, ChainedLinks, TimersAssumption
<1>4. Walk(list) = <<>> <=> list.count = 0
  BY <1>3, EmptySeq
<1>5. cursor' = IF table = {} THEN NULL ELSE cursor
  BY <1>3 DEF SchedulerStart, Listed
<1> QED BY <1>2, <1>3, <1>4, <1>5 DEF Queue!Start

\* The cursor goes around the queue.
LEMMA CursorMoves ==
  ASSUME Listed, UNCHANGED list, cursor' = CursorNext
  PROVE  Queue!MoveOn \/ UNCHANGED <<Walk(list), cursor>>
<1> DEFINE v == Walk(list)
<1>1. PICK p : Chained(list, Timers, table, p)
  BY DEF Listed
<1>2. /\ v \in Seq(table) /\ Len(v) = list.count /\ list.count \in Nat
      /\ \A i \in 1 .. list.count : v[i] \in table /\ p[v[i]] = i
      /\ \A s \in table : p[s] \in 1 .. list.count /\ v[p[s]] = s
      /\ list.count = 0 <=> table = {}
  BY <1>1, WalkSeq, ChainedLinks, TimersAssumption
<1>3. v = <<>> <=> table = {}
  BY <1>2, EmptySeq
<1>4. UNCHANGED v
  OBVIOUS
<1>5. CASE table = {}
  <2>1. cursor = NULL /\ cursor' = NULL
    BY <1>5 DEF Listed, CursorNext
  <2> QED BY <2>1, <1>4
<1>6. CASE table # {}
  <2>1. list.first \in table /\ p[list.first] = 1 /\ list.count > 0
    BY <1>1, <1>2, <1>6 DEF Chained
  <2>2. v[1] = list.first
    BY <2>1, <1>2
  <2>3. CASE cursor = NULL
    <3>1. cursor' = list.first
      BY <2>1, <2>3, <1>2, <1>6 DEF CursorNext
    <3> QED BY <3>1, <2>2, <2>3, <1>3, <1>4, <1>6 DEF Queue!MoveOn
  <2>4. CASE cursor # NULL
    <3> DEFINE i == p[cursor]
    <3>1. cursor \in table
      BY <2>4 DEF Listed
    <3>2. i \in DOMAIN v /\ v[i] = cursor
      BY <3>1, <1>2
    <3>3. /\ list.next[cursor] \in table \cup {NULL}
          /\ IF list.next[cursor] = NULL THEN i = list.count
                                         ELSE p[list.next[cursor]] = i + 1
      BY <1>1, <3>1 DEF Chained
    <3>4. cursor' = v[IF i = Len(v) THEN 1 ELSE i + 1]
      <4>1. CASE list.next[cursor] = NULL
        <5>1. i = Len(v) /\ cursor' = list.first
          BY <4>1, <3>3, <1>2, <1>6, <2>1, <2>4 DEF CursorNext
        <5> QED BY <5>1, <2>2
      <4>2. CASE list.next[cursor] # NULL
        <5>1. cursor' = list.next[cursor] /\ v[i + 1] = list.next[cursor] /\ i # Len(v)
          BY <4>2, <3>1, <3>2, <3>3, <1>2, <1>6, <2>1, <2>4 DEF CursorNext
        <5> QED BY <5>1
      <4> QED BY <4>1, <4>2
    <3> QED BY <3>2, <3>4, <1>4 DEF Queue!MoveOn, Queue!Behind
  <2> QED BY <2>3, <2>4
<1> QED BY <1>5, <1>6

\* A period of 0 makes the next start forget the cursor, so none is 0 while a
\* timer is started.
Periodic == table # {} => minPeriod # 0

QueueStep == [Queue!Next]_<<Walk(list), cursor>>

LEMMA QueueStops ==
  ASSUME Listed, Periodic, NEW t \in table, SchedulerStop(t)
  PROVE  Periodic' /\ QueueStep
<1>1. PICK i \in DOMAIN Walk(list) : Queue!Stop(i)
  BY StopQueued
<1>2. QueueStep
  BY <1>1 DEF QueueStep, Queue!Next
<1>3. (table' # {} => UNCHANGED minPeriod) /\ table' \subseteq table
  BY StopQueued DEF SchedulerStop
<1> QED BY <1>2, <1>3 DEF Periodic

LEMMA QueueStays ==
  ASSUME Periodic, UNCHANGED <<list, table, cursor, minPeriod>>
  PROVE  Periodic' /\ QueueStep
BY DEF Periodic, QueueStep

LEMMA StepQueue ==
  ASSUME IInv, Periodic, [Next]_vars
  PROVE  Periodic' /\ QueueStep
<1> USE DEF IInv
<1>1. ASSUME NEW th \in Threads, Call(th) PROVE Periodic' /\ QueueStep
  BY <1>1, QueueStays
  DEF Call, Start, Stop, SetInterval, Dispose, Enters, Sets, scheduler
<1>2. ASSUME NEW th \in Threads, StartEnds(th) PROVE Periodic' /\ QueueStep
  <2> DEFINE t == call[th].timer
  <2>1. t \in Timers /\ timer[t].interval \in Nat
    BY <1>2 DEF StartEnds, Waits, WithTimer, Typed, TimerType
  <2>2. CASE closed \/ timer[t].interval <= 0 \/ t \in table
    BY <1>2, <2>2, QueueStays DEF StartEnds, scheduler
  <2>3. CASE ~(closed \/ timer[t].interval <= 0 \/ t \in table)
    <3>1. SchedulerStart(t) /\ timer[t].interval > 0 /\ t \notin table
      BY <1>2, <2>1, <2>3 DEF StartEnds
    <3>2. Queue!Start(t)
      BY <2>1, <3>1, StartQueued DEF Periodic
    <3>3. Periodic'
      BY <2>1, <3>1 DEF SchedulerStart, Periodic, Typed
    <3> QED BY <2>1, <3>2, <3>3 DEF QueueStep, Queue!Next
  <2> QED BY <2>2, <2>3
<1>3. ASSUME NEW th \in Threads, StopEnds(th) PROVE Periodic' /\ QueueStep
  <2> DEFINE t == call[th].timer
  <2>1. t \in Timers
    BY <1>3 DEF StopEnds, Waits, WithTimer, Typed
  <2>2. CASE closed \/ RemoveFaults(list, t)
    BY <1>3, <2>2, QueueStays DEF StopEnds, scheduler
  <2>3. CASE ~(closed \/ RemoveFaults(list, t))
    <3>1. SchedulerStop(t) /\ t \in table
      BY <1>3, <2>1, <2>3, StaleFaults DEF StopEnds
    <3> QED BY <3>1, QueueStops
  <2> QED BY <2>2, <2>3
<1>4. ASSUME NEW th \in Threads, CloseStops(th) PROVE Periodic' /\ QueueStep
  <2>1. list.first \in table /\ SchedulerStop(list.first)
    BY <1>4, TableOfTimers DEF CloseStops
  <2> QED BY <2>1, QueueStops
<1>5. ASSUME NEW th \in Threads, CloseEnds(th) PROVE Periodic' /\ QueueStep
  <2>1. list.first = NULL /\ table' = {} /\ UNCHANGED cursor
    BY <1>5 DEF CloseEnds
  <2>2. PICK p : Chained(list, Timers, table, p)
    BY DEF Listed
  <2>3. table = {}
    BY <2>1, <2>2, ChainedLinks, TimersAssumption
  <2>4. \E q : Chained(list', Timers, {}, q)
    BY <1>5, <2>1, CloseEndsStep DEF Listed
  <2>5. Walk(list) = <<>> /\ Walk(list') = <<>>
    BY <2>2, <2>3, <2>4, EmptyWalk, TimersAssumption
  <2> QED BY <2>1, <2>5 DEF QueueStep, Periodic
<1>6. ASSUME NEW u \in Users, Close(u) PROVE Periodic' /\ QueueStep
  BY <1>6 DEF Close, QueueStep, Queue!Next, Queue!LetGo, Periodic
<1>7. CASE NextTimerObject
  <2>1. UNCHANGED <<list, table, minPeriod>> /\ cursor' = CursorNext
    BY <1>7 DEF NextTimerObject
  <2>2. Queue!MoveOn \/ UNCHANGED <<Walk(list), cursor>>
    BY <2>1, CursorMoves
  <2> QED BY <2>1, <2>2 DEF QueueStep, Queue!Next, Periodic
<1>8. CASE StaleStopEnds
  <2>1. current \in Timers
    BY <1>8 DEF StaleStopEnds, Typed, AtTimer
  <2>2. CASE RemoveFaults(list, current)
    BY <1>8, <2>2, QueueStays DEF StaleStopEnds, scheduler
  <2>3. CASE ~RemoveFaults(list, current)
    <3>1. SchedulerStop(current) /\ current \in table
      BY <1>8, <2>1, <2>3, StaleFaults DEF StaleStopEnds
    <3> QED BY <3>1, QueueStops
  <2> QED BY <2>2, <2>3
<1>9. CASE \/ DoEvents \/ RoundEnds \/ Look \/ JudgeOff \/ JudgeDue \/ JudgeEarly
           \/ DoTick \/ CallbackEnds \/ StaleStop \/ Elapse \/ UNCHANGED vars
  <2>1. UNCHANGED <<list, table, cursor, minPeriod>>
    BY <1>9 DEF DoEvents, RoundEnds, Look, JudgeOff, JudgeDue, JudgeEarly, DoTick,
                CallbackEnds, StaleStop, Elapse, vars, scheduler
  <2> QED BY <2>1, QueueStays
<1> QED BY <1>1, <1>2, <1>3, <1>4, <1>5, <1>6, <1>7, <1>8, <1>9 DEF Next, Return, Round

\* The intrusive list, relinked by hand, and its cursor are a queue of timers and
\* a position in it, for any number of timers, threads and calls.
THEOREM Queueing == Spec => QueueSpec
<1>1. Init => Queue!Init /\ Periodic
  <2> SUFFICES ASSUME Init PROVE Queue!Init /\ Periodic
    OBVIOUS
  <2>1. PICK p : Chained(list, Timers, table, p)
    BY InitIInv DEF IInv, Listed
  <2>2. list.count = 0 /\ table = {} /\ cursor = NULL
    BY DEF Init, EmptyList
  <2>3. Walk(list) \in Seq(table) /\ Len(Walk(list)) = 0
    BY <2>1, <2>2, WalkSeq, TimersAssumption
  <2>4. Walk(list) = <<>>
    BY <2>3, EmptySeq
  <2> QED BY <2>2, <2>4 DEF Queue!Init, Periodic
<1>2. IInv /\ Periodic /\ [Next]_vars => Periodic' /\ [Queue!Next]_<<Walk(list), cursor>>
  BY StepQueue DEF QueueStep
<1> QED BY <1>1, <1>2, InitIInv, StepIInv, PTL DEF Spec, QueueSpec, Queue!Spec

-----------------------------------------------------------------------------
(* The set that may be changed while it is gone through.                   *)

\* What the set counts with is Cardinality.
LEMMA SetCardinality ==
  ASSUME NEW S
  PROVE  Set!Cardinality(S) = Cardinality(S)
BY DEF Set!Cardinality, Cardinality

\* The operators of the list by the names they have in the set.
LEMMA SetOperators ==
  ASSUME NEW l, NEW n, NEW k
  PROVE  /\ Set!AddLast(l, n) = AddLast(l, n) /\ Set!Remove(l, n) = Remove(l, n)
         /\ Set!Steps(l, k) = Steps(l, k) /\ Set!Walk(l) = Walk(l)
         /\ Set!EmptyList(k) = EmptyList(k)
<1>1. Set!AddLast(l, n) = AddLast(l, n)
  BY DEF Set!AddLast, Set!AddAfter, Set!OnlyNode, Set!Unlinked, Set!With,
         AddLast, AddAfter, OnlyNode, Unlinked, With
<1>2. Set!Remove(l, n) = Remove(l, n)
  BY DEF Set!Remove, Set!RemoveFirst, Set!RemoveLast, Set!RemoveInner, Set!Unlinked,
         Set!With, Remove, RemoveFirst, RemoveLast, RemoveInner, Unlinked, With
<1>3. \A j : Set!Steps(l, j) = Steps(l, j)
  BY DEF Set!Steps, Steps
<1>4. Set!Walk(l) = Walk(l)
  BY <1>3 DEF Set!Walk, Walk
<1>5. Set!EmptyList(k) = EmptyList(k)
  BY DEF Set!EmptyList, EmptyList
<1> QED BY <1>1, <1>2, <1>3, <1>4, <1>5

\* value, table and available nodes are views of one set.
Views(f, t, A) ==
  /\ f \in [Nodes -> Members \cup {NULL}]
  /\ DOMAIN t \subseteq Members /\ t \in [DOMAIN t -> A]
  /\ \A v \in DOMAIN t : f[t[v]] = v
  /\ \A n \in A : f[n] \in DOMAIN t /\ t[f[n]] = n

\* A tour has yielded what is placed up to the entry it is at, and only that.
Touring(p, t, A, c, r) ==
  /\ c = [entry |-> c.entry, rst |-> c.rst]
  /\ c.entry \in Nodes \cup {NULL} /\ c.rst \in BOOLEAN
  /\ r = [staying |-> r.staying, seen |-> r.seen, sound |-> r.sound, over |-> r.over]
  /\ r.staying \subseteq DOMAIN t /\ r.seen \in [Members -> Nat]
  /\ r.sound \in BOOLEAN /\ r.over \in BOOLEAN
  /\ r.sound /\ r.over =>
       c.entry = NULL /\ ~c.rst /\ \A v \in r.staying : r.seen[v] = 1
  /\ r.sound /\ ~r.over =>
       /\ c.entry \in A /\ ~c.rst
       /\ \A v \in r.staying : r.seen[v] = IF p[t[v]] <= p[c.entry] THEN 1 ELSE 0

Tours(p) ==
  /\ standing = [w \in Walkers |-> standing[w]] /\ tour = [w \in Walkers |-> tour[w]]
  /\ \A w \in Walkers : Touring(p, index, available, standing[w], tour[w])

SetIInv ==
  /\ heap = available /\ used = {}
  /\ Views(value, index, available)
  /\ \E p : Chained(links, Nodes, available, p) /\ Tours(p)

LEMMA ChainCounts ==
  ASSUME NEW N, NULL \notin N, IsFiniteSet(N), NEW l, NEW T, NEW p, Chained(l, N, T, p)
  PROVE  /\ IsFiniteSet(T) /\ Cardinality(T) = l.count
         /\ Cardinality(N) \in Nat /\ l.count <= Cardinality(N)
<1>1. T \in SUBSET N /\ l.count \in Nat
  BY DEF Chained
<1>2. IsFiniteSet(T) /\ Cardinality(T) <= Cardinality(N)
  BY <1>1, FS_Subset
<1>3. Cardinality(N) \in Nat
  BY FS_CardinalityType
<1>4. p \in Bijection(T, 1 .. l.count)
  BY DEF Chained, Bijection, Injection, Surjection, IsInjective
<1>5. Cardinality(1 .. l.count) = Cardinality(T)
  BY <1>2, <1>4, FS_Bijection DEF ExistsBijection
<1>6. Cardinality(1 .. l.count) = l.count
  <2>1. 1 \in Int /\ l.count \in Int /\ l.count - 1 + 1 = l.count
    BY <1>1
  <2>2. Cardinality(1 .. l.count) = IF 1 > l.count THEN 0 ELSE l.count - 1 + 1
    BY <2>1, FS_Interval
  <2> QED BY <1>1, <2>1, <2>2
<1> QED BY <1>2, <1>3, <1>5, <1>6

\* The invariant is what the run checks.
LEMMA SetIInvAgrees ==
  ASSUME SetIInv
  PROVE  Set!SetAgrees /\ Set!ToursComplete
<1>1. PICK p : Chained(links, Nodes, available, p) /\ Tours(p)
  BY DEF SetIInv
<1> DEFINE s == Steps(links, Cardinality(Nodes) + 1)
           listed == {s[i] : i \in DOMAIN s}
<1>2. /\ IsFiniteSet(available) /\ Cardinality(available) = links.count
      /\ Cardinality(Nodes) + 1 \in Nat /\ links.count <= Cardinality(Nodes) + 1
      /\ links.count \in Nat
  <2>1. /\ IsFiniteSet(available) /\ Cardinality(available) = links.count
        /\ Cardinality(Nodes) \in Nat /\ links.count <= Cardinality(Nodes)
    BY <1>1, NodesAssumption, ChainCounts
  <2>2. links.count \in Nat
    BY <1>1 DEF Chained
  <2> QED BY <2>1, <2>2
<1>3. s = Walk(links)
  BY <1>1, <1>2, NodesAssumption, StepsIsUpto, WalkIsUpto
<1>4. /\ s \in Seq(available) /\ Len(s) = links.count
      /\ \A i \in 1 .. links.count : s[i] \in available /\ p[s[i]] = i
      /\ \A n \in available : p[n] \in 1 .. links.count /\ s[p[n]] = n
  BY <1>1, <1>3, NodesAssumption, WalkSeq
<1>5. Set!Steps(links, Cardinality(Nodes) + 1) = s
  BY SetOperators
<1> HIDE DEF s
<1>6. DOMAIN s = 1 .. links.count
  BY <1>4
<1>7. listed = available
  BY <1>4, <1>6
<1>8. \A i \in DOMAIN s : links.prev[s[i]] = IF i = 1 THEN NULL ELSE s[i - 1]
  <2> SUFFICES ASSUME NEW i \in 1 .. links.count
               PROVE  links.prev[s[i]] = IF i = 1 THEN NULL ELSE s[i - 1]
    BY <1>6
  <2>1. s[i] \in available /\ p[s[i]] = i
    BY <1>4
  <2>2. s[i] = links.first <=> links.prev[s[i]] = NULL
    BY <2>1, <1>1, NodesAssumption, Neighbours
  <2>3. i = 1 <=> s[i] = links.first
    BY <2>1, <1>1, NodesAssumption, ChainedLinks
  <2>4. CASE i = 1
    BY <2>2, <2>3, <2>4
  <2>5. CASE i # 1
    <3>1. i - 1 \in 1 .. links.count
      BY <2>5, <1>2
    <3>2. s[i - 1] \in available /\ p[s[i - 1]] = i - 1
      BY <3>1, <1>4
    <3>3. links.prev[s[i]] = s[i - 1] <=> p[s[i]] = p[s[i - 1]] + 1
      BY <2>1, <3>2, <1>1, NodesAssumption, ChainedLinks
    <3> QED BY <2>1, <2>5, <3>2, <3>3
  <2> QED BY <2>4, <2>5
<1>9. links.last = IF s = <<>> THEN NULL ELSE s[Len(s)]
  <2>1. CASE links.count = 0
    <3>1. s = <<>>
      BY <2>1, <1>4, EmptySeq
    <3>2. links.last = NULL
      BY <2>1, <1>1, NodesAssumption, ChainedLinks
    <3> QED BY <3>1, <3>2
  <2>2. CASE links.count # 0
    <3>1. links.count \in 1 .. links.count /\ s # <<>>
      BY <2>2, <1>2, <1>4, EmptySeq
    <3>2. s[links.count] \in available /\ p[s[links.count]] = links.count
      BY <3>1, <1>4
    <3>3. s[links.count] = links.last
      BY <3>2, <1>1, NodesAssumption, ChainedLinks
    <3> QED BY <3>1, <3>3, <1>4
  <2> QED BY <2>1, <2>2
<1>10. available = {index[v] : v \in DOMAIN index}
  BY DEF SetIInv, Views
<1>11. Cardinality(listed) = Len(s) /\ links.count = Len(s)
  BY <1>2, <1>4, <1>7
<1> HIDE DEF listed
<1>12. Set!SetAgrees
  <2>1. used = {} /\ heap = available /\ \A v \in DOMAIN index : value[index[v]] = v
    BY DEF SetIInv, Views
  <2>2. listed = available /\ listed = heap /\ listed = {index[v] : v \in DOMAIN index}
    BY <1>7, <1>10, <2>1
  <2> DEFINE z == Set!Steps(links, Set!Cardinality(Nodes) + 1)
  <2>3. z = s
    BY <1>5, SetCardinality
  <2> HIDE DEF z
  <2>4. {z[i] : i \in DOMAIN z} = listed
    BY <2>3 DEF listed
  <2>5. /\ Set!Cardinality({z[i] : i \in DOMAIN z}) = Len(z) /\ links.count = Len(z)
        /\ \A i \in DOMAIN z : links.prev[z[i]] = IF i = 1 THEN NULL ELSE z[i - 1]
        /\ links.last = IF z = <<>> THEN NULL ELSE z[Len(z)]
        /\ {z[i] : i \in DOMAIN z} = available /\ {z[i] : i \in DOMAIN z} = heap
        /\ {z[i] : i \in DOMAIN z} = {index[v] : v \in DOMAIN index}
    BY <2>2, <2>3, <2>4, <1>8, <1>9, <1>11, SetCardinality
  <2> QED BY <2>1, <2>5, Zenon DEF Set!SetAgrees, z
<1>13. Set!ToursComplete
  BY <1>1 DEF Tours, Touring, Set!ToursComplete
<1> QED BY <1>12, <1>13

LEMMA SetStarts ==
  ASSUME Set!SetInit
  PROVE  SetIInv
<1>1. /\ links = Set!EmptyList(Nodes) /\ value = [n \in Nodes |-> NULL]
      /\ index = <<>> /\ available = {} /\ heap = {} /\ used = {}
      /\ standing = [w \in Walkers |-> [entry |-> NULL, rst |-> TRUE]]
      /\ tour = [w \in Walkers |-> Set!NoTour]
  BY DEF Set!SetInit
<1>2. /\ links.first = NULL /\ links.last = NULL /\ links.count = 0
      /\ links.next = [n \in Nodes |-> NULL] /\ links.prev = [n \in Nodes |-> NULL]
  <2>1. Set!EmptyList(Nodes) = EmptyList(Nodes)
    BY SetOperators
  <2> QED BY <1>1, <2>1 DEF EmptyList
<1>3. PICK p : Chained(links, Nodes, available, p)
  <2>1. \E p : Chained(links, Nodes, {}, p)
    BY <1>2, NodesAssumption, EmptyChained, Zenon
  <2> QED BY <1>1, <2>1
<1>4. DOMAIN index = {} /\ index \in [{} -> available]
  BY <1>1
<1>5. Views(value, index, available)
  BY <1>1, <1>4 DEF Views
<1>6. ASSUME NEW w \in Walkers
      PROVE  Touring(p, index, available, standing[w], tour[w])
  <2> DEFINE r == tour[w]
  <2>1. standing[w] = [entry |-> NULL, rst |-> TRUE]
    BY <1>1
  <2>2. r = [staying |-> {}, seen |-> [v \in Members |-> 0], sound |-> FALSE, over |-> FALSE]
    BY <1>1 DEF Set!NoTour, Set!Unseen
  <2> HIDE DEF r
  <2>3. Touring(p, index, available, standing[w], r)
    BY <2>1, <2>2 DEF Touring
  <2> QED BY <2>3 DEF r
<1>7. Tours(p)
  BY <1>1, <1>6 DEF Tours
<1> QED BY <1>1, <1>3, <1>5, <1>7 DEF SetIInv

\* What is put in last changes no tour.
LEMMA TourKept ==
  ASSUME NEW p, NEW t, NEW A, NEW c, NEW r, Touring(p, t, A, c, r),
         NEW q, NEW u, NEW B, A \subseteq B, DOMAIN t \subseteq DOMAIN u,
         \A v \in DOMAIN t : u[v] = t[v] /\ t[v] \in A,
         \A n \in A : q[n] = p[n]
  PROVE  Touring(q, u, B, c, r)
BY DEF Touring

LEMMA InsertStep ==
  ASSUME SetIInv, NEW v \in Members, Set!Insert(v)
  PROVE  SetIInv'
<1>1. PICK p : Chained(links, Nodes, available, p) /\ Tours(p)
  BY DEF SetIInv
<1>2. PICK n \in Nodes :
        /\ n \notin heap /\ heap' = heap \cup {n}
        /\ value' = [value EXCEPT ![n] = v]
        /\ index' = [x \in DOMAIN index \cup {v} |-> IF x = v THEN n ELSE index[x]]
        /\ links' = Set!AddLast(links, n)
        /\ available' = available \cup {n}
  BY DEF Set!Insert, Set!AllocEntry
<1>3. v \notin DOMAIN index /\ UNCHANGED <<standing, used, tour>>
  BY DEF Set!Insert
<1>4. /\ heap = available /\ used = {} /\ Views(value, index, available)
      /\ n \notin available /\ n # NULL
  BY <1>2, NodesAssumption DEF SetIInv
<1> PICK q : q = PlacedLast(links, available, p, n)
  OBVIOUS
<1>5. links' = AddLast(links, n)
  BY <1>2, SetOperators
<1>6. Chained(links', Nodes, available', q)
  BY <1>1, <1>2, <1>4, <1>5, NodesAssumption, AddLastChained
<1>7. Views(value', index', available')
  <2>1. /\ value' \in [Nodes -> Members \cup {NULL}]
        /\ value'[n] = v /\ \A m \in available : value'[m] = value[m]
    BY <1>1, <1>2, <1>4 DEF Views, Chained
  <2>2. /\ DOMAIN index' = DOMAIN index \cup {v} /\ index'[v] = n
        /\ \A x \in DOMAIN index : index'[x] = index[x] /\ index[x] \in available
        /\ index' = [x \in DOMAIN index' |-> index'[x]]
    BY <1>2, <1>3, <1>4 DEF Views
  <2>3. DOMAIN index' \subseteq Members /\ index' \in [DOMAIN index' -> available']
    BY <2>2, <1>2, <1>4 DEF Views
  <2>4. \A x \in DOMAIN index' : value'[index'[x]] = x
    BY <2>1, <2>2, <1>4 DEF Views
  <2>5. \A m \in available' : value'[m] \in DOMAIN index' /\ index'[value'[m]] = m
    BY <2>1, <2>2, <1>2, <1>4 DEF Views
  <2> QED BY <2>1, <2>3, <2>4, <2>5 DEF Views
<1>8. Tours(q)'
  <2>1. /\ available \subseteq available' /\ DOMAIN index \subseteq DOMAIN index'
        /\ \A x \in DOMAIN index : index'[x] = index[x] /\ index[x] \in available
    BY <1>2, <1>3, <1>4 DEF Views
  <2>2. \A m \in available : q[m] = p[m]
    BY <1>4 DEF PlacedLast
  <2>3. ASSUME NEW w \in Walkers
        PROVE  Touring(q, index', available', standing[w], tour[w])
    <3>1. Touring(p, index, available, standing[w], tour[w])
      BY <1>1 DEF Tours
    <3> QED BY <3>1, <2>1, <2>2, TourKept
  <2> QED BY <2>3, <1>1, <1>3 DEF Tours
<1> QED BY <1>2, <1>3, <1>4, <1>6, <1>7, <1>8 DEF SetIInv

\* Nor does what is taken out, unless the tour stands on it.
LEMMA TourForsaken ==
  ASSUME NEW p, NEW t, NEW A, NEW c, NEW r, Touring(p, t, A, c, r), NULL \notin A,
         \A m \in A : p[m] \in Int, \A a, b \in A : p[a] = p[b] => a = b,
         NEW v \in DOMAIN t, NEW n \in A, t[v] = n,
         \A x \in DOMAIN t : t[x] \in A, \A x \in DOMAIN t : t[x] = n => x = v,
         NEW q, \A m \in A \ {n} : q[m] = IF p[m] > p[n] THEN p[m] - 1 ELSE p[m],
         NEW u, DOMAIN u = DOMAIN t \ {v}, \A x \in DOMAIN u : u[x] = t[x],
         NEW z, z = [staying |-> r.staying \ {v}, seen |-> [r.seen EXCEPT ![v] = 0],
                     sound |-> r.sound /\ c.entry # n, over |-> r.over]
  PROVE  Touring(q, u, A \ {n}, c, z)
<1>1. /\ r = [staying |-> r.staying, seen |-> r.seen, sound |-> r.sound, over |-> r.over]
      /\ c = [entry |-> c.entry, rst |-> c.rst]
      /\ c.entry \in Nodes \cup {NULL} /\ c.rst \in BOOLEAN
      /\ r.staying \subseteq DOMAIN t /\ r.seen \in [Members -> Nat]
      /\ r.sound \in BOOLEAN /\ r.over \in BOOLEAN
  BY DEF Touring
<1>2. /\ z = [staying |-> z.staying, seen |-> z.seen, sound |-> z.sound, over |-> z.over]
      /\ z.staying = r.staying \ {v} /\ z.seen = [r.seen EXCEPT ![v] = 0]
      /\ z.sound = (r.sound /\ c.entry # n) /\ z.over = r.over
  BY <1>1
<1>3. z.seen \in [Members -> Nat] /\ \A x \in z.staying : z.seen[x] = r.seen[x] \/ x \notin Members
  BY <1>1, <1>2
<1>4. \A x \in z.staying : z.seen[x] = r.seen[x]
  BY <1>1, <1>2
<1>5. z.staying \subseteq DOMAIN u /\ \A x \in z.staying : x \in r.staying /\ u[x] = t[x] /\ t[x] \in A \ {n}
  BY <1>1, <1>2
<1>6. ASSUME z.sound, z.over
      PROVE  c.entry = NULL /\ ~c.rst /\ \A x \in z.staying : z.seen[x] = 1
  BY <1>2, <1>4, <1>5, <1>6 DEF Touring
<1>7. ASSUME z.sound, ~z.over
      PROVE  /\ c.entry \in A \ {n} /\ ~c.rst
             /\ \A x \in z.staying : z.seen[x] = IF q[u[x]] <= q[c.entry] THEN 1 ELSE 0
  <2>1. r.sound /\ ~r.over /\ c.entry # n
    BY <1>2, <1>7
  <2>2. /\ c.entry \in A /\ ~c.rst
        /\ \A x \in r.staying : r.seen[x] = IF p[t[x]] <= p[c.entry] THEN 1 ELSE 0
    BY <2>1 DEF Touring
  <2>3. \A a, b \in A \ {n} : q[a] <= q[b] <=> p[a] <= p[b]
    OBVIOUS
  <2>4. \A x \in z.staying : q[u[x]] <= q[c.entry] <=> p[t[x]] <= p[c.entry]
    BY <1>5, <2>1, <2>2, <2>3
  <2> QED BY <1>4, <1>5, <2>1, <2>2, <2>4
<1>8. z.sound \in BOOLEAN /\ z.over \in BOOLEAN
  BY <1>1, <1>2
<1> QED BY <1>1, <1>2, <1>3, <1>5, <1>6, <1>7, <1>8 DEF Touring

LEMMA RemoveStep ==
  ASSUME SetIInv, NEW v \in Members, Set!RemoveValue(v)
  PROVE  SetIInv'
<1>1. PICK p : Chained(links, Nodes, available, p) /\ Tours(p)
  BY DEF SetIInv
<1> PICK n : n = index[v]
  OBVIOUS
<1>2. /\ v \in DOMAIN index /\ links' = Remove(links, n)
      /\ available' = available \ {n}
      /\ index' = [x \in DOMAIN index \ {v} |-> index[x]]
      /\ heap' = heap \ {n} /\ value' = [value EXCEPT ![n] = NULL]
      /\ tour' = Set!Forsaken(n, v)
      /\ UNCHANGED <<standing, used>>
  <2>1. /\ v \in DOMAIN index /\ links' = Set!Remove(links, n)
        /\ available' = available \ {n}
        /\ index' = [x \in DOMAIN index \ {v} |-> index[x]]
        /\ Set!DeleteEntry(n) /\ tour' = Set!Forsaken(n, v)
        /\ UNCHANGED <<standing, used>>
    BY DEF Set!RemoveValue
  <2>2. Set!Remove(links, n) = Remove(links, n)
    BY SetOperators
  <2> QED BY <2>1, <2>2 DEF Set!DeleteEntry
<1>3. /\ heap = available /\ used = {} /\ Views(value, index, available)
  BY DEF SetIInv
<1>4. n \in available /\ n \in Nodes /\ value[n] = v /\ NULL \notin available
  BY <1>1, <1>2, <1>3, NodesAssumption DEF Views, Chained
<1> PICK q : q = PlacedWithout(available, p, n)
  OBVIOUS
<1>5. Chained(links', Nodes, available', q)
  <2>1. Shorter(Remove(links, n), links, Nodes, available, n)
    BY <1>1, <1>4, NodesAssumption, RemoveLinks
  <2>2. Chained(Remove(links, n), Nodes, available \ {n}, PlacedWithout(available, p, n))
    BY <2>1, <1>1, <1>4, NodesAssumption, RemoveChained
  <2> QED BY <2>2, <1>2
<1>6. /\ \A x \in DOMAIN index : index[x] \in available
      /\ \A x \in DOMAIN index : index[x] = n => x = v
  BY <1>3, <1>4 DEF Views
<1>7. DOMAIN index' = DOMAIN index \ {v} /\ \A x \in DOMAIN index' : index'[x] = index[x]
  BY <1>2
<1>8. Views(value', index', available')
  <2>1. /\ value' \in [Nodes -> Members \cup {NULL}]
        /\ \A m \in Nodes : m # n => value'[m] = value[m]
    BY <1>2, <1>3 DEF Views
  <2>2. available' \subseteq Nodes /\ n \notin available' /\ available' \subseteq available
    BY <1>1, <1>2 DEF Chained
  <2>3. DOMAIN index' \subseteq Members /\ \A x \in DOMAIN index' : index'[x] \in available'
    BY <1>2, <1>3, <1>6, <1>7 DEF Views
  <2>4. index' \in [DOMAIN index' -> available']
    BY <2>3, <1>2, <1>7
  <2>5. \A x \in DOMAIN index' : value'[index'[x]] = x
    BY <2>1, <2>2, <2>3, <1>3, <1>7 DEF Views
  <2>6. ASSUME NEW m \in available'
        PROVE  value'[m] \in DOMAIN index' /\ index'[value'[m]] = m
    <3>1. m \in available /\ m # n /\ value'[m] = value[m]
      BY <2>1, <2>2
    <3>2. value[m] \in DOMAIN index /\ index[value[m]] = m
      BY <3>1, <1>3 DEF Views
    <3>3. value[m] # v
      BY <3>1, <3>2
    <3> QED BY <3>1, <3>2, <3>3, <1>7
  <2> QED BY <2>1, <2>3, <2>4, <2>5, <2>6 DEF Views
<1>9. Tours(q)'
  <2>1. \A m \in available \ {n} : q[m] = IF p[m] > p[n] THEN p[m] - 1 ELSE p[m]
    BY DEF PlacedWithout
  <2>2. \A m \in available : p[m] \in Int
    BY <1>1 DEF Chained
  <2>3. \A a, b \in available : p[a] = p[b] => a = b
    BY <1>1 DEF Chained
  <2>4. tour' = [w \in Walkers |-> [tour[w] EXCEPT
                  !.staying = @ \ {v}, !.seen[v] = 0, !.sound = @ /\ standing[w].entry # n]]
    BY <1>2 DEF Set!Forsaken
  <2>5. ASSUME NEW w \in Walkers
        PROVE  Touring(q, index', available \ {n}, standing[w], tour'[w])
    <3>1. Touring(p, index, available, standing[w], tour[w])
      BY <1>1 DEF Tours
    <3> DEFINE r == tour[w]
               c == standing[w]
    <3>2. tour'[w] = [r EXCEPT !.staying = @ \ {v}, !.seen[v] = 0,
                               !.sound = @ /\ c.entry # n]
      BY <2>4
    <3>3. r = [staying |-> r.staying, seen |-> r.seen, sound |-> r.sound, over |-> r.over]
      BY <3>1 DEF Touring
    <3> HIDE DEF r, c
    <3>4. tour'[w] = [staying |-> r.staying \ {v}, seen |-> [r.seen EXCEPT ![v] = 0],
                      sound |-> r.sound /\ c.entry # n, over |-> r.over]
      BY <3>2, <3>3
    <3>5. Touring(p, index, available, c, r)
      BY <3>1 DEF r, c
    <3>6. /\ v \in DOMAIN index /\ n \in available /\ index[v] = n /\ NULL \notin available
          /\ \A x \in DOMAIN index : index[x] = n => x = v
      BY <1>2, <1>4, <1>6
    <3>7. PICK u, z : u = index' /\ z = tour'[w]
      OBVIOUS
    <3>8. /\ z = [staying |-> r.staying \ {v}, seen |-> [r.seen EXCEPT ![v] = 0],
                  sound |-> r.sound /\ c.entry # n, over |-> r.over]
          /\ DOMAIN u = DOMAIN index \ {v} /\ \A x \in DOMAIN u : u[x] = index[x]
      BY <3>4, <3>7, <1>7
    <3>9. Touring(q, u, available \ {n}, c, z)
      BY <3>5, <3>6, <3>8, <2>1, <2>2, <2>3, <1>6, TourForsaken
    <3> QED BY <3>7, <3>9 DEF c
  <2>6. tour' = [w \in Walkers |-> tour'[w]] /\ standing = [w \in Walkers |-> standing[w]]
    BY <2>4, <1>1 DEF Tours
  <2> QED BY <2>5, <2>6, <1>2 DEF Tours
<1> QED BY <1>2, <1>3, <1>5, <1>8, <1>9 DEF SetIInv

LEMMA ClearStep ==
  ASSUME SetIInv, Set!ClearSet
  PROVE  SetIInv'
<1>1. PICK p : Chained(links, Nodes, available, p) /\ Tours(p)
  BY DEF SetIInv
<1>2. /\ heap' = heap \ {Set!Walk(links)[i] : i \in DOMAIN Set!Walk(links)}
      /\ links' = Set!EmptyList(Nodes) /\ value' = [n \in Nodes |-> NULL]
      /\ index' = <<>> /\ available' = {}
      /\ tour' = [w \in Walkers |->
                    [tour[w] EXCEPT !.staying = {}, !.seen = Set!Unseen,
                                    !.sound = @ /\ standing[w].entry = NULL]]
      /\ UNCHANGED <<standing, used>>
  BY DEF Set!ClearSet
<1>3. heap' = {}
  <2>1. Set!Walk(links) = Walk(links)
    BY SetOperators
  <2>2. /\ Walk(links) \in Seq(available) /\ Len(Walk(links)) = links.count
        /\ \A t \in available : p[t] \in 1 .. links.count /\ Walk(links)[p[t]] = t
    BY <1>1, NodesAssumption, WalkSeq
  <2>3. DOMAIN Walk(links) = 1 .. links.count
    BY <2>2
  <2>4. heap = available
    BY DEF SetIInv
  <2> QED BY <2>1, <2>2, <2>3, <2>4, <1>2
<1>4. /\ links'.first = NULL /\ links'.last = NULL /\ links'.count = 0
      /\ links'.next = [n \in Nodes |-> NULL] /\ links'.prev = [n \in Nodes |-> NULL]
  <2>1. Set!EmptyList(Nodes) = EmptyList(Nodes)
    BY SetOperators
  <2>2. links' = EmptyList(Nodes)
    BY <1>2, <2>1
  <2> QED BY <2>2 DEF EmptyList
<1>5. PICK q : Chained(links', Nodes, available', q)
  <2>1. \E q : Chained(links', Nodes, {}, q)
    BY <1>4, NodesAssumption, EmptyChained, Zenon
  <2> QED BY <1>2, <2>1
<1>6. Views(value', index', available')
  <2>1. index' = <<>>
    BY <1>2
  <2>2. DOMAIN index' = {} /\ index' \in [{} -> available']
    BY <2>1
  <2> QED BY <2>2, <1>2 DEF Views
<1>7. ASSUME NEW w \in Walkers
      PROVE  Touring(q, index', available', standing[w], tour'[w])
  <2> DEFINE r == tour[w]
             c == standing[w]
             z == tour'[w]
  <2>1. Touring(p, index, available, c, r)
    BY <1>1 DEF Tours
  <2>2. z = [r EXCEPT !.staying = {}, !.seen = [v \in Members |-> 0],
                      !.sound = @ /\ c.entry = NULL]
    BY <1>2 DEF Set!Unseen
  <2>3. NULL \notin available
    BY <1>1, NodesAssumption DEF Chained
  <2> HIDE DEF r, c, z
  <2>4. /\ r = [staying |-> r.staying, seen |-> r.seen, sound |-> r.sound, over |-> r.over]
        /\ r.sound \in BOOLEAN /\ r.over \in BOOLEAN
    BY <2>1 DEF Touring
  <2>5. z = [staying |-> {}, seen |-> [v \in Members |-> 0],
             sound |-> r.sound /\ c.entry = NULL, over |-> r.over]
    BY <2>2, <2>4
  <2>6. z.sound /\ z.over => c.entry = NULL /\ ~c.rst
    BY <2>1, <2>5 DEF Touring
  <2>7. ~(z.sound /\ ~z.over)
    BY <2>1, <2>3, <2>5 DEF Touring
  <2>8. Touring(q, index', available', c, z)
    BY <2>1, <2>4, <2>5, <2>6, <2>7 DEF Touring
  <2> QED BY <2>8 DEF c, z
<1>8. Tours(q)'
  BY <1>1, <1>2, <1>7 DEF Tours
<1>9. heap' = available' /\ used' = {}
  BY <1>2, <1>3 DEF SetIInv
<1> QED BY <1>5, <1>6, <1>8, <1>9 DEF SetIInv

\* What the enumerators ask the set, in terms of its chain.
LEMMA SetEnds ==
  ASSUME SetIInv
  PROVE  /\ Set!GetFirst = links.first /\ Set!GetLast = links.last
         /\ links.first \in Nodes \cup {NULL} /\ links.last \in Nodes \cup {NULL}
         /\ \A n : Set!IsAvailableEntry(n) <=> n \in available
         /\ NULL \notin available /\ available \subseteq Nodes
<1>1. PICK p : Chained(links, Nodes, available, p)
  BY DEF SetIInv
<1>2. /\ links.count = 0 <=> available = {}
      /\ links.first = NULL <=> available = {}
      /\ links.last = NULL <=> available = {}
  BY <1>1, NodesAssumption, ChainedLinks
<1>3. /\ links.count \in Nat /\ available \subseteq Nodes /\ NULL \notin available
      /\ links.first \in Nodes \cup {NULL} /\ links.last \in Nodes \cup {NULL}
  BY <1>1, NodesAssumption DEF Chained
<1>4. Set!GetFirst = links.first /\ Set!GetLast = links.last
  BY <1>2, <1>3 DEF Set!GetFirst, Set!GetLast
<1>5. ASSUME NEW n
      PROVE  Set!IsAvailableEntry(n) <=> n \in available
  BY <1>2, <1>3 DEF Set!IsAvailableEntry
<1> QED BY <1>3, <1>4, <1>5

\* An enumerator changes nothing but itself.
LEMMA WalkerStep ==
  ASSUME SetIInv, NEW w \in Walkers, NEW c, NEW r,
         standing' = [standing EXCEPT ![w] = c], tour' = [tour EXCEPT ![w] = r],
         used' = {}, UNCHANGED <<links, value, index, available, heap>>,
         \A p : /\ Chained(links, Nodes, available, p)
                /\ Touring(p, index, available, standing[w], tour[w])
                => Touring(p, index, available, c, r)
  PROVE  SetIInv'
<1>1. PICK p : Chained(links, Nodes, available, p) /\ Tours(p)
  BY DEF SetIInv
<1>2. ASSUME NEW x \in Walkers
      PROVE  Touring(p, index, available, standing'[x], tour'[x])
  <2>1. Touring(p, index, available, standing[x], tour[x])
    BY <1>1 DEF Tours
  <2>2. CASE x = w
    <3>1. standing'[x] = c /\ tour'[x] = r
      BY <2>2, <1>1 DEF Tours
    <3> QED BY <1>1, <2>1, <2>2, <3>1
  <2>3. CASE x # w
    <3>1. standing'[x] = standing[x] /\ tour'[x] = tour[x]
      BY <2>3, <1>1 DEF Tours
    <3> QED BY <2>1, <3>1
  <2> QED BY <2>2, <2>3
<1>3. /\ standing' = [x \in Walkers |-> standing'[x]]
      /\ tour' = [x \in Walkers |-> tour'[x]]
  BY <1>1 DEF Tours
<1>4. Tours(p)'
  BY <1>2, <1>3 DEF Tours
<1>5. Chained(links', Nodes, available', p)
  BY <1>1
<1>6. heap' = available' /\ Views(value', index', available')
  BY DEF SetIInv
<1> QED BY <1>4, <1>5, <1>6 DEF SetIInv

LEMMA TourGivenUp ==
  ASSUME NEW p, NEW t, NEW A, NEW e \in Nodes \cup {NULL}, NEW b \in BOOLEAN
  PROVE  Touring(p, t, A, [entry |-> e, rst |-> b], Set!NoTour)
BY DEF Touring, Set!NoTour, Set!Unseen

\* A tour that has yielded what is placed up to k goes on to the next.
LEMMA TourGoesOn ==
  ASSUME SetIInv, NEW p, Chained(links, Nodes, available, p),
         NEW k \in 0 .. links.count, NEW e \in available \cup {NULL},
         IF k = links.count THEN e = NULL ELSE e # NULL /\ p[e] = k + 1,
         NEW r, r = [staying |-> r.staying, seen |-> r.seen, sound |-> r.sound, over |-> r.over],
         r.staying \subseteq DOMAIN index, r.seen \in [Members -> Nat],
         r.sound \in BOOLEAN,
         r.sound => \A v \in r.staying : r.seen[v] = IF p[index[v]] <= k THEN 1 ELSE 0
  PROVE  Touring(p, index, available, [entry |-> e, rst |-> FALSE], Set!Arrived(r, e))
<1> DEFINE z == Set!Arrived(r, e)
<1>1. z = [staying |-> r.staying,
           seen |-> [v \in Members |-> IF e # NULL /\ v \in r.staying /\ value[e] = v
                                       THEN r.seen[v] + 1 ELSE r.seen[v]],
           sound |-> r.sound, over |-> e = NULL]
  <2> DEFINE f == [v \in Members |-> IF e # NULL /\ v \in r.staying /\ value[e] = v
                                    THEN r.seen[v] + 1 ELSE r.seen[v]]
  <2>1. z = [r EXCEPT !.seen = f, !.over = e = NULL]
    BY Zenon DEF Set!Arrived
  <2> HIDE DEF z, f
  <2>2. z = [staying |-> r.staying, seen |-> f, sound |-> r.sound, over |-> e = NULL]
    BY <2>1
  <2> QED BY <2>2 DEF f
<1> HIDE DEF z
<1>2. /\ Views(value, index, available) /\ NULL \notin available /\ available \subseteq Nodes
  BY SetEnds DEF SetIInv
<1>3. \A v \in r.staying : v \in Members /\ index[v] \in available /\ value[index[v]] = v
  BY <1>2 DEF Views
<1>4. \A n \in available : p[n] \in 1 .. links.count /\ links.count \in Nat
  BY DEF Chained
<1>5. /\ z = [staying |-> z.staying, seen |-> z.seen, sound |-> z.sound, over |-> z.over]
      /\ z.staying = r.staying /\ z.sound = r.sound /\ z.over = (e = NULL)
      /\ z.seen \in [Members -> Nat]
  BY <1>1
<1>6. ASSUME z.sound, z.over
      PROVE  \A v \in z.staying : z.seen[v] = 1
  <2>1. e = NULL /\ k = links.count
    BY <1>5, <1>6
  <2>2. \A v \in r.staying : z.seen[v] = r.seen[v] /\ p[index[v]] <= k
    BY <2>1, <1>1, <1>3, <1>4
  <2> QED BY <2>2, <1>5, <1>6
<1>7. ASSUME z.sound, ~z.over
      PROVE  /\ e \in available
             /\ \A v \in z.staying : z.seen[v] = IF p[index[v]] <= p[e] THEN 1 ELSE 0
  <2>1. e # NULL /\ e \in available /\ p[e] = k + 1
    BY <1>5, <1>7
  <2>2. ASSUME NEW v \in r.staying
        PROVE  z.seen[v] = IF p[index[v]] <= p[e] THEN 1 ELSE 0
    <3>1. /\ v \in Members /\ index[v] \in available /\ value[index[v]] = v
          /\ p[index[v]] \in Nat /\ k \in Nat
      BY <1>3, <1>4
    <3>2. r.seen[v] = IF p[index[v]] <= k THEN 1 ELSE 0
      BY <1>5, <1>7
    <3>3. value[e] = v <=> index[v] = e
      BY <2>1, <3>1, <1>2 DEF Views
    <3>4. index[v] = e <=> p[index[v]] = k + 1
      BY <2>1, <3>1 DEF Chained
    <3>5. z.seen[v] = IF index[v] = e THEN r.seen[v] + 1 ELSE r.seen[v]
      BY <1>1, <2>1, <3>1, <3>3
    <3> QED BY <2>1, <3>1, <3>2, <3>4, <3>5
  <2> QED BY <2>1, <2>2, <1>5
<1> DEFINE c == [entry |-> e, rst |-> FALSE]
<1>8. c = [entry |-> c.entry, rst |-> c.rst] /\ c.entry = e /\ c.rst = FALSE
      /\ e \in Nodes \cup {NULL}
  BY <1>2
<1> HIDE DEF c
<1>9. Touring(p, index, available, c, z)
  BY <1>5, <1>6, <1>7, <1>8 DEF Touring
<1> QED BY <1>9 DEF c, z

\* A tour starts at the first value.
LEMMA TourStarts ==
  ASSUME SetIInv, NEW p, Chained(links, Nodes, available, p)
  PROVE  Touring(p, index, available, [entry |-> links.first, rst |-> FALSE],
                 Set!Arrived(Set!Started, links.first))
<1> DEFINE r == Set!Started
<1>1. r = [staying |-> DOMAIN index, seen |-> [v \in Members |-> 0],
           sound |-> TRUE, over |-> FALSE]
  BY DEF Set!Started, Set!Unseen
<1> HIDE DEF r
<1>2. DOMAIN index \subseteq Members /\ \A v \in DOMAIN index : index[v] \in available
  BY DEF SetIInv, Views
<1>3. \A n \in available : p[n] \in 1 .. links.count
  BY DEF Chained
<1>4. \A v \in r.staying : r.seen[v] = IF p[index[v]] <= 0 THEN 1 ELSE 0
  BY <1>1, <1>2, <1>3
<1>5. 0 \in 0 .. links.count /\ links.first \in available \cup {NULL}
  BY DEF Chained
<1>6. IF 0 = links.count THEN links.first = NULL
      ELSE links.first # NULL /\ p[links.first] = 0 + 1
  <2>1. (links.count = 0 <=> available = {}) /\ (links.first = NULL <=> available = {})
    BY NodesAssumption, ChainedLinks
  <2>2. links.first # NULL => p[links.first] = 1
    BY DEF Chained
  <2> QED BY <2>1, <2>2
<1>7. Touring(p, index, available, [entry |-> links.first, rst |-> FALSE],
              Set!Arrived(r, links.first))
  BY <1>1, <1>2, <1>4, <1>5, <1>6, TourGoesOn
<1> QED BY <1>7 DEF r

\* What an enumerator reads is allocated.
LEMMA ReadsSound ==
  ASSUME SetIInv, NEW w \in Walkers, Set!Reads(w)
  PROVE  used' = {}
<1>1. used = {} /\ heap = available
  BY DEF SetIInv
<1>2. Set!IsAvailableEntry(standing[w].entry) <=> standing[w].entry \in available
  BY SetEnds
<1> QED BY <1>1, <1>2 DEF Set!Reads

LEMMA MoveNextStep ==
  ASSUME SetIInv, NEW w \in Walkers, Set!MoveNext(w)
  PROVE  SetIInv'
<1> PICK old, was : old = standing[w] /\ was = tour[w]
  OBVIOUS
<1>1. CASE old.rst
  <2> PICK c, r : /\ c = [entry |-> links.first, rst |-> FALSE]
                  /\ r = Set!Arrived(Set!Started, links.first)
    OBVIOUS
  <2>1. /\ standing' = [standing EXCEPT ![w] = c]
        /\ tour' = [tour EXCEPT ![w] = r]
        /\ UNCHANGED <<links, value, index, available, heap, used>>
    BY <1>1, SetEnds DEF Set!MoveNext
  <2>2. used' = {}
    BY <2>1 DEF SetIInv
  <2>3. \A p : Chained(links, Nodes, available, p) => Touring(p, index, available, c, r)
    BY TourStarts
  <2> QED BY <2>1, <2>2, <2>3, WalkerStep
<1>2. CASE ~old.rst
  <2> PICK e : e = Set!Beyond(w, links.next)
    OBVIOUS
  <2> PICK c, r : c = [entry |-> e, rst |-> FALSE] /\ r = Set!Arrived(was, e)
    OBVIOUS
  <2>1. /\ standing' = [standing EXCEPT ![w] = c]
        /\ tour' = [tour EXCEPT ![w] = r]
        /\ UNCHANGED <<links, value, index, available, heap>>
        /\ Set!Reads(w) /\ old.entry # NULL
    BY <1>2 DEF Set!MoveNext
  <2>2. used' = {}
    BY <2>1, ReadsSound
  <2>3. e = IF old.entry \in available THEN links.next[old.entry] ELSE NULL
    BY SetEnds DEF Set!Beyond
  <2>4. ASSUME NEW p, Chained(links, Nodes, available, p),
               Touring(p, index, available, old, was)
        PROVE  Touring(p, index, available, c, r)
    <3>1. /\ was = [staying |-> was.staying, seen |-> was.seen, sound |-> was.sound,
                    over |-> was.over]
          /\ was.staying \subseteq DOMAIN index /\ was.seen \in [Members -> Nat]
          /\ was.sound \in BOOLEAN /\ was.over \in BOOLEAN
      BY <2>4 DEF Touring
    <3>2. /\ links.count \in Nat /\ e \in available \cup {NULL}
          /\ NULL \notin available /\ available \subseteq Nodes
      BY <2>3, <2>4, SetEnds DEF Chained
    <3>3. CASE was.sound
      <4>1. ~was.over /\ old.entry \in available
        BY <2>1, <2>4, <3>1, <3>3 DEF Touring
      <4>2. \A v \in was.staying : was.seen[v] = IF p[index[v]] <= p[old.entry] THEN 1 ELSE 0
        BY <2>4, <3>3, <4>1 DEF Touring
      <4>3. p[old.entry] \in 0 .. links.count
        BY <2>4, <4>1 DEF Chained
      <4>4. IF p[old.entry] = links.count THEN e = NULL
            ELSE e # NULL /\ p[e] = p[old.entry] + 1
        <5>1. e = links.next[old.entry]
          BY <2>3, <4>1
        <5>2. p[old.entry] = links.count <=> old.entry = links.last
          BY <2>4, <4>1, NodesAssumption, ChainedLinks
        <5>3. old.entry = links.last <=> e = NULL
          BY <2>4, <4>1, <5>1, NodesAssumption, Neighbours
        <5>4. e # NULL => p[e] = p[old.entry] + 1
          BY <2>4, <4>1, <5>1 DEF Chained
        <5> QED BY <5>2, <5>3, <5>4
      <4> QED BY <2>4, <3>1, <3>2, <4>2, <4>3, <4>4, TourGoesOn
    <3>4. CASE ~was.sound
      <4>1. \E k \in 0 .. links.count : IF k = links.count THEN e = NULL
                                         ELSE e # NULL /\ p[e] = k + 1
        <5>1. CASE e = NULL
          BY <5>1, <3>2
        <5>2. CASE e # NULL
          <6>1. p[e] - 1 \in 0 .. links.count /\ p[e] - 1 # links.count /\ p[e] = p[e] - 1 + 1
            BY <5>2, <2>4, <3>2 DEF Chained
          <6> QED BY <5>2, <6>1
        <5> QED BY <5>1, <5>2
      <4> QED BY <2>4, <3>1, <3>2, <3>4, <4>1, TourGoesOn
    <3> QED BY <3>1, <3>3, <3>4
  <2> QED BY <2>1, <2>2, <2>4, WalkerStep
<1>3. old.rst \in BOOLEAN
  BY DEF SetIInv, Tours, Touring
<1> QED BY <1>1, <1>2, <1>3

LEMMA MoveBackStep ==
  ASSUME SetIInv, NEW w \in Walkers, Set!MoveBack(w)
  PROVE  SetIInv'
<1> PICK old : old = standing[w]
  OBVIOUS
<1> PICK e : e = IF old.rst THEN Set!GetLast ELSE Set!Beyond(w, links.prev)
  OBVIOUS
<1> PICK c, r : c = [entry |-> e, rst |-> FALSE] /\ r = Set!NoTour
  OBVIOUS
<1>1. /\ standing' = [standing EXCEPT ![w] = c] /\ tour' = [tour EXCEPT ![w] = r]
      /\ UNCHANGED <<links, value, index, available, heap>>
      /\ used' = used \/ Set!Reads(w)
  <2>1. /\ standing' = [standing EXCEPT ![w] =
              [entry |-> IF standing[w].rst THEN Set!GetLast ELSE Set!Beyond(w, links.prev),
               rst |-> FALSE]]
        /\ tour' = [tour EXCEPT ![w] = Set!NoTour]
        /\ UNCHANGED <<links, value, index, available, heap>>
        /\ IF standing[w].rst THEN UNCHANGED used ELSE Set!Reads(w)
    BY Zenon DEF Set!MoveBack
  <2> QED BY <2>1
<1>2. used' = {}
  BY <1>1, ReadsSound DEF SetIInv
<1>3. e \in Nodes \cup {NULL}
  <2>1. links.prev \in [Nodes -> available \cup {NULL}] /\ available \subseteq Nodes
    BY DEF SetIInv, Chained
  <2>2. Set!Beyond(w, links.prev) \in Nodes \cup {NULL}
    BY <2>1, SetEnds DEF Set!Beyond
  <2> QED BY <2>2, SetEnds
<1>4. \A p : Touring(p, index, available, c, r)
  BY <1>3, TourGivenUp
<1> QED BY <1>1, <1>2, <1>4, WalkerStep

LEMMA GetCurrentStep ==
  ASSUME SetIInv, NEW w \in Walkers, Set!GetCurrent(w)
  PROVE  SetIInv'
<1> PICK old, was : old = standing[w] /\ was = tour[w]
  OBVIOUS
<1>1. /\ standing' = [standing EXCEPT ![w].entry =
                        IF Set!IsAvailableEntry(@) THEN @ ELSE NULL]
      /\ Set!Reads(w)
      /\ tour' = IF standing'[w].entry = NULL THEN [tour EXCEPT ![w] = Set!NoTour] ELSE tour
      /\ UNCHANGED <<links, value, index, available, heap>>
      /\ old.entry # NULL
  BY DEF Set!GetCurrent
<1>2. /\ standing = [x \in Walkers |-> standing[x]] /\ tour = [x \in Walkers |-> tour[x]]
      /\ old = [entry |-> old.entry, rst |-> old.rst] /\ old.rst \in BOOLEAN
  BY DEF SetIInv, Tours, Touring
<1> PICK c : c = [entry |-> IF old.entry \in available THEN old.entry ELSE NULL,
                  rst |-> old.rst]
  OBVIOUS
<1> PICK r : r = IF c.entry = NULL THEN Set!NoTour ELSE was
  OBVIOUS
<1>3. standing' = [standing EXCEPT ![w] = c]
  <2>1. Set!IsAvailableEntry(old.entry) <=> old.entry \in available
    BY SetEnds
  <2>2. [old EXCEPT !.entry = IF Set!IsAvailableEntry(@) THEN @ ELSE NULL] = c
    BY <2>1, <1>2
  <2>3. standing' = [standing EXCEPT ![w] =
                       [old EXCEPT !.entry = IF Set!IsAvailableEntry(@) THEN @ ELSE NULL]]
    BY <1>1, <1>2
  <2> QED BY <2>2, <2>3
<1>4. tour' = [tour EXCEPT ![w] = r]
  <2>1. standing'[w] = c
    BY <1>2, <1>3
  <2>2. CASE c.entry = NULL
    BY <1>1, <2>1, <2>2
  <2>3. CASE c.entry # NULL
    <3>1. tour' = tour /\ r = tour[w]
      BY <1>1, <2>1, <2>3
    <3>2. [tour EXCEPT ![w] = tour[w]] = tour
      BY <1>2
    <3> QED BY <3>1, <3>2
  <2> QED BY <2>2, <2>3
<1>5. used' = {}
  BY <1>1, ReadsSound
<1>6. ASSUME NEW p, Touring(p, index, available, old, was)
      PROVE  Touring(p, index, available, c, r)
  <2>1. available \subseteq Nodes /\ NULL \notin available
    BY SetEnds
  <2>2. CASE old.entry \in available
    <3>1. c = old /\ r = was
      BY <2>1, <2>2, <1>2
    <3> QED BY <3>1, <1>6
  <2>3. CASE old.entry \notin available
    <3>1. c = [entry |-> NULL, rst |-> old.rst] /\ r = Set!NoTour
      BY <2>3
    <3> QED BY <3>1, <1>2, TourGivenUp
  <2> QED BY <2>2, <2>3
<1>7. \A p : Touring(p, index, available, standing[w], tour[w])
              => Touring(p, index, available, c, r)
  BY <1>6
<1>8. UNCHANGED <<links, value, index, available, heap>>
  BY <1>1
<1> QED BY <1>3, <1>4, <1>5, <1>7, <1>8, WalkerStep

LEMMA PlacedStep ==
  ASSUME SetIInv, NEW w \in Walkers, NEW n \in Nodes \cup {NULL}, Set!Placed(w, n),
         tour' = [tour EXCEPT ![w] = Set!NoTour]
  PROVE  SetIInv'
<1> PICK c, r : c = [entry |-> n, rst |-> n = NULL] /\ r = Set!NoTour
  OBVIOUS
<1>1. /\ standing' = [standing EXCEPT ![w] = c] /\ tour' = [tour EXCEPT ![w] = r]
      /\ UNCHANGED <<links, value, index, available, heap, used>>
  BY DEF Set!Placed
<1>2. used' = {}
  BY <1>1 DEF SetIInv
<1>3. \A p : Touring(p, index, available, c, r)
  <2>1. (n = NULL) \in BOOLEAN
    OBVIOUS
  <2> QED BY <2>1, TourGivenUp
<1> QED BY <1>1, <1>2, <1>3, WalkerStep

LEMMA BeginStep ==
  ASSUME SetIInv, NEW w \in Walkers, Set!Begin(w)
  PROVE  SetIInv'
<1>1. /\ Set!Placed(w, links.first) /\ links.first \in Nodes \cup {NULL}
      /\ tour' = [tour EXCEPT ![w] = IF links.first = NULL THEN Set!NoTour
                                     ELSE Set!Arrived(Set!Started, links.first)]
  BY SetEnds DEF Set!Begin
<1>2. CASE links.first = NULL
  BY <1>1, <1>2, PlacedStep
<1>3. CASE links.first # NULL
  <2> PICK c, r : /\ c = [entry |-> links.first, rst |-> FALSE]
                  /\ r = Set!Arrived(Set!Started, links.first)
    OBVIOUS
  <2>1. /\ standing' = [standing EXCEPT ![w] = c] /\ tour' = [tour EXCEPT ![w] = r]
        /\ UNCHANGED <<links, value, index, available, heap, used>>
    BY <1>1, <1>3 DEF Set!Placed
  <2>2. used' = {}
    BY <2>1 DEF SetIInv
  <2>3. \A p : Chained(links, Nodes, available, p) => Touring(p, index, available, c, r)
    BY TourStarts
  <2> QED BY <2>1, <2>2, <2>3, WalkerStep
<1> QED BY <1>2, <1>3

LEMMA SetStep ==
  ASSUME SetIInv, Set!SetNext
  PROVE  SetIInv'
<1>1. CASE \E v \in Members : Set!Insert(v) \/ Set!RemoveValue(v)
  BY <1>1, InsertStep, RemoveStep
<1>2. CASE Set!ClearSet
  BY <1>2, ClearStep
<1>3. ASSUME NEW w \in Walkers,
             Set!MoveNext(w) \/ Set!MoveBack(w) \/ Set!GetCurrent(w)
      PROVE  SetIInv'
  BY <1>3, MoveNextStep, MoveBackStep, GetCurrentStep
<1>4. ASSUME NEW w \in Walkers,
             Set!Begin(w) \/ Set!AtEnd(w) \/ Set!Reset(w) \/ \E v \in Members : Set!Find(w, v)
      PROVE  SetIInv'
  <2>1. CASE Set!Begin(w)
    BY <2>1, BeginStep
  <2>2. CASE Set!AtEnd(w)
    BY <2>2, SetEnds, PlacedStep DEF Set!AtEnd
  <2>3. CASE Set!Reset(w)
    BY <2>3, PlacedStep DEF Set!Reset
  <2>4. ASSUME NEW v \in Members, Set!Find(w, v)
        PROVE  SetIInv'
    <3> PICK n : n = IF v \in DOMAIN index THEN index[v] ELSE NULL
      OBVIOUS
    <3>1. Set!Placed(w, n) /\ tour' = [tour EXCEPT ![w] = Set!NoTour]
      BY <2>4 DEF Set!Find
    <3>2. n \in Nodes \cup {NULL}
      BY SetEnds DEF SetIInv, Views
    <3> QED BY <3>1, <3>2, PlacedStep
  <2> QED BY <1>4, <2>1, <2>2, <2>3, <2>4
<1> QED BY <1>1, <1>2, <1>3, <1>4 DEF Set!SetNext

\* The set's own invariant, while it is the container that is used.
SetKept == (bucket = NULL \/ heap = NULL) /\ (heap # NULL => SetIInv)

LEMMA SetKeptStarts == CollectionsInit => SetKept
BY SetStarts DEF CollectionsInit, SetKept, NoSet, NoBucket

LEMMA SetKeptStays == SetKept /\ [CollectionsNext]_collectionVars => SetKept'
<1> SUFFICES ASSUME SetKept, [CollectionsNext]_collectionVars
             PROVE  SetKept'
  OBVIOUS
<1>1. CASE UNCHANGED <<bucketOnlyVars, setOnlyVars, links, value>>
  BY <1>1 DEF SetKept, SetIInv, Tours, bucketOnlyVars, setOnlyVars
<1>2. CASE bucket # NULL /\ UNCHANGED setOnlyVars
  BY <1>2 DEF SetKept, setOnlyVars
<1>3. CASE heap # NULL /\ Set!SetNext /\ UNCHANGED bucketOnlyVars
  BY <1>3, SetStep DEF SetKept, bucketOnlyVars
<1>4. UNCHANGED collectionVars => UNCHANGED <<bucketOnlyVars, setOnlyVars, links, value>>
  BY DEF collectionVars
<1> QED BY <1>1, <1>2, <1>3, <1>4 DEF CollectionsNext

\* The set's list, table, available nodes and memory agree and no enumerator
\* reads a freed node, whatever was removed and allocated again under it; and
\* an enumeration that never stood on a removed value yields every value that
\* stayed exactly once (ConcurrentSet.h), for any values, nodes and enumerators.
THEOREM SetToursWhole == CollectionsSpec => []SetToured
<1>1. SetKept => SetToured
  BY SetIInvAgrees DEF SetKept, SetToured
<1> QED BY <1>1, SetKeptStarts, SetKeptStays, PTL DEF CollectionsSpec
=============================================================================
