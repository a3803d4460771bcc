----------------------------- MODULE MCStageHub -----------------------------
(* StageHub on small sets of sockets, vectors and link numbers.            *)
EXTENDS StageHub, TLC

\* Link numbers are interchangeable, and so are the sockets and the vectors of
\* one kind.
HubSymmetry ==
  Permutations(Clients) \cup Permutations(Servers)
    \cup Permutations(LinkNos)
    \cup Permutations(ClientVecs) \cup Permutations(ServerVecs)
=============================================================================
