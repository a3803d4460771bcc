---------------------------- MODULE MCCollections ----------------------------
EXTENDS Collections, TLC

\* What is put in is only compared.
Symmetry == Permutations(Values)
==============================================================================
