----------------------------- MODULE MCZeroCopy -----------------------------
(* ZeroCopy for TLC: publishers, and messages of one size, are              *)
(* interchangeable.                                                         *)
EXTENDS ZeroCopy, TLC

CONSTANTS Small, Big

Sizes == [m \in Small |-> 5] @@ [m \in Big |-> 16]
Symmetry == Permutations(Pubs) \cup Permutations(Small) \cup Permutations(Big)
=============================================================================
