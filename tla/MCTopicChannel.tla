--------------------------- MODULE MCTopicChannel ---------------------------
(* TopicChannel for TLC: publishers, and subscribers, are interchangeable   *)
(* where all or none of them may be killed.                                 *)
EXTENDS TopicChannel, TLC

Symmetry == Permutations(Pubs) \cup Permutations(Subs)
=============================================================================
