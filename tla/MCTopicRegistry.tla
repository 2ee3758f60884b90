-------------------------- MODULE MCTopicRegistry --------------------------
(* TopicRegistry for TLC.  Names are "a/b", "a_b", "c" and one of more than *)
(* 63 characters; the first two share a file, the last is stored cut off.   *)
EXTENDS TopicRegistry, TLC

CONSTANTS p1, p2, s1, ab, a_b, c, long, cut

AllFiles == (ab :> ab) @@ (a_b :> ab) @@ (c :> c) @@ (long :> long)
AllStored == (ab :> ab) @@ (a_b :> a_b) @@ (c :> c) @@ (long :> cut)
MCFileOf == [n \in Names |-> AllFiles[n]]
MCStored == [n \in Names |-> AllStored[n]]
=============================================================================
