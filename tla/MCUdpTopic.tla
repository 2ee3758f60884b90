----------------------------- MODULE MCUdpTopic -----------------------------
(* UdpTopic for TLC: senders, and subscribers, are interchangeable.         *)
EXTENDS UdpTopic, TLC

Symmetry == Permutations(Pubs) \cup Permutations(Subs)
=============================================================================
