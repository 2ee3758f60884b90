-------------------------- MODULE MCServiceChannel --------------------------
(* ServiceChannel for TLC: the clients are interchangeable.                 *)
EXTENDS ServiceChannel, TLC

Symmetry == Permutations(Clients)
=============================================================================
