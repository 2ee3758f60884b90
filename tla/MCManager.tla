----------------------------- MODULE MCManager -----------------------------
(* Manager for TLC: the servers succeed each other under one name, of the   *)
(* node and of the service.                                                 *)
EXTENDS Manager, TLC

CONSTANTS v1, v2, c1, server, client, add

MCNodeName == [t \in Procs |-> IF t \in Clients THEN client ELSE server]
MCService == [t \in Procs |-> add]
=============================================================================
