---------------------------- MODULE MCUdpService ----------------------------
(* UdpService for TLC: the port of the clients, and a foreign datagram for  *)
(* the server and for the client.                                           *)
EXTENDS UdpService, TLC

CONSTANTS c1, c2

OnePort == c1 :> 5000 @@ c2 :> 5000
SomeStrays == {[type |-> 0, dest |-> to, port |-> 5000, seq_id |-> 1, of |-> Nothing, copy |-> 1] :
                  to \in {"server", "client"}}
=============================================================================
