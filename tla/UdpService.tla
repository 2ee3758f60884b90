----------------------------- MODULE UdpService -----------------------------
(***************************************************************************)
(* A remote call over UDP: UDPServiceClient::call and, on the other side,  *)
(* receive_request and send_response of UDPServiceServer (udp_node.cpp).   *)
(* The network loses, repeats and reorders datagrams, the server can be    *)
(* killed and started again at any point, a call gives up after its        *)
(* timeout, and its late answer may then arrive during the next call.      *)
(*                                                                         *)
(* What is asked and answered is reduced to which call it belongs to.      *)
(***************************************************************************)
EXTENDS Integers, FiniteSets, Functions

CONSTANTS Clients,      \* the UDPServiceClient objects
          PortOf,       \* PortOf[c] : the port its socket is bound to
          Strays,       \* the datagrams others may send to these ports, see Foreign
          IdMod,        \* request ids are counted modulo this (2^32)
          MaxCalls,     \* bound: the calls of a client
          MaxInAll,     \* bound: the calls of all clients together
          MaxCopies,    \* bound: how often the network delivers a datagram
          MaxCrashes,   \* bound: how often the server is killed
          Nothing

Calls == [client : Clients, n : 1 .. MaxCalls]
Ids == 0 .. IdMod - 1
Ports == {PortOf[c] : c \in Clients}

\* A datagram carries its type, the request id and - what is in its payload -
\* the call it belongs to.  port is the client's end, dest says which end it
\* is for, copy tells apart the copies the network makes of it.
Copy == 1 .. MaxCopies
Requests == [type : {1}, dest : {"server"}, port : Ports, seq_id : Ids, of : Calls, copy : Copy]
Responses == [type : {2}, dest : {"client"}, port : Ports, seq_id : Ids, of : Calls, copy : Copy]
Foreign == [type : {0}, dest : {"server", "client"}, port : Ports, seq_id : Ids,
            of : {Nothing}, copy : Copy]
Datagrams == Requests \cup Responses \cup Foreign

ASSUME UdpServiceAssumption ==
  /\ DOMAIN PortOf = Clients
  /\ IdMod \in Nat \ {0, 1}
  /\ MaxCalls \in Nat /\ MaxCopies \in Nat \ {0} /\ MaxCrashes \in Nat
  /\ Strays \subseteq Foreign
  /\ Nothing \notin Calls \cup Requests

VARIABLES
  network,              \* the datagrams that will still arrive, in any order
  pc,                   \* where each client is
  current_request_id,   \* UDPServiceClient::current_request_id_
  calls,                \* history: the calls each client has made
  answer,               \* history: the call whose answer the last call returned
  srv,                  \* where the server is
  client_info,          \* the request it works on
  executed,             \* history: how often each call was executed
  crashes               \* history: how often the server was killed

vars == <<network, pc, current_request_id, calls, answer, srv, client_info, executed, crashes>>

ClientPCs == {"closed", "idle", "timed", "forever", "gone"}
Waiting(c) == pc[c] \in {"timed", "forever"}

Init ==
  /\ network = {}
  /\ pc = [c \in Clients |-> "closed"]
  /\ current_request_id = [c \in Clients |-> 0]
  /\ calls = [c \in Clients |-> 0]
  /\ answer = [c \in Clients |-> Nothing]
  /\ srv = "receive" /\ client_info = Nothing
  /\ executed = [k \in Calls |-> 0]
  /\ crashes = 0

\* sendto: the datagram will arrive k times, for some k; if 0, it is lost.
Sent(d, k) == network \cup {[d EXCEPT !.copy = i] : i \in 1 .. k}
Arrived(d) == network \ {d}
-----------------------------------------------------------------------------
\* Somebody else's datagram is on its way to one of the two ends: at any time,
\* and any number of times.
Noise ==
  /\ \E d \in Strays \ network : network' = network \cup {d}
  /\ UNCHANGED <<pc, current_request_id, calls, answer, srv, client_info, executed, crashes>>
-----------------------------------------------------------------------------
(* The client. *)

\* A port belongs to one socket at a time; another client may get it later.
Open(c) ==
  /\ pc[c] = "closed"
  /\ \A d \in Clients : PortOf[d] = PortOf[c] => pc[d] \in {"closed", "gone"}
  /\ pc' = [pc EXCEPT ![c] = "idle"]
  /\ UNCHANGED <<network, current_request_id, calls, answer, srv, client_info, executed, crashes>>

InAll == SumFunction(calls)

\* Mutant: the request carries the id from before it is counted up.
BugCall(c, wait, k) ==
  LET id   == (current_request_id[c] + 1) % IdMod
      this == [client |-> c, n |-> calls[c] + 1]
  IN  /\ pc[c] = "idle" /\ calls[c] < MaxCalls /\ InAll < MaxInAll
      /\ current_request_id' = [current_request_id EXCEPT ![c] = id]
      /\ calls' = [calls EXCEPT ![c] = @ + 1]
      /\ network' = Sent([type |-> 1, dest |-> "server", port |-> PortOf[c],
                          seq_id |-> current_request_id[c], of |-> this, copy |-> 1], k)
      /\ pc' = [pc EXCEPT ![c] = wait]
      /\ answer' = [answer EXCEPT ![c] = Nothing]
      /\ UNCHANGED <<srv, client_info, executed, crashes>>

\* call up to recvfrom; timeout_ms = 0 waits for ever.
Call(c, wait, k) ==
  LET id   == (current_request_id[c] + 1) % IdMod
      this == [client |-> c, n |-> calls[c] + 1]
  IN  /\ pc[c] = "idle" /\ calls[c] < MaxCalls /\ InAll < MaxInAll
      /\ current_request_id' = [current_request_id EXCEPT ![c] = id]
      /\ calls' = [calls EXCEPT ![c] = @ + 1]
      /\ network' = Sent([type |-> 1, dest |-> "server", port |-> PortOf[c],
                          seq_id |-> id, of |-> this, copy |-> 1], k)
      /\ pc' = [pc EXCEPT ![c] = wait]
      /\ answer' = [answer EXCEPT ![c] = Nothing]
      /\ UNCHANGED <<srv, client_info, executed, crashes>>

\* Mutant: the type is checked and the id is not.
BugMatches(c, d) == d.type = 2

\* The check of the session: a response, with the id of this call.
Matches(c, d) == d.type = 2 /\ d.seq_id = current_request_id[c]

For(c, d) == d.dest = "client" /\ d.port = PortOf[c]

Accept(c) ==
  /\ Waiting(c)
  /\ \E d \in network :
        /\ For(c, d) /\ Matches(c, d)
        /\ network' = Arrived(d)
        /\ answer' = [answer EXCEPT ![c] = d.of]
  /\ pc' = [pc EXCEPT ![c] = "idle"]
  /\ UNCHANGED <<current_request_id, calls, srv, client_info, executed, crashes>>

\* Anything else that arrives is thrown away, and recvfrom called again with
\* its whole timeout.
Ignore(c) ==
  /\ Waiting(c)
  /\ \E d \in network : For(c, d) /\ ~Matches(c, d) /\ network' = Arrived(d)
  /\ UNCHANGED <<pc, current_request_id, calls, answer, srv, client_info, executed, crashes>>

\* recvfrom has waited for the whole of its timeout.
Timeout(c) ==
  /\ pc[c] = "timed"
  /\ pc' = [pc EXCEPT ![c] = "idle"]
  /\ UNCHANGED <<network, current_request_id, calls, answer, srv, client_info, executed, crashes>>

Close(c) ==
  /\ pc[c] = "idle"
  /\ pc' = [pc EXCEPT ![c] = "gone"]
  /\ UNCHANGED <<network, current_request_id, calls, answer, srv, client_info, executed, crashes>>
-----------------------------------------------------------------------------
(* The server: receive_request, what the application does with it,          *)
(* send_response.  It keeps nothing from one request to the next.           *)

ReceiveRequest ==
  /\ srv = "receive"
  /\ \E d \in network :
        /\ d.dest = "server"
        /\ network' = Arrived(d)
        /\ IF d.type = 1
           THEN srv' = "execute" /\ client_info' = d
           ELSE UNCHANGED <<srv, client_info>>
  /\ UNCHANGED <<pc, current_request_id, calls, answer, executed, crashes>>

Execute ==
  /\ srv = "execute"
  /\ executed' = [executed EXCEPT ![client_info.of] = @ + 1]
  /\ srv' = "respond"
  /\ UNCHANGED <<network, pc, current_request_id, calls, answer, client_info, crashes>>

SendResponse(k) ==
  /\ srv = "respond"
  /\ network' = Sent([type |-> 2, dest |-> "client", port |-> client_info.port,
                      seq_id |-> client_info.seq_id, of |-> client_info.of, copy |-> 1], k)
  /\ srv' = "receive" /\ client_info' = Nothing
  /\ UNCHANGED <<pc, current_request_id, calls, answer, executed, crashes>>

Crash ==
  /\ srv # "down" /\ crashes < MaxCrashes
  /\ srv' = "down" /\ client_info' = Nothing /\ crashes' = crashes + 1
  /\ UNCHANGED <<network, pc, current_request_id, calls, answer, executed>>

Restart ==
  /\ srv = "down"
  /\ srv' = "receive"
  /\ UNCHANGED <<network, pc, current_request_id, calls, answer, client_info, executed, crashes>>

Next ==
  \/ \E c \in Clients :
        \/ Open(c) \/ Accept(c) \/ Ignore(c) \/ Timeout(c) \/ Close(c)
        \/ \E wait \in {"timed", "forever"}, k \in 0 .. MaxCopies : Call(c, wait, k)
  \/ Noise
  \/ ReceiveRequest \/ Execute \/ (\E k \in 0 .. MaxCopies : SendResponse(k)) \/ Crash \/ Restart

Spec == Init /\ [][Next]_vars

\* What is in the socket's queue comes out of it, in the end.  The timer runs
\* from the last recvfrom on, so that it is only certain to go off if the
\* client does not throw datagrams away again and again.
TimerFairness(c) == WF_vars(Timeout(c)) \/ []<><<Ignore(c)>>_vars
Fairness == \A c \in Clients : WF_vars(Accept(c)) /\ TimerFairness(c)

FairSpec == Spec /\ Fairness
-----------------------------------------------------------------------------
TypeOK ==
  /\ network \subseteq Datagrams
  /\ pc \in [Clients -> ClientPCs]
  /\ current_request_id \in [Clients -> Ids]
  /\ calls \in [Clients -> 0 .. MaxCalls]
  /\ answer \in [Clients -> Calls \cup {Nothing}]
  /\ srv \in {"receive", "execute", "respond", "down"}
  /\ client_info \in Requests \cup {Nothing}
  /\ (client_info # Nothing) <=> srv \in {"execute", "respond"}
  /\ executed \in [Calls -> Nat]
  /\ crashes \in 0 .. MaxCrashes

\* The answer a call returns is the answer to this call, and the call has been
\* executed: late answers to calls that timed out, repeated ones and foreign
\* datagrams never pass for it - on a port nobody has called from before, and
\* until request ids come round.
OwnReply ==
  \A c \in Clients :
     ( /\ answer[c] # Nothing /\ calls[c] <= IdMod
       /\ \A d \in Clients \ {c} : PortOf[d] = PortOf[c] => calls[d] = 0 )
     => answer[c] = [client |-> c, n |-> calls[c]] /\ executed[answer[c]] > 0

\* A call whose answer is under way returns it, or gives up: foreign datagrams
\* do not hide it, though they may keep coming and put the timeout off for ever.
OwnResponse(c) ==
  \E d \in network : For(c, d) /\ d.type = 2 /\ d.of = [client |-> c, n |-> calls[c]]
ReplyFound == \A c \in Clients : (Waiting(c) /\ OwnResponse(c)) ~> ~Waiting(c)

\* What the comments in call say of its timeout, that the caller is never
\* blocked for good: a call with a timeout returns, whatever became of its
\* request.  It does not have to if datagrams of others keep coming.
CallReturns == \A c \in Clients : pc[c] = "timed" ~> ~Waiting(c)
=============================================================================
