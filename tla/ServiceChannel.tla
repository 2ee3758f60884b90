--------------------------- MODULE ServiceChannel ---------------------------
(***************************************************************************)
(* One service: the ServiceShm segment, the ServiceClients that call it    *)
(* (service_client.h, the template method call) and the thread that serves *)
(* it (service_server.cpp, serviceLoop or repeated spinOnce).  There is    *)
(* room for one request and one response; two flags say which is there.    *)
(*                                                                         *)
(* Clients and server are processes of their own.  One step is one access  *)
(* to the flags, the request or the response, so a process can be killed,  *)
(* or another one scheduled, between any two of them.                      *)
(***************************************************************************)
EXTENDS Integers, RobustMutex

CONSTANTS Clients,     \* one thread per ServiceClient object
          Server,      \* the thread that runs the callback
          Mortal,      \* the threads whose process may be killed
          Signalled,   \* the threads whose process may get SIGINT
          Modes,       \* how the server runs: "async" (serviceLoop), "spin" (spinOnce)
          MaxCalls     \* bound: calls per client

Procs == Clients \cup {Server}

ASSUME ServiceAssumption ==
  /\ Server \notin Clients
  /\ NoOne \notin Procs
  /\ Mortal \subseteq Procs /\ Signalled \subseteq Procs
  /\ Modes # {} /\ Modes \subseteq {"async", "spin"}
  /\ MaxCalls \in Nat

VARIABLES
  mutex, has_request, has_response, request, response,   \* ServiceShm
  pc,            \* where each thread is
  next_req_id,   \* ServiceClient::next_req_id_
  reply,         \* reply[c] : what c's call copied out of the segment
  local_req,     \* the server's copy of the request it works on
  running,       \* ServiceServer::running_
  mode,          \* how this server runs
  executed,      \* history: the requests the callback was run for
  down           \* down[t] : g_shutdown_requested in t's process

shm == <<mutex, has_request, has_response, request, response>>
vars == <<shm, pc, next_req_id, reply, local_req, running, mode, executed, down>>

\* The client's pid and its own request counter; a response carries the data
\* computed for this very request, but of these two fields only the id.
\* NoOne's request is the zeroes of a new segment.
Messages == [client : Clients \cup {NoOne}, id : 0..MaxCalls]
Nothing == [client |-> NoOne, id |-> 0]

\* What follows lockRobust, and what follows the unlock.
Locked == [enter |-> "channel", loop |-> "serve", answer |-> "respond", nothing |-> "lower"]
Released == [giveup |-> "idle", done |-> "idle",
             take |-> "callback", pass |-> "top", leave |-> "stopped"]

\* Waiting on cond_response, and what a wakeup and a timeout make of it.
Woken == [chanwait |-> "chanrelock", respwait |-> "resprelock", reqwait |-> "reqrelock"]
Expired == [chanwait |-> "chanexpired", respwait |-> "respexpired", reqwait |-> "reqrelock"]
Relocking == {"chanrelock", "resprelock", "chanexpired", "respexpired", "reqrelock"}

ClientHolding == {"channel", "write", "raise", "clear", "notify", "await", "collect",
                  "wipe", "wiped", "giveup", "done"}
ServerHolding == {"serve", "take", "pass", "leave", "wipe", "wiped",
                  "respond", "publish", "lower", "announce"}
Holding == ClientHolding \cup ServerHolding
ClientPCs == ClientHolding \cup {"idle", "enter", "chanwait", "chanrelock", "chanexpired",
                                 "respwait", "resprelock", "respexpired", "failed", "dead"}
ServerPCs == ServerHolding \cup {"top", "loop", "reqwait", "reqrelock", "callback",
                                 "answer", "nothing", "stopped", "failed", "dead"}

goto(t, l) == pc' = [pc EXCEPT ![t] = l]

\* A segment just made by createOrGetService(name, true); clients have it open.
Init ==
  /\ mutex = initRobustMutex
  /\ has_request = FALSE /\ has_response = FALSE
  /\ request = Nothing /\ response = Nothing
  /\ pc = [t \in Procs |-> IF t = Server THEN "top" ELSE "idle"]
  /\ next_req_id = [c \in Clients |-> 0]
  /\ reply = [c \in Clients |-> Nothing]
  /\ local_req = Nothing
  /\ running = TRUE
  /\ mode \in Modes
  /\ executed = {}
  /\ down = [t \in Procs |-> FALSE]
-----------------------------------------------------------------------------
(* The mutex, and the end of pthread_cond_timedwait, for both sides. *)

\* lockRobust.  That it reports a recovered crash is ignored by all callers.
Lock(t) ==
  /\ pc[t] \in DOMAIN Locked
  /\ mutex.owner = NoOne
  /\ mutex' = lockRobust(mutex, t)
  /\ goto(t, IF Recoverable(mutex) THEN Locked[pc[t]] ELSE "failed")
  /\ UNCHANGED <<has_request, has_response, request, response, next_req_id,
                 reply, local_req, running, mode, executed, down>>

Release(t) ==
  /\ pc[t] \in DOMAIN Released
  /\ mutex' = UnlockedBy(mutex, t)
  /\ goto(t, Released[pc[t]])
  /\ UNCHANGED <<has_request, has_response, request, response, next_req_id,
                 reply, local_req, running, mode, executed, down>>

\* cond_timedwait returns without a broadcast, or at the deadline.
Wake(t) ==
  /\ pc[t] \in DOMAIN Woken
  /\ goto(t, Woken[pc[t]])
  /\ UNCHANGED <<shm, next_req_id, reply, local_req, running, mode, executed, down>>

Timeout(t) ==
  /\ pc[t] \in DOMAIN Expired
  /\ goto(t, Expired[pc[t]])
  /\ UNCHANGED <<shm, next_req_id, reply, local_req, running, mode, executed, down>>

\* Mutant: a timeout is taken for a wakeup.
BugReacquired(t) ==
  IF mutex.state # "consistent" THEN "wipe"
  ELSE CASE pc[t] \in {"chanrelock", "chanexpired"} -> "channel"
         [] pc[t] \in {"resprelock", "respexpired"} -> "await"
         [] OTHER -> "serve"

\* Where t goes with what cond_timedwait returned: clients give up on any
\* result but 0, the server only recovers from EOWNERDEAD.
Reacquired(t) ==
  IF mutex.state # "consistent" \/ pc[t] \in {"chanexpired", "respexpired"} THEN "wipe"
  ELSE CASE pc[t] = "chanrelock" -> "channel"
         [] pc[t] = "resprelock" -> "await"
         [] OTHER -> "serve"

\* The server repairs the mutex at once, a client when it has reset the flags.
Reacquire(t) ==
  /\ pc[t] \in Relocking
  /\ mutex.owner = NoOne
  /\ mutex' = IF t = Server THEN lockRobust(mutex, t) ELSE LockedBy(mutex, t)
  /\ goto(t, Reacquired(t))
  /\ UNCHANGED <<has_request, has_response, request, response, next_req_id,
                 reply, local_req, running, mode, executed, down>>

\* has_request = false; has_response = false: whoever they belonged to.
WipeRequest(t) ==
  /\ pc[t] = "wipe"
  /\ has_request' = FALSE
  /\ goto(t, "wiped")
  /\ UNCHANGED <<mutex, has_response, request, response, next_req_id,
                 reply, local_req, running, mode, executed, down>>

\* Mutant: the client unlocks without pthread_mutex_consistent.
BugWipeResponse(t) ==
  /\ pc[t] = "wiped"
  /\ has_response' = FALSE
  /\ goto(t, IF t = Server THEN "serve" ELSE "giveup")
  /\ UNCHANGED <<mutex, has_request, request, response, next_req_id,
                 reply, local_req, running, mode, executed, down>>

WipeResponse(t) ==
  /\ pc[t] = "wiped"
  /\ has_response' = FALSE
  /\ mutex' = lockRobust(mutex, t)
  /\ goto(t, IF t = Server THEN "serve" ELSE "giveup")
  /\ UNCHANGED <<has_request, request, response, next_req_id,
                 reply, local_req, running, mode, executed, down>>
-----------------------------------------------------------------------------
(* ServiceClient::call. *)

call(c) ==
  /\ pc[c] = "idle" /\ ~down[c]
  /\ next_req_id[c] < MaxCalls
  /\ reply' = [reply EXCEPT ![c] = Nothing]
  /\ goto(c, "enter")
  /\ UNCHANGED <<shm, next_req_id, local_req, running, mode, executed, down>>

\* 1. Wait for the channel to be free.
AwaitChannel(c) ==
  /\ pc[c] = "channel"
  /\ \/ down[c] /\ goto(c, "giveup") /\ UNCHANGED mutex
     \/ ~down[c] /\ ~has_request /\ goto(c, "write") /\ UNCHANGED mutex
     \/ ~down[c] /\ has_request /\ goto(c, "chanwait") /\ mutex' = UnlockedBy(mutex, c)
  /\ UNCHANGED <<has_request, has_response, request, response, next_req_id,
                 reply, local_req, running, mode, executed, down>>

\* 2. Send the request.
WriteRequest(c) ==
  /\ pc[c] = "write"
  /\ next_req_id' = [next_req_id EXCEPT ![c] = @ + 1]
  /\ request' = [client |-> c, id |-> next_req_id'[c]]
  /\ goto(c, "raise")
  /\ UNCHANGED <<mutex, has_request, has_response, response,
                 reply, local_req, running, mode, executed, down>>

RaiseRequest(c) ==
  /\ pc[c] = "raise"
  /\ has_request' = TRUE
  /\ goto(c, "clear")
  /\ UNCHANGED <<mutex, has_response, request, response, next_req_id,
                 reply, local_req, running, mode, executed, down>>

ClearResponse(c) ==
  /\ pc[c] = "clear"
  /\ has_response' = FALSE
  /\ goto(c, "notify")
  /\ UNCHANGED <<mutex, has_request, request, response, next_req_id,
                 reply, local_req, running, mode, executed, down>>

\* broadcast on cond_request, which only the server waits on
Notify(c) ==
  /\ pc[c] = "notify"
  /\ pc' = [pc EXCEPT ![c] = "await",
                      ![Server] = IF @ = "reqwait" THEN "reqrelock" ELSE @]
  /\ UNCHANGED <<shm, next_req_id, reply, local_req, running, mode, executed, down>>

\* 3. Wait for the response.
AwaitResponse(c) ==
  /\ pc[c] = "await"
  /\ \/ (has_response \/ down[c]) /\ goto(c, "collect") /\ UNCHANGED mutex
     \/ ~has_response /\ ~down[c] /\ goto(c, "respwait") /\ mutex' = UnlockedBy(mutex, c)
  /\ UNCHANGED <<has_request, has_response, request, response, next_req_id,
                 reply, local_req, running, mode, executed, down>>

\* response.request_id == next_req_id_, the pid is not looked at
IsAnswer(c) == response.id = next_req_id[c]

\* A response that is not taken stays in the segment, and its flag set.
Collect(c) ==
  /\ pc[c] = "collect"
  /\ IF ~down[c] /\ IsAnswer(c)
     THEN /\ reply' = [reply EXCEPT ![c] = response]
          /\ has_response' = FALSE
          /\ goto(c, "done")
     ELSE goto(c, "giveup") /\ UNCHANGED <<reply, has_response>>
  /\ UNCHANGED <<mutex, has_request, request, response, next_req_id,
                 local_req, running, mode, executed, down>>
-----------------------------------------------------------------------------
(* ServiceServer. *)

\* The head of the loop: while (running_), or the early return of spinOnce.
Top ==
  /\ pc[Server] = "top"
  /\ goto(Server, IF (mode = "async" /\ running) \/ (mode = "spin" /\ ~down[Server])
                  THEN "loop" ELSE "stopped")
  /\ UNCHANGED <<shm, next_req_id, reply, local_req, running, mode, executed, down>>

\* Under the mutex: wait for a request (serviceLoop only), stop, take it, or -
\* if there is still a response nobody collected - go round again.
Serve ==
  /\ pc[Server] = "serve"
  /\ LET stop == mode = "async" /\ (~running \/ down[Server])
     IN \/ /\ mode = "async" /\ ~stop /\ ~has_request
           /\ mutex' = UnlockedBy(mutex, Server)
           /\ goto(Server, "reqwait") /\ UNCHANGED local_req
        \/ stop /\ goto(Server, "leave") /\ UNCHANGED <<mutex, local_req>>
        \/ /\ ~stop /\ has_request /\ ~has_response
           /\ local_req' = request
           /\ goto(Server, "take") /\ UNCHANGED mutex
        \/ /\ ~stop /\ IF has_request THEN has_response ELSE mode = "spin"
           /\ goto(Server, "pass") /\ UNCHANGED <<mutex, local_req>>
  /\ UNCHANGED <<has_request, has_response, request, response, next_req_id,
                 reply, running, mode, executed, down>>

\* The user's callback, without the mutex; it succeeds or not.
Callback ==
  /\ pc[Server] = "callback"
  /\ executed' = executed \cup {local_req}
  /\ \E success \in BOOLEAN : goto(Server, IF success THEN "answer" ELSE "nothing")
  /\ UNCHANGED <<shm, next_req_id, reply, local_req, running, mode, down>>

Respond ==
  /\ pc[Server] = "respond"
  /\ response' = local_req
  /\ goto(Server, "publish")
  /\ UNCHANGED <<mutex, has_request, has_response, request, next_req_id,
                 reply, local_req, running, mode, executed, down>>

RaiseResponse ==
  /\ pc[Server] = "publish"
  /\ has_response' = TRUE
  /\ goto(Server, "lower")
  /\ UNCHANGED <<mutex, has_request, request, response, next_req_id,
                 reply, local_req, running, mode, executed, down>>

\* Mutant: the request is left raised.
BugLowerRequest ==
  /\ pc[Server] = "lower"
  /\ goto(Server, "announce")
  /\ UNCHANGED <<shm, next_req_id, reply, local_req, running, mode, executed, down>>

\* has_request = false: of whatever request is in the segment by now
LowerRequest ==
  /\ pc[Server] = "lower"
  /\ has_request' = FALSE
  /\ goto(Server, "announce")
  /\ UNCHANGED <<mutex, has_response, request, response, next_req_id,
                 reply, local_req, running, mode, executed, down>>

\* broadcast on cond_response, which clients wait on for both reasons
Announce ==
  /\ pc[Server] = "announce"
  /\ pc' = [t \in Procs |-> IF t = Server THEN "pass"
                            ELSE IF pc[t] \in DOMAIN Woken THEN Woken[pc[t]] ELSE pc[t]]
  /\ UNCHANGED <<shm, next_req_id, reply, local_req, running, mode, executed, down>>

\* ServiceServer::shutdown, called by another thread of the process.
shutdown ==
  /\ running
  /\ running' = FALSE
  /\ UNCHANGED <<shm, pc, next_req_id, reply, local_req, mode, executed, down>>
-----------------------------------------------------------------------------
\* SIGINT: the handler sets g_shutdown_requested.
Signal(t) ==
  /\ t \in Signalled /\ ~down[t] /\ pc[t] # "dead"
  /\ down' = [down EXCEPT ![t] = TRUE]
  /\ UNCHANGED <<shm, pc, next_req_id, reply, local_req, running, mode, executed>>

\* The process is killed wherever it is.
Crash(t) ==
  /\ t \in Mortal /\ pc[t] # "dead"
  /\ goto(t, "dead")
  /\ mutex' = AfterDeathOf(mutex, t)
  /\ UNCHANGED <<has_request, has_response, request, response, next_req_id,
                 reply, local_req, running, mode, executed, down>>

ClientStep(c) ==
  \/ AwaitChannel(c) \/ WriteRequest(c) \/ RaiseRequest(c) \/ ClearResponse(c)
  \/ Notify(c) \/ AwaitResponse(c) \/ Collect(c)
ServerStep ==
  Top \/ Serve \/ Callback \/ Respond \/ RaiseResponse \/ LowerRequest \/ Announce
WipeStep(t) == WipeRequest(t) \/ WipeResponse(t)

Next ==
  \/ \E c \in Clients : call(c) \/ ClientStep(c)
  \/ ServerStep \/ shutdown
  \/ \E t \in Procs : \/ Lock(t) \/ Release(t) \/ Wake(t) \/ Timeout(t) \/ Reacquire(t)
                      \/ WipeStep(t) \/ Signal(t) \/ Crash(t)

Spec == Init /\ [][Next]_vars

\* A client inside a call keeps running; a thread that keeps asking for the
\* mutex gets it; the deadline of a wait passes unless wakeups always come
\* first.  Nothing is assumed of the server but that it leaves its critical
\* sections: the callback may take forever.
Fairness ==
  /\ \A c \in Clients :
        /\ WF_vars(ClientStep(c) \/ WipeStep(c) \/ Release(c))
        /\ SF_vars(Lock(c) \/ Reacquire(c))
        /\ SF_vars(Timeout(c))
  /\ WF_vars(pc[Server] \in Holding /\ (ServerStep \/ WipeStep(Server) \/ Release(Server)))

FairSpec == Spec /\ Fairness
-----------------------------------------------------------------------------
TypeOK ==
  /\ mutex \in Mutexes(Procs)
  /\ has_request \in BOOLEAN /\ has_response \in BOOLEAN
  /\ request \in Messages /\ response \in Messages /\ local_req \in Messages
  /\ pc \in [Procs -> ClientPCs \cup ServerPCs]
  /\ pc[Server] \in ServerPCs /\ \A c \in Clients : pc[c] \in ClientPCs
  /\ next_req_id \in [Clients -> 0..MaxCalls]
  /\ reply \in [Clients -> Messages]
  /\ running \in BOOLEAN /\ mode \in Modes
  /\ executed \subseteq Messages
  /\ down \in [Procs -> BOOLEAN]

\* Whoever is between its lock and its unlock owns the mutex, and whoever is
\* killed in between, at any point, the mutex can be locked again: every way
\* to acquire it repairs it before it is released.
LockInv ==
  /\ Recoverable(mutex)
  /\ \A t \in Procs : mutex.owner = t <=> pc[t] \in Holding

\* The server runs its callback at most once for a request, whichever call
\* times out, resets the flags or dies meanwhile.
AtMostOnce == pc[Server] \in {"take", "callback"} => local_req \notin executed

\* A call that returns true returns the answer to its own request.
OwnAnswer ==
  \A c \in Clients : pc[c] = "done" => reply[c] = [client |-> c, id |-> next_req_id[c]]

\* While a client waits for the answer to a request the server has not taken,
\* has_request says that there is a request to be handled.
PendingIsFlagged ==
  \A c \in Clients :
     LET mine == [client |-> c, id |-> next_req_id[c]]
     IN pc[c] = "respwait" /\ mine \notin executed /\ local_req # mine => has_request

\* A call returns, whatever the server and the other clients do or die of.
CallReturns == \A c \in Clients : pc[c] = "enter" ~> pc[c] \in {"idle", "dead"}
=============================================================================
