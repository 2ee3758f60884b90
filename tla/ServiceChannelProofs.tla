------------------------ MODULE ServiceChannelProofs ------------------------
(***************************************************************************)
(* One service, for every number of clients and calls, every set of        *)
(* processes that may be killed or interrupted, and both ways to run the   *)
(* server: the mutex can always be locked again, no request is executed    *)
(* twice, and a client that has the service for itself gets its own        *)
(* answers.                                                                *)
(***************************************************************************)
EXTENDS ServiceChannel, TLAPS

(* The tables. *)
LEMMA LockedTable ==
  /\ DOMAIN Locked = {"enter", "loop", "answer", "nothing"}
  /\ Locked["enter"] = "channel" /\ Locked["loop"] = "serve"
  /\ Locked["answer"] = "respond" /\ Locked["nothing"] = "lower"
BY DEF Locked

LEMMA ReleasedTable ==
  /\ DOMAIN Released = {"giveup", "done", "take", "pass", "leave"}
  /\ Released["giveup"] = "idle" /\ Released["done"] = "idle"
  /\ Released["take"] = "callback" /\ Released["pass"] = "top"
  /\ Released["leave"] = "stopped"
BY DEF Released

LEMMA WokenTable ==
  /\ DOMAIN Woken = {"chanwait", "respwait", "reqwait"}
  /\ Woken["chanwait"] = "chanrelock" /\ Woken["respwait"] = "resprelock"
  /\ Woken["reqwait"] = "reqrelock"
BY DEF Woken

LEMMA ExpiredTable ==
  /\ DOMAIN Expired = {"chanwait", "respwait", "reqwait"}
  /\ Expired["chanwait"] = "chanexpired" /\ Expired["respwait"] = "respexpired"
  /\ Expired["reqwait"] = "reqrelock"
BY DEF Expired

LEMMA NextCases ==
  ASSUME [Next]_vars
  PROVE  \/ UNCHANGED vars
         \/ \E c \in Clients : \/ call(c) \/ AwaitChannel(c) \/ WriteRequest(c)
                               \/ RaiseRequest(c) \/ ClearResponse(c) \/ Notify(c)
                               \/ AwaitResponse(c) \/ Collect(c)
         \/ Top \/ Serve \/ Callback \/ Respond \/ RaiseResponse \/ LowerRequest
         \/ Announce \/ shutdown
         \/ \E t \in Procs : \/ Lock(t) \/ Release(t) \/ Wake(t) \/ Timeout(t)
                             \/ Reacquire(t) \/ WipeRequest(t) \/ WipeResponse(t)
                             \/ Signal(t) \/ Crash(t)
BY DEF Next, ClientStep, ServerStep, WipeStep
-----------------------------------------------------------------------------
(* Types.  A call that has not drawn its number yet may still draw one.     *)
BeforeWrite == {"enter", "channel", "chanwait", "chanrelock", "chanexpired", "write"}

TypeInv ==
  /\ TypeOK
  /\ \A c \in Clients : pc[c] \in BeforeWrite => next_req_id[c] < MaxCalls

LEMMA TypeInit == Init => TypeInv
<1> SUFFICES ASSUME Init PROVE TypeInv
  OBVIOUS
<1>1. Nothing \in Messages
  BY ServiceAssumption DEF Nothing, Messages
<1>2. mutex \in Mutexes(Procs)
  BY DEF Init, initRobustMutex, Mutexes, MutexStates
<1>3. /\ pc \in [Procs -> ClientPCs \cup ServerPCs]
      /\ pc[Server] = "top" /\ \A c \in Clients : pc[c] = "idle"
  BY ServiceAssumption DEF Init, Procs, ClientPCs, ServerPCs
<1>4. 0 \in 0..MaxCalls
  BY ServiceAssumption
<1> QED
  BY <1>1, <1>2, <1>3, <1>4 DEF Init, TypeInv, TypeOK, BeforeWrite, ClientPCs, ServerPCs

LEMMA TypeNext == TypeInv /\ [Next]_vars => TypeInv'
<1> SUFFICES ASSUME TypeInv, [Next]_vars PROVE TypeInv'
  OBVIOUS
<1> USE ServiceAssumption
    DEF TypeInv, TypeOK, BeforeWrite, goto, shm, Procs, ClientPCs, ServerPCs
<1>1. ASSUME NEW c \in Clients, call(c) PROVE TypeInv'
  BY <1>1 DEF call, Messages, Nothing
<1>2. ASSUME NEW c \in Clients, AwaitChannel(c) PROVE TypeInv'
  BY <1>2 DEF AwaitChannel, UnlockedBy, Mutexes, MutexStates, ClientHolding
<1>3. ASSUME NEW c \in Clients, WriteRequest(c) PROVE TypeInv'
  <2>1. next_req_id[c] + 1 \in 0..MaxCalls
    BY <1>3 DEF WriteRequest
  <2>2. request' \in Messages
    BY <1>3, <2>1 DEF WriteRequest, Messages
  <2> QED
    BY <1>3, <2>1, <2>2 DEF WriteRequest, ClientHolding
<1>4. ASSUME NEW c \in Clients, RaiseRequest(c) \/ ClearResponse(c) \/ Notify(c) PROVE TypeInv'
  <2>1. CASE RaiseRequest(c)
    BY <2>1 DEF RaiseRequest, ClientHolding
  <2>2. CASE ClearResponse(c)
    BY <2>2 DEF ClearResponse, ClientHolding
  <2>3. CASE Notify(c)
    BY <2>3 DEF Notify, ClientHolding, ServerHolding
  <2> QED
    BY <1>4, <2>1, <2>2, <2>3
<1>5. ASSUME NEW c \in Clients, AwaitResponse(c) PROVE TypeInv'
  BY <1>5 DEF AwaitResponse, UnlockedBy, Mutexes, MutexStates, ClientHolding
<1>6. ASSUME NEW c \in Clients, Collect(c) PROVE TypeInv'
  <2>1. reply' \in [Clients -> Messages] /\ has_response' \in BOOLEAN
    BY <1>6 DEF Collect
  <2>2. goto(c, "done") \/ goto(c, "giveup")
    BY <1>6 DEF Collect
  <2>3. UNCHANGED <<mutex, has_request, request, response, next_req_id,
                    local_req, running, mode, executed, down>>
    BY <1>6 DEF Collect
  <2> QED
    BY <2>1, <2>2, <2>3 DEF ClientHolding
<1>7. ASSUME Top \/ Callback \/ Respond \/ RaiseResponse \/ LowerRequest \/ shutdown PROVE TypeInv'
  <2>1. CASE Top
    BY <2>1 DEF Top
  <2>2. CASE Callback
    <3>1. executed' \subseteq Messages
      BY <2>2 DEF Callback
    <3>2. goto(Server, "answer") \/ goto(Server, "nothing")
      BY <2>2 DEF Callback
    <3> QED
      BY <2>2, <3>1, <3>2 DEF Callback
  <2>3. CASE Respond \/ RaiseResponse
    BY <2>3 DEF Respond, RaiseResponse, ServerHolding
  <2>4. CASE LowerRequest \/ shutdown
    BY <2>4 DEF LowerRequest, shutdown, ServerHolding
  <2> QED
    BY <1>7, <2>1, <2>2, <2>3, <2>4
<1>8. ASSUME Serve PROVE TypeInv'
  BY <1>8 DEF Serve, UnlockedBy, Mutexes, MutexStates, ServerHolding
<1>9. ASSUME Announce PROVE TypeInv'
  BY <1>9, WokenTable DEF Announce, ClientHolding, ServerHolding
<1>10. ASSUME NEW t \in Procs, Lock(t) PROVE TypeInv'
  BY <1>10, LockedTable DEF Lock, lockRobust, Mutexes, MutexStates, ClientHolding, ServerHolding
<1>11. ASSUME NEW t \in Procs, Release(t) PROVE TypeInv'
  BY <1>11, ReleasedTable DEF Release, UnlockedBy, Mutexes, MutexStates, ClientHolding, ServerHolding
<1>12. ASSUME NEW t \in Procs, Wake(t) \/ Timeout(t) PROVE TypeInv'
  BY <1>12, WokenTable, ExpiredTable DEF Wake, Timeout, ClientHolding, ServerHolding
<1>13. ASSUME NEW t \in Procs, Reacquire(t) PROVE TypeInv'
  BY <1>13 DEF Reacquire, Reacquired, Relocking, lockRobust, LockedBy, Mutexes, MutexStates,
               ClientHolding, ServerHolding
<1>14. ASSUME NEW t \in Procs, WipeRequest(t) \/ WipeResponse(t) PROVE TypeInv'
  <2>1. CASE WipeRequest(t)
    BY <2>1 DEF WipeRequest, ClientHolding, ServerHolding
  <2>2. CASE WipeResponse(t)
    <3>1. mutex' \in Mutexes(Procs)
      BY <2>2 DEF WipeResponse, lockRobust, Mutexes, MutexStates
    <3> QED
      BY <2>2, <3>1 DEF WipeResponse, ClientHolding, ServerHolding
  <2> QED
    BY <1>14, <2>1, <2>2
<1>15. ASSUME NEW t \in Procs, Signal(t) PROVE TypeInv'
  BY <1>15 DEF Signal
<1>16. ASSUME NEW t \in Procs, Crash(t) PROVE TypeInv'
  BY <1>16 DEF Crash, AfterDeathOf, Mutexes, MutexStates
<1>17. CASE UNCHANGED vars
  BY <1>17 DEF vars
<1> QED
  BY <1>1, <1>2, <1>3, <1>4, <1>5, <1>6, <1>7, <1>8, <1>9, <1>10, <1>11, <1>12, <1>13,
     <1>14, <1>15, <1>16, <1>17, NextCases

\* ServiceChannel keeps its types: the flags, the two headers, where each
\* thread of service_client.h and service_server.cpp is, and the ids.
THEOREM ServiceTypeCorrect == Spec => []TypeOK
<1>1. TypeInv => TypeOK
  BY DEF TypeInv
<1> QED
  BY <1>1, TypeInit, TypeNext, PTL DEF Spec
-----------------------------------------------------------------------------
(* The mutex.  A thread that got it from one that died, and has not said so *)
(* yet, is resetting the flags: it repairs the mutex before it leaves it.   *)
MutexInv ==
  /\ LockInv
  /\ mutex.state = "inconsistent" =>
        \A t \in Procs : mutex.owner = t => pc[t] \in {"wipe", "wiped"}

LEMMA MutexInit == Init => MutexInv
<1> SUFFICES ASSUME Init PROVE MutexInv
  OBVIOUS
<1>1. \A t \in Procs : pc[t] \in {"top", "idle"} /\ mutex.owner # t
  BY ServiceAssumption DEF Init, initRobustMutex, Procs
<1>2. mutex.state = "consistent"
  BY DEF Init, initRobustMutex
<1> QED
  BY <1>1, <1>2
  DEF MutexInv, LockInv, Recoverable, Holding, ClientHolding, ServerHolding

\* A step of one thread that leaves the mutex alone and stays on its side of
\* the lock.
LEMMA MutexKept ==
  ASSUME TypeOK, MutexInv, NEW t \in Procs, NEW l, goto(t, l), UNCHANGED mutex,
         pc[t] \in Holding <=> l \in Holding,
         pc[t] \in {"wipe", "wiped"} => l \in {"wipe", "wiped"}
  PROVE  MutexInv'
BY DEF TypeOK, MutexInv, LockInv, goto, Recoverable

\* t, from outside, acquires the mutex and repairs it.
LEMMA MutexLocked ==
  ASSUME TypeOK, MutexInv, NEW t \in Procs, NEW l \in Holding, goto(t, l),
         mutex.owner = NoOne, mutex' = lockRobust(mutex, t)
  PROVE  MutexInv'
BY ServiceAssumption DEF TypeOK, MutexInv, LockInv, goto, Recoverable, lockRobust, Mutexes

\* t, having repaired it if need be, gives it back.
LEMMA MutexUnlocked ==
  ASSUME TypeOK, MutexInv, NEW t \in Procs, NEW l, l \notin Holding, goto(t, l),
         pc[t] \in Holding \ {"wipe", "wiped"}, mutex' = UnlockedBy(mutex, t)
  PROVE  MutexInv'
BY ServiceAssumption DEF TypeOK, MutexInv, LockInv, goto, Recoverable, UnlockedBy, Mutexes, MutexStates

LEMMA MutexNext == TypeInv /\ MutexInv /\ [Next]_vars => MutexInv'
<1> SUFFICES ASSUME TypeInv, MutexInv, [Next]_vars PROVE MutexInv'
  OBVIOUS
<1> USE DEF shm
<1>0. TypeOK /\ Server \in Procs /\ Clients \subseteq Procs
  BY DEF TypeInv, Procs
<1>1. ASSUME NEW c \in Clients, call(c) PROVE MutexInv'
  BY <1>0, <1>1, MutexKept DEF call, Holding, ClientHolding, ServerHolding
<1>2. ASSUME NEW c \in Clients, AwaitChannel(c) PROVE MutexInv'
  <2>1. pc[c] \in Holding \ {"wipe", "wiped"} /\ "chanwait" \notin Holding
    BY <1>2 DEF AwaitChannel, Holding, ClientHolding, ServerHolding
  <2>2. CASE goto(c, "chanwait") /\ mutex' = UnlockedBy(mutex, c)
    BY <1>0, <2>1, <2>2, MutexUnlocked
  <2>3. CASE (goto(c, "giveup") \/ goto(c, "write")) /\ UNCHANGED mutex
    BY <1>0, <2>1, <2>3, MutexKept DEF Holding, ClientHolding
  <2> QED
    BY <1>2, <2>2, <2>3 DEF AwaitChannel
<1>3. ASSUME NEW c \in Clients, WriteRequest(c) \/ RaiseRequest(c) \/ ClearResponse(c) PROVE MutexInv'
  <2>1. UNCHANGED mutex /\ pc[c] \in {"write", "raise", "clear"}
    BY <1>3 DEF WriteRequest, RaiseRequest, ClearResponse
  <2>2. goto(c, "raise") \/ goto(c, "clear") \/ goto(c, "notify")
    BY <1>3 DEF WriteRequest, RaiseRequest, ClearResponse
  <2> QED
    BY <1>0, <2>1, <2>2, MutexKept DEF Holding, ClientHolding
<1>4. ASSUME NEW c \in Clients, Notify(c) PROVE MutexInv'
  <2>1. /\ UNCHANGED mutex /\ pc[c] = "notify" /\ c # Server
        /\ pc' = [pc EXCEPT ![c] = "await",
                           ![Server] = IF @ = "reqwait" THEN "reqrelock" ELSE @]
    BY <1>4, ServiceAssumption DEF Notify
  <2>2. \A t \in Procs : /\ pc'[t] \in Holding <=> pc[t] \in Holding
                         /\ pc[t] \in {"wipe", "wiped"} => pc'[t] = pc[t]
    BY <1>0, <2>1 DEF TypeOK, Holding, ClientHolding, ServerHolding
  <2> QED
    BY <2>1, <2>2 DEF MutexInv, LockInv, Recoverable
<1>5. ASSUME NEW c \in Clients, AwaitResponse(c) PROVE MutexInv'
  <2>1. pc[c] \in Holding \ {"wipe", "wiped"} /\ "respwait" \notin Holding
    BY <1>5 DEF AwaitResponse, Holding, ClientHolding, ServerHolding
  <2>2. CASE goto(c, "respwait") /\ mutex' = UnlockedBy(mutex, c)
    BY <1>0, <2>1, <2>2, MutexUnlocked
  <2>3. CASE goto(c, "collect") /\ UNCHANGED mutex
    BY <1>0, <2>1, <2>3, MutexKept DEF Holding, ClientHolding
  <2> QED
    BY <1>5, <2>2, <2>3 DEF AwaitResponse
<1>6. ASSUME NEW c \in Clients, Collect(c) PROVE MutexInv'
  <2>1. UNCHANGED mutex /\ pc[c] = "collect" /\ (goto(c, "done") \/ goto(c, "giveup"))
    BY <1>6 DEF Collect
  <2> QED
    BY <1>0, <2>1, MutexKept DEF Holding, ClientHolding
<1>7. ASSUME Top PROVE MutexInv'
  <2>1. UNCHANGED mutex /\ pc[Server] = "top" /\ (goto(Server, "loop") \/ goto(Server, "stopped"))
    BY <1>7 DEF Top
  <2> QED
    BY <1>0, <2>1, MutexKept DEF Holding, ClientHolding, ServerHolding
<1>8. ASSUME Serve PROVE MutexInv'
  <2>1. pc[Server] \in Holding \ {"wipe", "wiped"} /\ "reqwait" \notin Holding
    BY <1>8 DEF Serve, Holding, ClientHolding, ServerHolding
  <2>2. CASE goto(Server, "reqwait") /\ mutex' = UnlockedBy(mutex, Server)
    BY <1>0, <2>1, <2>2, MutexUnlocked
  <2>3. CASE (goto(Server, "leave") \/ goto(Server, "take") \/ goto(Server, "pass")) /\ UNCHANGED mutex
    BY <1>0, <2>1, <2>3, MutexKept DEF Holding, ServerHolding
  <2> QED
    BY <1>8, <2>2, <2>3 DEF Serve
<1>9. ASSUME Callback PROVE MutexInv'
  <2>1. UNCHANGED mutex /\ pc[Server] = "callback" /\ (goto(Server, "answer") \/ goto(Server, "nothing"))
    BY <1>9 DEF Callback
  <2> QED
    BY <1>0, <2>1, MutexKept DEF Holding, ClientHolding, ServerHolding
<1>10. ASSUME Respond \/ RaiseResponse \/ LowerRequest PROVE MutexInv'
  <2>1. UNCHANGED mutex /\ pc[Server] \in {"respond", "publish", "lower"}
    BY <1>10 DEF Respond, RaiseResponse, LowerRequest
  <2>2. goto(Server, "publish") \/ goto(Server, "lower") \/ goto(Server, "announce")
    BY <1>10 DEF Respond, RaiseResponse, LowerRequest
  <2> QED
    BY <1>0, <2>1, <2>2, MutexKept DEF Holding, ServerHolding
<1>11. ASSUME Announce PROVE MutexInv'
  <2>1. \A t \in Procs : /\ pc'[t] \in Holding <=> pc[t] \in Holding
                         /\ pc[t] \in {"wipe", "wiped"} => pc'[t] = pc[t]
    BY <1>0, <1>11, WokenTable DEF Announce, TypeOK, Holding, ClientHolding, ServerHolding
  <2> QED
    BY <1>11, <2>1 DEF Announce, MutexInv, LockInv, Recoverable
<1>12. ASSUME NEW t \in Procs, Lock(t) PROVE MutexInv'
  <2>1. goto(t, Locked[pc[t]]) /\ mutex.owner = NoOne /\ mutex' = lockRobust(mutex, t)
    BY <1>12 DEF Lock, MutexInv, LockInv
  <2>2. Locked[pc[t]] \in Holding
    BY <1>12, LockedTable DEF Lock, Holding, ClientHolding, ServerHolding
  <2> QED
    BY <1>0, <2>1, <2>2, MutexLocked
<1>13. ASSUME NEW t \in Procs, Release(t) PROVE MutexInv'
  <2>1. pc[t] \in Holding \ {"wipe", "wiped"} /\ Released[pc[t]] \notin Holding
    BY <1>13, ReleasedTable DEF Release, Holding, ClientHolding, ServerHolding
  <2>2. goto(t, Released[pc[t]]) /\ mutex' = UnlockedBy(mutex, t)
    BY <1>13 DEF Release
  <2> QED
    BY <1>0, <2>1, <2>2, MutexUnlocked
<1>14. ASSUME NEW t \in Procs, Wake(t) PROVE MutexInv'
  <2>1. UNCHANGED mutex /\ goto(t, Woken[pc[t]]) /\ pc[t] \notin Holding /\ Woken[pc[t]] \notin Holding
    BY <1>14, WokenTable DEF Wake, Holding, ClientHolding, ServerHolding
  <2> QED
    BY <1>0, <2>1, MutexKept DEF Holding, ClientHolding
<1>15. ASSUME NEW t \in Procs, Timeout(t) PROVE MutexInv'
  <2>1. UNCHANGED mutex /\ goto(t, Expired[pc[t]]) /\ pc[t] \notin Holding /\ Expired[pc[t]] \notin Holding
    BY <1>15, ExpiredTable DEF Timeout, Holding, ClientHolding, ServerHolding
  <2> QED
    BY <1>0, <2>1, MutexKept DEF Holding, ClientHolding
<1>16. ASSUME NEW t \in Procs, Reacquire(t) PROVE MutexInv'
  <2>1. mutex.owner = NoOne /\ goto(t, Reacquired(t)) /\ Reacquired(t) \in Holding
    BY <1>16 DEF Reacquire, Reacquired, Relocking, Holding, ClientHolding, ServerHolding
  <2>2. CASE mutex' = lockRobust(mutex, t)
    BY <1>0, <2>1, <2>2, MutexLocked
  <2>3. CASE mutex' = LockedBy(mutex, t)
    <3>1. mutex' = [mutex EXCEPT !.owner = t]
      BY <2>3 DEF LockedBy, MutexInv, LockInv
    <3>2. mutex.state # "consistent" => Reacquired(t) = "wipe"
      BY DEF Reacquired
    <3> QED
      BY <1>0, <2>1, <3>1, <3>2, ServiceAssumption
      DEF TypeOK, MutexInv, LockInv, Mutexes, goto, Recoverable
  <2> QED
    BY <1>16, <2>2, <2>3 DEF Reacquire
<1>17. ASSUME NEW t \in Procs, WipeRequest(t) PROVE MutexInv'
  BY <1>0, <1>17, MutexKept DEF WipeRequest, Holding, ClientHolding
<1>18. ASSUME NEW t \in Procs, WipeResponse(t) PROVE MutexInv'
  <2>1. pc[t] \in Holding /\ mutex' = lockRobust(mutex, t)
    BY <1>18 DEF WipeResponse, Holding, ClientHolding
  <2>2. goto(t, "serve") \/ goto(t, "giveup")
    BY <1>18 DEF WipeResponse
  <2>3. mutex' = [owner |-> t, state |-> "consistent"] /\ mutex.owner = t
    BY <2>1 DEF lockRobust, MutexInv, LockInv
  <2> QED
    BY <1>0, <2>1, <2>2, <2>3
    DEF TypeOK, MutexInv, LockInv, goto, Recoverable, Holding, ClientHolding, ServerHolding
<1>19. ASSUME NEW t \in Procs, Crash(t) PROVE MutexInv'
  <2>1. goto(t, "dead") /\ mutex' = AfterDeathOf(mutex, t) /\ "dead" \notin Holding
    BY <1>19 DEF Crash, Holding, ClientHolding, ServerHolding
  <2> QED
    BY <1>0, <2>1, ServiceAssumption
    DEF TypeOK, MutexInv, LockInv, goto, Recoverable, AfterDeathOf, Mutexes, MutexStates
<1>20. ASSUME shutdown \/ \E t \in Procs : Signal(t) PROVE MutexInv'
  BY <1>20 DEF shutdown, Signal, MutexInv, LockInv, Recoverable
<1>21. CASE UNCHANGED vars
  BY <1>21 DEF vars, MutexInv, LockInv, Recoverable
<1> QED
  BY <1>1, <1>2, <1>3, <1>4, <1>5, <1>6, <1>7, <1>8, <1>9, <1>10, <1>11, <1>12, <1>13,
     <1>14, <1>15, <1>16, <1>17, <1>18, <1>19, <1>20, <1>21, NextCases

\* Whoever is killed, and wherever, the service's mutex can be locked again,
\* and is owned by exactly the thread between its lock and its unlock: the
\* recovery of service_client.h:34-40 and service_server.cpp:38-45 is enough.
THEOREM ServiceLockDiscipline == Spec => []LockInv
<1>1. TypeInv /\ MutexInv /\ [Next]_vars => TypeInv' /\ MutexInv'
  BY TypeNext, MutexNext
<1>2. MutexInv => LockInv
  BY DEF MutexInv
<1> QED
  BY <1>1, <1>2, TypeInit, MutexInit, PTL DEF Spec
-----------------------------------------------------------------------------
(* Once.  A request is new when it is written, has not been executed when   *)
(* it is raised, and has been only in the server's last steps before it     *)
(* lowers the flag.                                                         *)
Executed == {"answer", "nothing", "respond", "publish", "lower", "failed", "dead"}

Written(m) == m.client \in Clients => m.id <= next_req_id[m.client]

OnceInv ==
  /\ Written(request) /\ Written(local_req)
  /\ \A m \in executed : Written(m)
  /\ \A c \in Clients : pc[c] = "raise" => request \notin executed /\ request # local_req
  /\ AtMostOnce
  /\ has_request /\ pc[Server] \notin Executed => request \notin executed

LEMMA OnceInit == Init => OnceInv
BY ServiceAssumption DEF Init, OnceInv, AtMostOnce, Written, Nothing, Procs

\* A step that writes neither a request nor the flag nor the server's copy,
\* and moves no client to where it raises the flag, nor the server to where
\* it takes a request or back from where it has.
LEMMA OnceKept ==
  ASSUME OnceInv, UNCHANGED <<request, local_req, executed, next_req_id>>,
         has_request' => has_request,
         \A c \in Clients : pc'[c] = "raise" => pc[c] = "raise",
         pc'[Server] \in {"take", "callback"} => pc[Server] \in {"take", "callback"},
         pc'[Server] \notin Executed /\ has_request' => pc[Server] \notin Executed
  PROVE  OnceInv'
BY DEF OnceInv, AtMostOnce, Written

LEMMA OnceNext == TypeInv /\ MutexInv /\ OnceInv /\ [Next]_vars => OnceInv'
<1> SUFFICES ASSUME TypeInv, MutexInv, OnceInv, [Next]_vars PROVE OnceInv'
  OBVIOUS
<1> USE ServiceAssumption DEF shm, goto
<1>0. /\ TypeOK /\ Server \in Procs /\ Clients \subseteq Procs
      /\ pc \in [Procs -> ClientPCs \cup ServerPCs]
      /\ \A c \in Clients : c # Server
  BY DEF TypeInv, TypeOK, Procs
<1>1. ASSUME NEW c \in Clients, call(c) PROVE OnceInv'
  BY <1>0, <1>1, OnceKept DEF call
<1>2. ASSUME NEW c \in Clients, AwaitChannel(c) PROVE OnceInv'
  <2>1. UNCHANGED <<request, local_req, executed, next_req_id, has_request>>
    BY <1>2 DEF AwaitChannel
  <2>2. goto(c, "giveup") \/ goto(c, "write") \/ goto(c, "chanwait")
    BY <1>2 DEF AwaitChannel
  <2> QED
    BY <1>0, <2>1, <2>2, OnceKept
<1>3. ASSUME NEW c \in Clients, WriteRequest(c) PROVE OnceInv'
  <2>1. next_req_id[c] + 1 = next_req_id'[c] /\ next_req_id[c] \in Nat
    BY <1>0, <1>3 DEF WriteRequest, TypeOK
  <2>2. \A d \in Clients : next_req_id[d] <= next_req_id'[d] /\ next_req_id[d] \in Int
                          /\ next_req_id'[d] \in Int
    BY <1>0, <1>3 DEF WriteRequest, TypeOK
  <2>3. request' = [client |-> c, id |-> next_req_id'[c]]
    BY <1>3 DEF WriteRequest
  <2>4. UNCHANGED <<local_req, executed, has_request>> /\ pc'[Server] = pc[Server]
    BY <1>0, <1>3 DEF WriteRequest
  <2>5. ASSUME NEW m \in Messages, Written(m) PROVE Written(m)' /\ m # request'
    <3>1. m.id \in Int
      BY DEF Messages
    <3>2. m.client \in Clients => m.id <= next_req_id'[m.client]
      BY <2>2, <2>5, <3>1 DEF Written
    <3>3. m # request'
      BY <2>1, <2>3, <2>5, <3>1 DEF Written
    <3> QED
      BY <3>2, <3>3 DEF Written
  <2>6. /\ Written(local_req)' /\ local_req # request'
        /\ \A m \in executed : Written(m)' /\ m # request'
    BY <1>0, <2>4, <2>5 DEF OnceInv, TypeOK, Written
  <2>7. Written(request)'
    BY <2>1, <2>3 DEF Written
  <2> QED
    BY <2>4, <2>6, <2>7 DEF OnceInv, AtMostOnce, Written
<1>4. ASSUME NEW c \in Clients, RaiseRequest(c) PROVE OnceInv'
  <2>1. request \notin executed
    BY <1>4 DEF RaiseRequest, OnceInv
  <2>2. /\ UNCHANGED <<request, local_req, executed, next_req_id>>
        /\ \A d \in Procs : pc'[d] = IF d = c THEN "clear" ELSE pc[d]
    BY <1>0, <1>4 DEF RaiseRequest
  <2> QED
    BY <1>0, <2>1, <2>2 DEF OnceInv, AtMostOnce, Written
<1>5. ASSUME NEW c \in Clients, ClearResponse(c) PROVE OnceInv'
  BY <1>0, <1>5, OnceKept DEF ClearResponse
<1>6. ASSUME NEW c \in Clients, Notify(c) PROVE OnceInv'
  BY <1>0, <1>6, OnceKept DEF Notify, Executed
<1>7. ASSUME NEW c \in Clients, AwaitResponse(c) \/ Collect(c) PROVE OnceInv'
  <2>1. UNCHANGED <<request, local_req, executed, next_req_id, has_request>>
    BY <1>7 DEF AwaitResponse, Collect
  <2>2. goto(c, "collect") \/ goto(c, "respwait") \/ goto(c, "done") \/ goto(c, "giveup")
    BY <1>7 DEF AwaitResponse, Collect
  <2> QED
    BY <1>0, <2>1, <2>2, OnceKept
<1>8. ASSUME Top PROVE OnceInv'
  BY <1>0, <1>8, OnceKept DEF Top, Executed
<1>9. ASSUME Serve PROVE OnceInv'
  <2>1. CASE goto(Server, "take")
    <3>1. /\ local_req' = request /\ has_request /\ pc[Server] = "serve"
          /\ UNCHANGED <<has_request, request, executed, next_req_id>>
      BY <1>0, <1>9, <2>1 DEF Serve
    <3>2. \A c \in Clients : pc[c] # "raise"
      BY <1>0, <3>1 DEF MutexInv, LockInv, Holding, ClientHolding, ServerHolding
    <3>3. \A c \in Clients : pc'[c] # "raise"
      BY <1>0, <2>1, <3>2
    <3>4. request \notin executed
      BY <3>1 DEF OnceInv, Executed
    <3> QED
      BY <3>1, <3>3, <3>4 DEF OnceInv, AtMostOnce, Written
  <2>2. CASE ~goto(Server, "take")
    <3>1. /\ UNCHANGED <<has_request, request, local_req, executed, next_req_id>>
          /\ pc[Server] = "serve"
          /\ goto(Server, "reqwait") \/ goto(Server, "leave") \/ goto(Server, "pass")
      BY <1>9, <2>2 DEF Serve
    <3> QED
      BY <1>0, <3>1, OnceKept DEF Executed
  <2> QED
    BY <2>1, <2>2
<1>10. ASSUME Callback PROVE OnceInv'
  <2>1. /\ executed' = executed \cup {local_req}
        /\ UNCHANGED <<request, local_req, next_req_id, has_request>>
        /\ goto(Server, "answer") \/ goto(Server, "nothing")
    BY <1>10 DEF Callback
  <2>2. /\ pc'[Server] \in Executed /\ pc'[Server] \notin {"take", "callback"}
        /\ \A c \in Clients : pc'[c] = pc[c]
    BY <1>0, <2>1 DEF Executed
  <2> QED
    BY <2>1, <2>2 DEF OnceInv, AtMostOnce, Written
<1>11. ASSUME Respond \/ RaiseResponse PROVE OnceInv'
  <2>1. UNCHANGED <<request, local_req, executed, next_req_id, has_request>>
    BY <1>11 DEF Respond, RaiseResponse
  <2>2. (goto(Server, "publish") \/ goto(Server, "lower")) /\ pc[Server] \in Executed
    BY <1>11 DEF Respond, RaiseResponse, Executed
  <2> QED
    BY <1>0, <2>1, <2>2, OnceKept DEF Executed
<1>12. ASSUME LowerRequest PROVE OnceInv'
  BY <1>0, <1>12, OnceKept DEF LowerRequest
<1>13. ASSUME Announce PROVE OnceInv'
  <2>1. /\ UNCHANGED <<request, local_req, executed, next_req_id, has_request>>
        /\ pc'[Server] = "pass" /\ pc[Server] = "announce"
        /\ \A c \in Clients : pc'[c] = "raise" => pc[c] = "raise"
    BY <1>0, <1>13, WokenTable DEF Announce
  <2> QED
    BY <2>1, OnceKept DEF Executed
<1>14. ASSUME NEW t \in Procs, Lock(t) PROVE OnceInv'
  <2>1. UNCHANGED <<request, local_req, executed, next_req_id, has_request>>
    BY <1>14 DEF Lock
  <2>2. /\ goto(t, Locked[pc[t]])
        /\ pc[t] \in {"enter", "loop", "answer", "nothing"}
    BY <1>14, LockedTable DEF Lock, MutexInv, LockInv
  <2> QED
    BY <1>0, <2>1, <2>2, LockedTable, OnceKept DEF Executed
<1>15. ASSUME NEW t \in Procs, Release(t) PROVE OnceInv'
  <2>1. UNCHANGED <<request, local_req, executed, next_req_id, has_request>>
    BY <1>15 DEF Release
  <2>2. goto(t, Released[pc[t]]) /\ pc[t] \in {"giveup", "done", "take", "pass", "leave"}
    BY <1>15, ReleasedTable DEF Release
  <2> QED
    BY <1>0, <2>1, <2>2, ReleasedTable, OnceKept DEF Executed
<1>16. ASSUME NEW t \in Procs, Wake(t) \/ Timeout(t) PROVE OnceInv'
  <2>1. UNCHANGED <<request, local_req, executed, next_req_id, has_request>>
    BY <1>16 DEF Wake, Timeout
  <2>2. \E l \in Relocking : goto(t, l)
    BY <1>16, WokenTable, ExpiredTable DEF Wake, Timeout, Relocking
  <2>3. pc[t] \in {"chanwait", "respwait", "reqwait"}
    BY <1>16, WokenTable, ExpiredTable DEF Wake, Timeout
  <2> QED
    BY <1>0, <2>1, <2>2, <2>3, OnceKept DEF Executed, Relocking
<1>17. ASSUME NEW t \in Procs, Reacquire(t) PROVE OnceInv'
  <2>1. /\ UNCHANGED <<request, local_req, executed, next_req_id, has_request>>
        /\ pc[t] \in Relocking /\ goto(t, Reacquired(t))
    BY <1>17 DEF Reacquire
  <2>2. Reacquired(t) \in {"wipe", "channel", "await", "serve"}
    BY DEF Reacquired
  <2> QED
    BY <1>0, <2>1, <2>2, OnceKept DEF Executed, Relocking
<1>18. ASSUME NEW t \in Procs, WipeRequest(t) PROVE OnceInv'
  BY <1>0, <1>18, OnceKept DEF WipeRequest, Executed
<1>19. ASSUME NEW t \in Procs, WipeResponse(t) PROVE OnceInv'
  <2>1. /\ UNCHANGED <<request, local_req, executed, next_req_id, has_request>>
        /\ goto(t, "serve") \/ goto(t, "giveup")
        /\ pc[t] = "wiped"
    BY <1>19 DEF WipeResponse
  <2> QED
    BY <1>0, <2>1, OnceKept DEF Executed
<1>20. ASSUME NEW t \in Procs, Crash(t) PROVE OnceInv'
  BY <1>0, <1>20, OnceKept DEF Crash, Executed
<1>21. ASSUME shutdown \/ \E t \in Procs : Signal(t) PROVE OnceInv'
  BY <1>21, OnceKept DEF shutdown, Signal
<1>22. CASE UNCHANGED vars
  BY <1>22, OnceKept DEF vars
<1> QED
  BY <1>1, <1>2, <1>3, <1>4, <1>5, <1>6, <1>7, <1>8, <1>9, <1>10, <1>11, <1>12, <1>13,
     <1>14, <1>15, <1>16, <1>17, <1>18, <1>19, <1>20, <1>21, <1>22, NextCases

\* The server runs its callback at most once for a request, for every number
\* of clients, whoever times out, resets the flags or is killed while it does
\* (serviceLoop and spinOnce, service_server.cpp:49-69).
THEOREM ServiceAtMostOnce == Spec => []AtMostOnce
<1>1. TypeInv /\ MutexInv /\ OnceInv /\ [Next]_vars => TypeInv' /\ MutexInv' /\ OnceInv'
  BY TypeNext, MutexNext, OnceNext
<1>2. OnceInv => AtMostOnce
  BY DEF OnceInv
<1> QED
  BY <1>1, <1>2, TypeInit, MutexInit, OnceInit, PTL DEF Spec
-----------------------------------------------------------------------------
(* One client.  All numbers in the segment are its own, except for the      *)
(* zeroes of a new segment, and its own numbers begin with 1.               *)
AfterWrite == {"raise", "clear", "notify", "await", "respwait", "resprelock",
               "respexpired", "collect"}

Genuine(m) == m.client = NoOne => m.id = 0

OwnInv ==
  /\ Genuine(request) /\ Genuine(local_req) /\ Genuine(response)
  /\ \A c \in Clients : pc[c] \in AfterWrite => next_req_id[c] >= 1
  /\ OwnAnswer

LEMMA OwnInit == Init => OwnInv
BY ServiceAssumption DEF Init, OwnInv, OwnAnswer, AfterWrite, Genuine, Nothing, Procs

LEMMA OwnKept ==
  ASSUME OwnInv, UNCHANGED <<request, local_req, response, next_req_id, reply>>,
         \A c \in Clients : pc'[c] \in AfterWrite => pc[c] \in AfterWrite,
         \A c \in Clients : pc'[c] = "done" => pc[c] = "done"
  PROVE  OwnInv'
BY DEF OwnInv, OwnAnswer, Genuine

LEMMA OwnNext ==
  ASSUME \A c, d \in Clients : c = d
  PROVE  TypeInv /\ OwnInv /\ [Next]_vars => OwnInv'
<1> SUFFICES ASSUME TypeInv, OwnInv, [Next]_vars PROVE OwnInv'
  OBVIOUS
<1> USE ServiceAssumption DEF shm, goto
<1>0. /\ TypeOK /\ Server \in Procs /\ Clients \subseteq Procs
      /\ pc \in [Procs -> ClientPCs \cup ServerPCs]
      /\ \A c \in Clients : c # Server
  BY DEF TypeInv, TypeOK, Procs
<1>1. ASSUME NEW c \in Clients, call(c) PROVE OwnInv'
  <2>1. /\ UNCHANGED <<request, local_req, response, next_req_id>>
        /\ \A d \in Clients : pc'[d] = "enter" /\ pc[d] = "idle"
    BY <1>0, <1>1 DEF call
  <2> QED
    BY <2>1 DEF OwnInv, OwnAnswer, Genuine, AfterWrite
<1>2. ASSUME NEW c \in Clients, AwaitChannel(c) PROVE OwnInv'
  <2>1. UNCHANGED <<request, local_req, response, next_req_id, reply>>
    BY <1>2 DEF AwaitChannel
  <2>2. goto(c, "giveup") \/ goto(c, "write") \/ goto(c, "chanwait")
    BY <1>2 DEF AwaitChannel
  <2> QED
    BY <1>0, <2>1, <2>2, OwnKept DEF AfterWrite
<1>3. ASSUME NEW c \in Clients, WriteRequest(c) PROVE OwnInv'
  <2>1. next_req_id'[c] = next_req_id[c] + 1 /\ next_req_id[c] \in Nat
    BY <1>0, <1>3 DEF WriteRequest, TypeOK
  <2>2. request' = [client |-> c, id |-> next_req_id'[c]] /\ c # NoOne
    BY <1>3 DEF WriteRequest, Procs
  <2>3. UNCHANGED <<local_req, response>> /\ \A d \in Clients : d = c /\ pc'[d] = "raise"
    BY <1>0, <1>3 DEF WriteRequest
  <2> QED
    BY <2>1, <2>2, <2>3 DEF OwnInv, OwnAnswer, Genuine
<1>4. ASSUME NEW c \in Clients, RaiseRequest(c) \/ ClearResponse(c) PROVE OwnInv'
  <2>1. UNCHANGED <<request, local_req, response, next_req_id, reply>>
    BY <1>4 DEF RaiseRequest, ClearResponse
  <2>2. (goto(c, "clear") \/ goto(c, "notify")) /\ pc[c] \in AfterWrite
    BY <1>4 DEF RaiseRequest, ClearResponse, AfterWrite
  <2> QED
    BY <1>0, <2>1, <2>2, OwnKept
<1>5. ASSUME NEW c \in Clients, Notify(c) PROVE OwnInv'
  BY <1>0, <1>5, OwnKept DEF Notify, AfterWrite
<1>6. ASSUME NEW c \in Clients, AwaitResponse(c) PROVE OwnInv'
  <2>1. UNCHANGED <<request, local_req, response, next_req_id, reply>>
    BY <1>6 DEF AwaitResponse
  <2>2. (goto(c, "collect") \/ goto(c, "respwait")) /\ pc[c] \in AfterWrite
    BY <1>6 DEF AwaitResponse, AfterWrite
  <2> QED
    BY <1>0, <2>1, <2>2, OwnKept
<1>7. ASSUME NEW c \in Clients, Collect(c) PROVE OwnInv'
  <2>1. UNCHANGED <<request, local_req, response, next_req_id>>
    BY <1>7 DEF Collect
  <2>2. CASE goto(c, "giveup")
    BY <1>0, <2>1, <2>2 DEF OwnInv, OwnAnswer, Genuine, AfterWrite
  <2>3. CASE ~goto(c, "giveup")
    <3>1. response.id = next_req_id[c] /\ goto(c, "done") /\ reply' = [reply EXCEPT ![c] = response]
      BY <1>7, <2>3 DEF Collect, IsAnswer
    <3>2. next_req_id[c] >= 1 /\ next_req_id[c] \in Int
      BY <1>0, <1>7 DEF Collect, OwnInv, AfterWrite, TypeOK
    <3>3. response = [client |-> response.client, id |-> response.id]
          /\ response.client \in Clients \cup {NoOne}
      BY <1>0 DEF TypeOK, Messages
    <3>4. response.client # NoOne
      BY <3>1, <3>2 DEF OwnInv, Genuine
    <3>5. response = [client |-> c, id |-> next_req_id[c]]
      BY <3>1, <3>3, <3>4
    <3>6. reply'[c] = response
      BY <1>0, <3>1 DEF TypeOK
    <3> QED
      BY <1>0, <2>1, <3>1, <3>2, <3>5, <3>6 DEF OwnInv, OwnAnswer, Genuine, AfterWrite
  <2> QED
    BY <2>2, <2>3
<1>8. ASSUME Top \/ Callback \/ RaiseResponse \/ LowerRequest PROVE OwnInv'
  <2>1. /\ UNCHANGED <<request, local_req, response, next_req_id, reply>>
        /\ \E l \in ServerPCs : goto(Server, l)
    BY <1>8 DEF Top, Callback, RaiseResponse, LowerRequest, ServerPCs, ServerHolding
  <2> QED
    BY <1>0, <2>1, OwnKept
<1>9. ASSUME Serve PROVE OwnInv'
  <2>1. /\ UNCHANGED <<request, response, next_req_id, reply>>
        /\ local_req' = request \/ local_req' = local_req
        /\ \A c \in Clients : pc'[c] = pc[c]
    BY <1>0, <1>9 DEF Serve
  <2> QED
    BY <2>1 DEF OwnInv, OwnAnswer, Genuine
<1>10. ASSUME Respond PROVE OwnInv'
  <2>1. /\ UNCHANGED <<request, local_req, next_req_id, reply>> /\ response' = local_req
        /\ \A c \in Clients : pc'[c] = pc[c]
    BY <1>0, <1>10 DEF Respond
  <2> QED
    BY <2>1 DEF OwnInv, OwnAnswer, Genuine
<1>11. ASSUME Announce PROVE OwnInv'
  <2>1. /\ UNCHANGED <<request, local_req, response, next_req_id, reply>>
        /\ \A c \in Clients : pc'[c] = "done" => pc[c] = "done"
        /\ \A c \in Clients : pc'[c] \in AfterWrite => pc[c] \in AfterWrite
    BY <1>0, <1>11, WokenTable DEF Announce, AfterWrite
  <2> QED
    BY <2>1, OwnKept
<1>12. ASSUME NEW t \in Procs, Lock(t) PROVE OwnInv'
  <2>1. UNCHANGED <<request, local_req, response, next_req_id, reply>>
    BY <1>12 DEF Lock
  <2>2. \E l \in {"channel", "serve", "respond", "lower", "failed"} : goto(t, l)
    BY <1>12, LockedTable DEF Lock
  <2> QED
    BY <1>0, <2>1, <2>2, OwnKept DEF AfterWrite
<1>13. ASSUME NEW t \in Procs, Release(t) PROVE OwnInv'
  <2>1. UNCHANGED <<request, local_req, response, next_req_id, reply>>
    BY <1>13 DEF Release
  <2>2. \E l \in {"idle", "callback", "top", "stopped"} : goto(t, l)
    BY <1>13, ReleasedTable DEF Release
  <2> QED
    BY <1>0, <2>1, <2>2, OwnKept DEF AfterWrite
<1>14. ASSUME NEW t \in Procs, Wake(t) \/ Timeout(t) PROVE OwnInv'
  <2>1. UNCHANGED <<request, local_req, response, next_req_id, reply>>
    BY <1>14 DEF Wake, Timeout
  <2>2. \/ \E l \in {"chanrelock", "chanexpired", "reqrelock"} : goto(t, l)
        \/ pc[t] = "respwait" /\ (goto(t, "resprelock") \/ goto(t, "respexpired"))
    BY <1>14, WokenTable, ExpiredTable DEF Wake, Timeout
  <2> QED
    BY <1>0, <2>1, <2>2, OwnKept DEF AfterWrite
<1>15. ASSUME NEW t \in Procs, Reacquire(t) PROVE OwnInv'
  <2>1. UNCHANGED <<request, local_req, response, next_req_id, reply>>
    BY <1>15 DEF Reacquire
  <2>2. goto(t, "wipe") \/ goto(t, "channel") \/ goto(t, "serve")
        \/ (pc[t] = "resprelock" /\ goto(t, "await"))
    BY <1>15 DEF Reacquire, Reacquired
  <2> QED
    BY <1>0, <2>1, <2>2, OwnKept DEF AfterWrite
<1>16. ASSUME NEW t \in Procs, WipeRequest(t) \/ WipeResponse(t) PROVE OwnInv'
  <2>1. UNCHANGED <<request, local_req, response, next_req_id, reply>>
    BY <1>16 DEF WipeRequest, WipeResponse
  <2>2. goto(t, "wiped") \/ goto(t, "serve") \/ goto(t, "giveup")
    BY <1>16 DEF WipeRequest, WipeResponse
  <2> QED
    BY <1>0, <2>1, <2>2, OwnKept DEF AfterWrite
<1>17. ASSUME NEW t \in Procs, Crash(t) PROVE OwnInv'
  BY <1>0, <1>17, OwnKept DEF Crash, AfterWrite
<1>18. ASSUME shutdown \/ \E t \in Procs : Signal(t) PROVE OwnInv'
  BY <1>18, OwnKept DEF shutdown, Signal
<1>19. CASE UNCHANGED vars
  BY <1>19, OwnKept DEF vars
<1> QED
  BY <1>1, <1>2, <1>3, <1>4, <1>5, <1>6, <1>7, <1>8, <1>9, <1>10, <1>11, <1>12, <1>13,
     <1>14, <1>15, <1>16, <1>17, <1>18, <1>19, NextCases

\* A client that has the service for itself never takes the late answer to an
\* earlier call for its own: the test of request_id (service_client.h:78) is
\* enough, because one client's ids do not repeat.  With two clients it is not.
THEOREM ServiceOwnAnswer ==
  ASSUME \A c, d \in Clients : c = d
  PROVE  Spec => []OwnAnswer
<1>1. TypeInv /\ OwnInv /\ [Next]_vars => TypeInv' /\ OwnInv'
  BY TypeNext, OwnNext
<1>2. OwnInv => OwnAnswer
  BY DEF OwnInv
<1> QED
  BY <1>1, <1>2, TypeInit, OwnInit, PTL DEF Spec
=============================================================================
