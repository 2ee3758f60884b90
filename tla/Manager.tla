------------------------------ MODULE Manager ------------------------------
(***************************************************************************)
(* SystemManager beside its table of topics: the constructor, which makes  *)
(* the manager's segment or opens the one another process is still making; *)
(* the table of nodes behind Node and com_node; and createOrGetService,    *)
(* with which a restarted server wipes its predecessor's segment.  Each    *)
(* process is one run of a main() with a Node and a ServiceServer or a     *)
(* ServiceClient, left in the opposite order; whoever takes over from it   *)
(* is another process, perhaps of the same names.                          *)
(***************************************************************************)
EXTENDS Integers, FiniteSets, FiniteSetsExt, RobustMutex

CONSTANTS Servers, Clients,         \* processes, by what they own beside the Node
          Mortal,                   \* those that may be killed
          NodeName, Service,        \* NodeName[t], Service[t]
          Unnamed,                  \* the name in an entry nobody has written
          MAX_NODES, MAX_SERVICES   \* entries of the two tables

Procs == Servers \cup Clients
Services == {Service[t] : t \in Procs}

ASSUME ManagerAssumption ==
  /\ NoOne \notin Procs /\ Mortal \subseteq Procs
  /\ Servers \cap Clients = {}
  /\ DOMAIN NodeName = Procs /\ DOMAIN Service = Procs
  /\ Unnamed \notin Services /\ \A t \in Procs : NodeName[t] # Unnamed
  /\ MAX_NODES \in Nat \ {0, 1} /\ MAX_SERVICES \in Nat \ {0}

VARIABLES
  segment,    \* how far the manager's segment is made
  mutex, nodes, service_count, services,  \* SystemManagerShm; no one reads node_count
  file,       \* file[n] : the segment of service n in /dev/shm, or 0
  ready,      \* the service segments whose mutex and flags were initialised
  made,       \* number of service segments made so far
  pc,         \* where each process is
  node_id,    \* Node::node_id_, or the slot registerNode is filling
  idx,        \* the local idx of createOrGetService
  seg,        \* seg[t] : the service segment t has mapped, or 0
  early,      \* history: who used the segment before its creator was done
  latest      \* history: the server of n that last looked n up, or NoOne

tables == <<nodes, service_count, services>>
files == <<file, ready, made>>
locals == <<node_id, idx, seg>>
vars == <<segment, mutex, tables, files, pc, locals, early, latest>>

NodeSlots == 0 .. MAX_NODES - 1
ServiceSlots == 0 .. MAX_SERVICES - 1
Segments == Nat \ {0}

Creating == {"truncate", "mutex", "counts"}
Wanting == [node |-> "slot", service |-> "search", leave |-> "deactivate"]
Holding == {"slot", "activate", "noded", "search", "wipe",
            "recreate", "reinit", "create", "init", "index", "count", "register",
            "served", "found", "absent", "refused", "deactivate", "gone"}
Released == [noded |-> "service", served |-> "up", found |-> "open",
             absent |-> "service", refused |-> "leave", gone |-> "ended"]
PCs == Creating \cup DOMAIN Wanting \cup Holding \cup {"idle", "open", "up", "ended", "dead"}

goto(t, l) == pc' = [pc EXCEPT ![t] = l]

Init ==
  /\ segment = "absent"
  /\ mutex = initRobustMutex /\ service_count = 0
  /\ nodes = [i \in NodeSlots |-> [name |-> Unnamed, pid |-> NoOne, active |-> FALSE]]
  /\ services = [i \in ServiceSlots |-> [name |-> Unnamed, active |-> FALSE]]
  /\ file = [n \in Services |-> 0] /\ ready = {} /\ made = 0
  /\ pc = [t \in Procs |-> "idle"]
  /\ node_id = [t \in Procs |-> -1]
  /\ idx = [t \in Procs |-> 0] /\ seg = [t \in Procs |-> 0]
  /\ early = {} /\ latest = [n \in Services |-> NoOne]
-----------------------------------------------------------------------------
\* Mutant: whoever opens the segment initialises it.
BugConstruct(t) ==
  /\ pc[t] = "idle"
  /\ \/ segment = "absent" /\ segment' = "empty" /\ goto(t, "truncate")
     \/ segment # "absent" /\ UNCHANGED segment /\ goto(t, "mutex")
  /\ UNCHANGED <<mutex, tables, files, locals, early, latest>>

\* SystemManager::instance(): O_EXCL decides who initialises the segment; the
\* others open it as it is.
Construct(t) ==
  /\ pc[t] = "idle"
  /\ \/ segment = "absent" /\ segment' = "empty" /\ goto(t, "truncate")
     \/ segment # "absent" /\ UNCHANGED segment /\ goto(t, "node")
  /\ UNCHANGED <<mutex, tables, files, locals, early, latest>>

\* ftruncate fills it with zeroes; when it fails the constructor says so, goes
\* on, and is killed at the first access.
Truncate(t) ==
  /\ pc[t] = "truncate"
  /\ \/ segment' = "zeroed" /\ goto(t, "mutex")
     \/ UNCHANGED segment /\ goto(t, "dead")
  /\ UNCHANGED <<mutex, tables, files, locals, early, latest>>

\* Whoever holds the zeroed mutex is forgotten.
InitMutex(t) ==
  /\ pc[t] = "mutex"
  /\ segment' = "locked"
  /\ mutex' = initRobustMutex
  /\ goto(t, "counts")
  /\ UNCHANGED <<tables, files, locals, early, latest>>

InitCounts(t) ==
  /\ pc[t] = "counts"
  /\ segment' = "initialised"
  /\ service_count' = 0
  /\ goto(t, "node")
  /\ UNCHANGED <<mutex, nodes, services, files, locals, early, latest>>

\* An access beyond the end of the file.
Sigbus(t) ==
  /\ pc[t] \in DOMAIN Wanting /\ segment = "empty"
  /\ goto(t, "dead")
  /\ UNCHANGED <<segment, mutex, tables, files, locals, early, latest>>

\* registerNode, createOrGetService and unregisterNode begin with lockRobust,
\* which takes a zeroed mutex as well as a robust one.
Lock(t) ==
  /\ pc[t] \in DOMAIN Wanting /\ segment # "empty"
  /\ pc[t] = "leave" => node_id[t] # -1
  /\ mutex.owner = NoOne /\ Recoverable(mutex)
  /\ mutex' = lockRobust(mutex, t)
  /\ goto(t, Wanting[pc[t]])
  /\ early' = IF segment = "initialised" THEN early ELSE early \cup {t}
  /\ UNCHANGED <<segment, tables, files, locals, latest>>

\* Mutant: a client that has found its service keeps the mutex.
BugUnlock(t) ==
  /\ pc[t] \in DOMAIN Released
  /\ mutex' = IF pc[t] = "found" THEN mutex ELSE UnlockedBy(mutex, t)
  /\ goto(t, Released[pc[t]])
  /\ UNCHANGED <<segment, tables, files, locals, early, latest>>

Unlock(t) ==
  /\ pc[t] \in DOMAIN Released
  /\ mutex' = UnlockedBy(mutex, t)
  /\ goto(t, Released[pc[t]])
  /\ UNCHANGED <<segment, tables, files, locals, early, latest>>

\* The process is killed.  Only a robust mutex notices.
Crash(t) ==
  /\ t \in Mortal /\ pc[t] \notin {"idle", "ended", "dead"}
  /\ mutex' = IF segment = "zeroed" THEN mutex ELSE AfterDeathOf(mutex, t)
  /\ seg' = [seg EXCEPT ![t] = 0]
  /\ goto(t, "dead")
  /\ UNCHANGED <<segment, tables, files, node_id, idx, early, latest>>
-----------------------------------------------------------------------------
FreeSlots == {i \in NodeSlots : ~nodes[i].active}

\* Mutant: the number of nodes is taken for the first free slot.
BugSlot(t) ==
  /\ pc[t] = "slot"
  /\ LET n == Cardinality(NodeSlots \ FreeSlots)
     IN  \/ /\ n < MAX_NODES
            /\ node_id' = [node_id EXCEPT ![t] = n]
            /\ goto(t, "activate")
         \/ n = MAX_NODES /\ UNCHANGED node_id /\ goto(t, "noded")
  /\ UNCHANGED <<segment, mutex, tables, files, idx, seg, early, latest>>

\* registerNode.  A full table leaves the Node without an id, and no one minds.
Slot(t) ==
  /\ pc[t] = "slot"
  /\ \/ /\ FreeSlots # {}
        /\ node_id' = [node_id EXCEPT ![t] = Min(FreeSlots)]
        /\ goto(t, "activate")
     \/ /\ FreeSlots = {}
        /\ UNCHANGED node_id
        /\ goto(t, "noded")
  /\ UNCHANGED <<segment, mutex, tables, files, idx, seg, early, latest>>

\* The name and the pid, and then the flag; nobody looks at the former without.
Activate(t) ==
  /\ pc[t] = "activate"
  /\ nodes' = [nodes EXCEPT ![node_id[t]] =
                 [name |-> NodeName[t], pid |-> t, active |-> TRUE]]
  /\ goto(t, "noded")
  /\ UNCHANGED <<segment, mutex, service_count, services, files, locals, early,
                 latest>>

\* unregisterNode returns at once for a Node that has no id ...
NoNode(t) ==
  /\ pc[t] = "leave" /\ node_id[t] = -1
  /\ goto(t, "ended")
  /\ UNCHANGED <<segment, mutex, tables, files, locals, early, latest>>

\* Mutant: the flag stays.
BugDeactivate(t) ==
  /\ pc[t] = "deactivate"
  /\ node_id' = [node_id EXCEPT ![t] = -1]
  /\ goto(t, "gone")
  /\ UNCHANGED <<segment, mutex, tables, files, idx, seg, early, latest>>

\* ... and else clears the flag.
Deactivate(t) ==
  /\ pc[t] = "deactivate"
  /\ nodes' = [nodes EXCEPT ![node_id[t]].active = FALSE]
  /\ node_id' = [node_id EXCEPT ![t] = -1]
  /\ goto(t, "gone")
  /\ UNCHANGED <<segment, mutex, service_count, services, files, idx, seg, early,
                 latest>>

\* getNodePid, of whoever looks while nobody writes: the first namesake.
getNodePid(n) ==
  LET Named == {i \in NodeSlots : nodes[i].active /\ nodes[i].name = n}
  IN  IF Named = {} THEN NoOne ELSE nodes[Min(Named)].pid

NodeStep(t) ==
  \/ Slot(t) \/ Activate(t) \/ NoNode(t) \/ Deactivate(t)
-----------------------------------------------------------------------------
Found(n) ==
  \E i \in ServiceSlots : i < service_count /\ services[i] = [name |-> n, active |-> TRUE]

\* Once the count is past the table, the search goes through the memory behind
\* it too and may take what is there for the name.
MayFind(n) == Found(n) \/ service_count > MAX_SERVICES

\* Mutant: the test of a full table lets one more in.
BugSearch(t) ==
  /\ pc[t] = "search"
  /\ latest' = IF t \in Servers THEN [latest EXCEPT ![Service[t]] = t] ELSE latest
  /\ \/ MayFind(Service[t]) /\ goto(t, IF t \in Servers THEN "wipe" ELSE "found")
     \/ ~Found(Service[t]) /\ t \in Clients /\ goto(t, "absent")
     \/ /\ ~Found(Service[t]) /\ t \in Servers
        /\ goto(t, IF service_count <= MAX_SERVICES THEN "create" ELSE "refused")
  /\ UNCHANGED <<segment, mutex, tables, files, locals, early>>

\* createOrGetService, inside the lock: a server that finds its name wipes the
\* segment, a client opens it after the unlock; only servers make one.
Search(t) ==
  /\ pc[t] = "search"
  /\ latest' = IF t \in Servers THEN [latest EXCEPT ![Service[t]] = t] ELSE latest
  /\ \/ MayFind(Service[t]) /\ goto(t, IF t \in Servers THEN "wipe" ELSE "found")
     \/ ~Found(Service[t]) /\ t \in Clients /\ goto(t, "absent")
     \/ /\ ~Found(Service[t]) /\ t \in Servers
        /\ goto(t, IF service_count < MAX_SERVICES THEN "create" ELSE "refused")
  /\ UNCHANGED <<segment, mutex, tables, files, locals, early>>

Wipe(t) ==
  /\ pc[t] = "wipe"
  /\ file' = [file EXCEPT ![Service[t]] = 0]
  /\ goto(t, "recreate")
  /\ UNCHANGED <<segment, mutex, tables, ready, made, locals, early, latest>>

\* An orphan of that name is unlinked first, when the table does not know it.
Reclaim(t) ==
  /\ pc[t] = "create" /\ file[Service[t]] # 0
  /\ file' = [file EXCEPT ![Service[t]] = 0]
  /\ UNCHANGED <<segment, mutex, tables, ready, made, pc, locals, early, latest>>

\* shm_open with O_EXCL; it may fail, before or after the unlink.
Create(t) ==
  /\ pc[t] \in {"create", "recreate"}
  /\ \/ /\ file[Service[t]] = 0
        /\ made' = made + 1
        /\ file' = [file EXCEPT ![Service[t]] = made']
        /\ seg' = [seg EXCEPT ![t] = made']
        /\ goto(t, IF pc[t] = "create" THEN "init" ELSE "reinit")
     \/ /\ goto(t, "refused")
        /\ UNCHANGED <<file, made, seg>>
  /\ UNCHANGED <<segment, mutex, tables, ready, node_id, idx, early, latest>>

\* Mutant: the segment of a server that wiped is left as mmap gives it.
BugInitSegment(t) ==
  /\ pc[t] \in {"init", "reinit"}
  /\ \/ /\ ready' = IF pc[t] = "init" THEN ready \cup {seg[t]} ELSE ready
        /\ goto(t, IF pc[t] = "init" THEN "index" ELSE "served")
        /\ UNCHANGED seg
     \/ /\ seg' = [seg EXCEPT ![t] = 0]
        /\ goto(t, "refused")
        /\ UNCHANGED ready
  /\ UNCHANGED <<segment, mutex, tables, file, made, node_id, idx, early, latest>>

\* ftruncate, mmap, and the segment's mutex and flags; one of the first two may
\* fail.  A server that wiped is in the table already.
InitSegment(t) ==
  /\ pc[t] \in {"init", "reinit"}
  /\ \/ /\ ready' = ready \cup {seg[t]}
        /\ goto(t, IF pc[t] = "init" THEN "index" ELSE "served")
        /\ UNCHANGED seg
     \/ /\ seg' = [seg EXCEPT ![t] = 0]
        /\ goto(t, "refused")
        /\ UNCHANGED ready
  /\ UNCHANGED <<segment, mutex, tables, file, made, node_id, idx, early, latest>>

\* idx = service_count++ : it is read ...
Index(t) ==
  /\ pc[t] = "index"
  /\ idx' = [idx EXCEPT ![t] = service_count]
  /\ goto(t, "count")
  /\ UNCHANGED <<segment, mutex, tables, files, node_id, seg, early, latest>>

\* ... and written, by two who are in here together perhaps both before either.
\* The test for a full table is far above.
Count(t) ==
  /\ pc[t] = "count"
  /\ service_count' = idx[t] + 1
  /\ goto(t, "register")
  /\ UNCHANGED <<segment, mutex, nodes, services, files, locals, early, latest>>

\* The entry behind the last lies over node_count and the name of the first
\* node; the next, over what is left of that node and the name of the second.
Overwritten(i) ==
  IF i = MAX_SERVICES THEN {[nodes EXCEPT ![0].name = Unnamed]}
  ELSE {[nodes EXCEPT ![0].pid = NoOne, ![0].active = a, ![1].name = Unnamed] :
          a \in BOOLEAN}

\* The name and then the flag; nobody looks at a name without the flag.
Register(t) ==
  /\ pc[t] = "register"
  /\ \/ /\ idx[t] < MAX_SERVICES
        /\ services' = [services EXCEPT ![idx[t]] = [name |-> Service[t], active |-> TRUE]]
        /\ UNCHANGED nodes
     \/ /\ idx[t] >= MAX_SERVICES
        /\ nodes' \in Overwritten(idx[t])
        /\ UNCHANGED services
  /\ idx' = [idx EXCEPT ![t] = 0]
  /\ goto(t, "served")
  /\ UNCHANGED <<segment, mutex, service_count, files, node_id, seg, early, latest>>

\* The client's shm_open and mmap, without the manager's mutex.
Open(t) ==
  /\ pc[t] = "open" /\ file[Service[t]] # 0
  /\ seg' = [seg EXCEPT ![t] = file[Service[t]]]
  /\ goto(t, "up")
  /\ UNCHANGED <<segment, mutex, tables, files, node_id, idx, early, latest>>

\* The file is gone, or one of the two calls fails all the same; the client
\* asks again 100 ms later.
OpenFails(t) ==
  /\ pc[t] = "open"
  /\ goto(t, "service")
  /\ UNCHANGED <<segment, mutex, tables, files, locals, early, latest>>

\* ~ServiceServer and ~ServiceClient only unmap; the name stays registered.
Close(t) ==
  /\ pc[t] = "up"
  /\ seg' = [seg EXCEPT ![t] = 0]
  /\ goto(t, "leave")
  /\ UNCHANGED <<segment, mutex, tables, files, node_id, idx, early, latest>>

\* SIGINT ends a client's waiting.
Interrupt(t) ==
  /\ t \in Clients /\ pc[t] = "service"
  /\ goto(t, "leave")
  /\ UNCHANGED <<segment, mutex, tables, files, locals, early, latest>>

ServiceStep(t) ==
  \/ Search(t) \/ Wipe(t) \/ Reclaim(t) \/ Create(t) \/ InitSegment(t)
  \/ Index(t) \/ Count(t) \/ Register(t) \/ Open(t) \/ OpenFails(t)

Step(t) ==
  \/ Truncate(t) \/ InitMutex(t) \/ InitCounts(t) \/ NodeStep(t)
  \/ ServiceStep(t) \/ Unlock(t)

Next ==
  \E t \in Procs : \/ Construct(t) \/ Sigbus(t) \/ Lock(t) \/ Step(t)
                   \/ Close(t) \/ Interrupt(t) \/ Crash(t)

Spec == Init /\ [][Next]_vars

\* A process inside a call keeps running, and whoever has the mutex gives it
\* back after a few steps, so a client that keeps asking gets it, and can open
\* and map a file that is there some time.
Fairness == /\ \A t \in Procs : WF_vars(Step(t))
            /\ \A t \in Clients : SF_vars(Lock(t)) /\ SF_vars(Open(t))

FairSpec == Spec /\ Fairness
-----------------------------------------------------------------------------
TypeOK ==
  /\ segment \in {"absent", "empty", "zeroed", "locked", "initialised"}
  /\ mutex \in Mutexes(Procs)
  /\ service_count \in Nat
  /\ nodes \in [NodeSlots -> [name : {NodeName[t] : t \in Procs} \cup {Unnamed},
                              pid : Procs \cup {NoOne}, active : BOOLEAN]]
  /\ services \in [ServiceSlots -> [name : Services \cup {Unnamed}, active : BOOLEAN]]
  /\ file \in [Services -> Segments \cup {0}]
  /\ ready \subseteq Segments /\ made \in Nat
  /\ pc \in [Procs -> PCs] /\ node_id \in [Procs -> NodeSlots \cup {-1}]
  /\ idx \in [Procs -> Nat] /\ seg \in [Procs -> Segments \cup {0}]
  /\ early \subseteq Procs /\ latest \in [Services -> Procs \cup {NoOne}]

\* Nobody came before the creator of the manager's segment was done with it.
Orderly == early = {}

\* Whatever the race of the first start did, two processes are only ever
\* inside the manager's lock together when one of them came early.
Exclusion ==
  \A s, t \in Procs :
     s # t /\ pc[s] \in Holding /\ pc[t] \in Holding => s \in early \/ t \in early

\* And never more than two: the race of the first start forgets one owner, and
\* the mutex is made only once.
TwoAtMost ==
  \A r, s, t \in Procs :
     pc[r] \in Holding /\ pc[s] \in Holding /\ pc[t] \in Holding => r = s \/ s = t \/ r = t

\* Without that race nobody writes behind the table of services: between the
\* test for a full table and the entry nobody else registers.
WithinTables ==
  Orderly => \A t \in Procs : pc[t] \in {"count", "register"} => idx[t] < MAX_SERVICES

Registered(t) ==
  node_id[t] # -1 /\ pc[t] \notin {"activate", "dead"}

\* A Node that has an id keeps its entry, alone, and its name leads to it or to
\* a namesake, alive or killed: nobody else's coming or going removes it.
NodesFound ==
  Orderly => \A t \in Procs : Registered(t) =>
     /\ nodes[node_id[t]] = [name |-> NodeName[t], pid |-> t, active |-> TRUE]
     /\ \E p \in Procs : /\ NodeName[p] = NodeName[t] /\ p = getNodePid(NodeName[t])
                         /\ Registered(p) \/ pc[p] = "dead"

\* The only entries nobody will ever clear are those of the killed.
OnlyKilledRemain ==
  Orderly =>
    \A i \in NodeSlots : nodes[i].active =>
       pc[nodes[i].pid] = "dead" \/ node_id[nodes[i].pid] = i

\* NodeInfo says of an active entry that its node is alive, and com_node kill
\* interrupts the process that getNodePid leads it to: the name of a Node that
\* runs leads to one that runs.  Not behind the entry of a killed namesake.
KillReachesLiving ==
  Orderly => \A t \in Procs : Registered(t) => pc[getNodePid(NodeName[t])] # "dead"

\* The server that started last is the one clients find: whatever killed
\* predecessors left half made, its name is registered and leads to its segment,
\* initialised.
LastServerFound ==
  Orderly => \A v \in Servers :
     pc[v] = "up" /\ latest[Service[v]] = v =>
       Found(Service[v]) /\ file[Service[v]] = seg[v] /\ seg[v] \in ready

\* As long as the last server of a service is up, a client of it does not go on
\* asking for ever.
ClientAttaches ==
  \A c \in Clients, v \in Servers :
     Service[c] = Service[v] =>
       (<>[](Orderly /\ pc[v] = "up" /\ latest[Service[v]] = v)
          => []<>(pc[c] \notin {"service", "search", "absent", "found", "open"}))
=============================================================================
