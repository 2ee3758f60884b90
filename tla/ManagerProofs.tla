--------------------------- MODULE ManagerProofs ---------------------------
(***************************************************************************)
(* The manager's segment from its first moment, for any number of          *)
(* processes that start at once, come, go and are killed anywhere: only    *)
(* one that overtook the creator of the segment is ever in the lock beside *)
(* another; and where none did, nodes keep their entries, those who leave  *)
(* clear them, and clients are led to the server that started last.        *)
(***************************************************************************)
EXTENDS Manager, WellFoundedInduction, TLAPS

\* A server between its search and the unlock that ends it.
Making == {"wipe", "recreate", "reinit", "create", "init", "index", "count", "register",
            "served"}

\* The steps by what they do to the tables, for the case distinctions below.
LEMMA NextCases ==
  ASSUME [Next]_vars
  PROVE  \/ UNCHANGED vars
         \/ \E t \in Procs :
              \/ Construct(t) \/ Truncate(t) \/ InitMutex(t) \/ InitCounts(t) \/ Sigbus(t)
              \/ Lock(t) \/ Unlock(t) \/ Crash(t)
              \/ Slot(t) \/ Activate(t) \/ NoNode(t) \/ Deactivate(t)
              \/ Search(t) \/ Wipe(t) \/ Reclaim(t) \/ Create(t) \/ InitSegment(t)
              \/ Index(t) \/ Count(t) \/ Register(t)
              \/ Open(t) \/ OpenFails(t) \/ Close(t) \/ Interrupt(t)
BY DEF Next, Step, NodeStep, ServiceStep

-----------------------------------------------------------------------------
(* Types.  A server that initialises a segment has one.                     *)

HasSegment == \A t \in Procs : pc[t] \in {"init", "reinit"} => seg[t] # 0

TypeInv == TypeOK /\ HasSegment

LEMMA TypeInit == Init => TypeInv
BY ManagerAssumption
DEF Init, TypeInv, TypeOK, HasSegment, initRobustMutex, Mutexes, MutexStates, Services, NodeSlots,
    ServiceSlots, PCs, Creating, Holding

\* The smallest of a set of numbers is one of them.
LEMMA MinOfNaturals ==
  ASSUME NEW S \in SUBSET Nat, S # {}
  PROVE  Min(S) \in S
<1>1. IsWellFoundedOn(OpToRel(<, Nat), Nat)
  BY NatLessThanWellFounded
<1>2. \E x \in S : \A y \in S : ~(<<y, x>> \in OpToRel(<, Nat))
  BY <1>1, WFMin
<1>3. ASSUME NEW x \in Nat, NEW y \in Nat, y < x
      PROVE  <<y, x>> \in OpToRel(<, Nat)
  BY <1>3 DEF OpToRel
<1>4. \E x \in S : \A y \in S : ~(y < x)
  BY <1>2, <1>3
<1>5. \E x \in S : \A y \in S : x =< y
  BY <1>4
<1> QED
  BY <1>5 DEF Min

LEMMA ReleasedTable ==
  ASSUME NEW l \in DOMAIN Released
  PROVE  /\ l \in {"noded", "served", "found", "absent", "refused", "gone"}
         /\ Released[l] = CASE l = "noded" -> "service" [] l = "served" -> "up"
                            [] l = "found" -> "open" [] l = "absent" -> "service"
                            [] l = "refused" -> "leave" [] l = "gone" -> "ended"
BY DEF Released

LEMMA WantingTable ==
  ASSUME NEW l \in DOMAIN Wanting
  PROVE  /\ l \in {"node", "service", "leave"}
         /\ Wanting[l] = CASE l = "node" -> "slot" [] l = "service" -> "search"
                           [] l = "leave" -> "deactivate"
BY DEF Wanting

\* What a step of one process does to its place in the program, and to nobody
\* else's.
LEMMA Moves ==
  ASSUME TypeOK, NEW t \in Procs, NEW l, goto(t, l)
  PROVE  pc' = [pc EXCEPT ![t] = l] /\ pc'[t] = l /\ \A s \in Procs \ {t} : pc'[s] = pc[s]
BY DEF TypeOK, goto

\* A step of t keeps the types when what it writes is typed.
LEMMA TypeKept ==
  ASSUME TypeInv, NEW t \in Procs, NEW l \in PCs, pc' = [pc EXCEPT ![t] = l],
         l \in {"init", "reinit"} => seg'[t] # 0,
         \A s \in Procs \ {t} : seg'[s] = seg[s],
         segment' \in {segment, "empty", "zeroed", "locked", "initialised"},
         mutex' \in Mutexes(Procs), service_count' \in Nat,
         nodes' \in [NodeSlots -> [name : {NodeName[p] : p \in Procs} \cup {Unnamed},
                                   pid : Procs \cup {NoOne}, active : BOOLEAN]],
         services' \in [ServiceSlots -> [name : Services \cup {Unnamed}, active : BOOLEAN]],
         file' \in [Services -> Segments \cup {0}], ready' \subseteq Segments, made' \in Nat,
         node_id' \in [Procs -> NodeSlots \cup {-1}], idx' \in [Procs -> Nat],
         seg' \in [Procs -> Segments \cup {0}], early' \subseteq Procs,
         latest' \in [Services -> Procs \cup {NoOne}]
  PROVE  TypeInv'
<1>1. pc' \in [Procs -> PCs] /\ pc'[t] = l /\ \A s \in Procs \ {t} : pc'[s] = pc[s]
  BY DEF TypeInv, TypeOK
<1>2. segment' \in {"absent", "empty", "zeroed", "locked", "initialised"}
  BY DEF TypeInv, TypeOK
<1>3. HasSegment'
  BY <1>1 DEF TypeInv, HasSegment
<1> QED
  BY <1>1, <1>2, <1>3 DEF TypeInv, TypeOK

LEMMA TypeNext == TypeInv /\ [Next]_vars => TypeInv'
<1> SUFFICES ASSUME TypeInv, [Next]_vars PROVE TypeInv'
  OBVIOUS
<1> USE DEF goto
<1>0. /\ DOMAIN Wanting = {"node", "service", "leave"}
      /\ PCs = {"truncate", "mutex", "counts", "node", "service", "leave", "slot", "activate",
                "noded", "search", "wipe", "recreate", "reinit", "create", "init", "index",
                "count", "register", "served", "found", "absent", "refused", "deactivate", "gone",
                "idle", "open", "up", "ended", "dead"}
      /\ \A t \in Procs : Service[t] \in Services
  BY DEF Wanting, PCs, Creating, Holding, Services
<1>types. TypeOK
  BY DEF TypeInv
<1>1. ASSUME NEW t \in Procs,
             Construct(t) \/ Truncate(t) \/ Sigbus(t) \/ NoNode(t) \/ Interrupt(t)
      PROVE  TypeInv'
  <2>1. PICK l \in {"truncate", "node", "mutex", "dead", "ended", "leave"} :
           pc' = [pc EXCEPT ![t] = l]
    BY <1>1 DEF Construct, Truncate, Sigbus, NoNode, Interrupt
  <2>2. /\ segment' \in {segment, "empty", "zeroed"}
        /\ UNCHANGED <<mutex, tables, files, locals, early, latest>>
    BY <1>1 DEF Construct, Truncate, Sigbus, NoNode, Interrupt
  <2> QED
    BY <1>0, <1>types, <2>1, <2>2, TypeKept DEF TypeOK, tables, files, locals
<1>2. ASSUME NEW t \in Procs, InitMutex(t) \/ InitCounts(t) PROVE TypeInv'
  <2>1. initRobustMutex \in Mutexes(Procs)
    BY DEF initRobustMutex, Mutexes, MutexStates
  <2>2. CASE InitMutex(t)
    BY <1>0, <1>types, <2>1, <2>2, TypeKept DEF InitMutex, TypeOK, tables, files, locals
  <2>3. CASE InitCounts(t)
    BY <1>0, <1>types, <2>1, <2>3, TypeKept DEF InitCounts, TypeOK, tables, files, locals
  <2> QED
    BY <1>2, <2>2, <2>3
<1>3. ASSUME NEW t \in Procs, Lock(t) PROVE TypeInv'
  <2>1. mutex' \in Mutexes(Procs)
    BY <1>3, <1>types DEF Lock, lockRobust, Mutexes, MutexStates, TypeOK
  <2>2. Wanting[pc[t]] \in PCs \ {"init", "reinit"}
    BY <1>0, <1>3, WantingTable DEF Lock
  <2> QED
    BY <1>3, <1>types, <2>1, <2>2, TypeKept DEF Lock, TypeOK, tables, files, locals
<1>4. ASSUME NEW t \in Procs, Unlock(t) PROVE TypeInv'
  <2>1. mutex' \in Mutexes(Procs)
    BY <1>4, <1>types DEF Unlock, UnlockedBy, Mutexes, MutexStates, TypeOK
  <2>2. Released[pc[t]] \in PCs \ {"init", "reinit"}
    BY <1>0, <1>4, ReleasedTable DEF Unlock
  <2> QED
    BY <1>4, <1>types, <2>1, <2>2, TypeKept DEF Unlock, TypeOK, tables, files, locals
<1>5. ASSUME NEW t \in Procs, Crash(t) PROVE TypeInv'
  <2>1. mutex' \in Mutexes(Procs)
    BY <1>5, <1>types DEF Crash, AfterDeathOf, Mutexes, MutexStates, TypeOK
  <2> QED
    BY <1>0, <1>5, <1>types, <2>1, TypeKept DEF Crash, TypeOK, tables, files
<1>6. ASSUME NEW t \in Procs, Slot(t) PROVE TypeInv'
  <2>1. FreeSlots # {} => Min(FreeSlots) \in NodeSlots
    BY MinOfNaturals DEF FreeSlots, NodeSlots
  <2>2. PICK l \in {"activate", "noded"} : pc' = [pc EXCEPT ![t] = l]
    BY <1>6 DEF Slot
  <2>3. node_id' \in [Procs -> NodeSlots \cup {-1}]
    BY <1>6, <1>types, <2>1 DEF Slot, TypeOK
  <2>4. UNCHANGED <<segment, mutex, tables, files, idx, seg, early, latest>>
    BY <1>6 DEF Slot
  <2> QED
    BY <1>0, <1>types, <2>2, <2>3, <2>4, TypeKept DEF TypeOK, tables, files
<1>7. ASSUME NEW t \in Procs, Activate(t) \/ Deactivate(t) PROVE TypeInv'
  <2> DEFINE Node == [name : {NodeName[p] : p \in Procs} \cup {Unnamed},
                      pid : Procs \cup {NoOne}, active : BOOLEAN]
             e == nodes[node_id[t]]
  <2>1. /\ [name |-> NodeName[t], pid |-> t, active |-> TRUE] \in Node
        /\ \A x \in Node : [x EXCEPT !.active = FALSE] \in Node
    OBVIOUS
  <2>2. nodes \in [NodeSlots -> Node]
    BY <1>types DEF TypeOK
  <2>3. nodes' \in [NodeSlots -> Node]
    <3> HIDE DEF Node
    <3>1. CASE Activate(t)
      BY <2>1, <2>2, <3>1 DEF Activate
    <3>2. CASE Deactivate(t)
      <4>1. nodes' = [nodes EXCEPT ![node_id[t]] = [e EXCEPT !.active = FALSE]]
        BY <3>2 DEF Deactivate
      <4>2. node_id[t] \in NodeSlots => [e EXCEPT !.active = FALSE] \in Node
        BY <2>1, <2>2
      <4> HIDE DEF e
      <4> QED
        BY <2>2, <4>1, <4>2
    <3> QED
      BY <1>7, <3>1, <3>2
  <2>4. PICK l \in {"noded", "gone"} : pc' = [pc EXCEPT ![t] = l]
    BY <1>7 DEF Activate, Deactivate
  <2>5. /\ node_id' \in [Procs -> NodeSlots \cup {-1}]
        /\ UNCHANGED <<segment, mutex, service_count, services, files, idx, seg, early, latest>>
    BY <1>7, <1>types DEF Activate, Deactivate, TypeOK, locals
  <2> QED
    BY <1>0, <1>types, <2>3, <2>4, <2>5, TypeKept DEF TypeOK, files
<1>8. ASSUME NEW t \in Procs, Search(t) PROVE TypeInv'
  <2>1. PICK l \in {"wipe", "found", "absent", "create", "refused"} : pc' = [pc EXCEPT ![t] = l]
    BY <1>8 DEF Search
  <2>2. /\ latest' \in [Services -> Procs \cup {NoOne}]
        /\ UNCHANGED <<segment, mutex, tables, files, locals, early>>
    BY <1>8, <1>types DEF Search, TypeOK
  <2> QED
    BY <1>0, <1>types, <2>1, <2>2, TypeKept DEF TypeOK, tables, files, locals
<1>9. ASSUME NEW t \in Procs, Wipe(t) \/ Reclaim(t) PROVE TypeInv'
  <2>1. PICK l \in {"recreate", "create"} : pc' = [pc EXCEPT ![t] = l]
    BY <1>9, <1>types DEF Wipe, Reclaim, TypeOK
  <2>2. /\ file' \in [Services -> Segments \cup {0}]
        /\ UNCHANGED <<segment, mutex, tables, ready, made, locals, early, latest>>
    BY <1>9, <1>types DEF Wipe, Reclaim, TypeOK
  <2> QED
    BY <1>0, <1>types, <2>1, <2>2, TypeKept DEF TypeOK, tables, locals
<1>10. ASSUME NEW t \in Procs, Create(t) PROVE TypeInv'
  <2>1. CASE Create(t)!2!1
    <3>1. made' \in Segments /\ made' # 0 /\ made' \in Nat
      BY <1>types, <2>1 DEF TypeOK, Segments
    <3>2. UNCHANGED <<segment, mutex, tables, ready, node_id, idx, early, latest>>
      BY <1>10 DEF Create
    <3>3. PICK l \in {"init", "reinit"} : pc' = [pc EXCEPT ![t] = l]
      BY <2>1
    <3>4. /\ seg' \in [Procs -> Segments \cup {0}] /\ seg'[t] # 0
          /\ \A s \in Procs \ {t} : seg'[s] = seg[s]
          /\ file' \in [Services -> Segments \cup {0}]
      BY <1>types, <2>1, <3>1 DEF TypeOK
    <3> QED
      BY <1>0, <1>types, <3>1, <3>2, <3>3, <3>4, TypeKept DEF TypeOK, tables
  <2>2. CASE Create(t)!2!2
    <3>1. pc' = [pc EXCEPT ![t] = "refused"]
          /\ UNCHANGED <<segment, mutex, tables, files, locals, early, latest>>
      BY <1>10, <2>2 DEF Create, files, locals
    <3> QED
      BY <1>0, <1>types, <3>1, TypeKept DEF TypeOK, tables, files, locals
  <2> QED
    BY <1>10, <2>1, <2>2 DEF Create
<1>11. ASSUME NEW t \in Procs, InitSegment(t) PROVE TypeInv'
  <2>1. seg[t] \in Segments
    BY <1>11 DEF InitSegment, TypeInv, TypeOK, HasSegment
  <2>2. PICK l \in {"index", "served", "refused"} : pc' = [pc EXCEPT ![t] = l]
    BY <1>11 DEF InitSegment
  <2>3. /\ seg' \in [Procs -> Segments \cup {0}] /\ \A s \in Procs \ {t} : seg'[s] = seg[s]
        /\ ready' \subseteq Segments
        /\ UNCHANGED <<segment, mutex, tables, file, made, node_id, idx, early, latest>>
    BY <1>11, <1>types, <2>1 DEF InitSegment, TypeOK
  <2> QED
    BY <1>0, <1>types, <2>2, <2>3, TypeKept DEF TypeOK, tables
<1>12. ASSUME NEW t \in Procs, Index(t) \/ Count(t) PROVE TypeInv'
  <2>1. PICK l \in {"count", "register"} : pc' = [pc EXCEPT ![t] = l]
    BY <1>12 DEF Index, Count
  <2>2. /\ idx' \in [Procs -> Nat] /\ service_count' \in Nat
        /\ UNCHANGED <<segment, mutex, nodes, services, files, node_id, seg, early, latest>>
    BY <1>12, <1>types DEF Index, Count, TypeOK, tables, locals
  <2> QED
    BY <1>0, <1>types, <2>1, <2>2, TypeKept DEF TypeOK, files
<1>13. ASSUME NEW t \in Procs, Register(t) PROVE TypeInv'
  <2> DEFINE Node == [name : {NodeName[p] : p \in Procs} \cup {Unnamed},
                      pid : Procs \cup {NoOne}, active : BOOLEAN]
  <2>1. [name |-> Service[t], active |-> TRUE] \in [name : Services \cup {Unnamed}, active : BOOLEAN]
    BY <1>0
  <2>2. services' \in [ServiceSlots -> [name : Services \cup {Unnamed}, active : BOOLEAN]]
    BY <1>13, <1>types, <2>1 DEF Register, TypeOK
  <2>3. Overwritten(idx[t]) \subseteq [NodeSlots -> Node]
    <3>1. \A x \in Node : \A a \in BOOLEAN : /\ [x EXCEPT !.name = Unnamed] \in Node
                                          /\ [x EXCEPT !.pid = NoOne, !.active = a] \in Node
      OBVIOUS
    <3>2. nodes \in [NodeSlots -> Node] /\ 0 \in NodeSlots /\ 1 \in NodeSlots /\ 0 # 1
      BY <1>types, ManagerAssumption DEF TypeOK, NodeSlots
    <3> HIDE DEF Node
    <3>3. [nodes EXCEPT ![0].name = Unnamed] \in [NodeSlots -> Node]
      <4>1. [nodes EXCEPT ![0].name = Unnamed] = [nodes EXCEPT ![0] = [nodes[0] EXCEPT !.name = Unnamed]]
        OBVIOUS
      <4> QED
        BY <3>1, <3>2, <4>1
    <3>4. ASSUME NEW a \in BOOLEAN
          PROVE  [nodes EXCEPT ![0].pid = NoOne, ![0].active = a, ![1].name = Unnamed]
                   \in [NodeSlots -> Node]
      <4>1. [nodes EXCEPT ![0].pid = NoOne, ![0].active = a, ![1].name = Unnamed] =
            [nodes EXCEPT ![0] = [nodes[0] EXCEPT !.pid = NoOne, !.active = a],
                          ![1] = [nodes[1] EXCEPT !.name = Unnamed]]
        BY <3>2
      <4> QED
        BY <3>1, <3>2, <4>1
    <3> QED
      BY <3>3, <3>4 DEF Overwritten
  <2>4. nodes' \in [NodeSlots -> Node]
    BY <1>13, <1>types, <2>3 DEF Register, TypeOK
  <2>5. /\ idx' \in [Procs -> Nat] /\ pc' = [pc EXCEPT ![t] = "served"]
        /\ UNCHANGED <<segment, mutex, service_count, files, node_id, seg, early, latest>>
    BY <1>13, <1>types DEF Register, TypeOK
  <2> QED
    BY <1>0, <1>types, <2>2, <2>4, <2>5, TypeKept DEF TypeOK, files
<1>14. ASSUME NEW t \in Procs, Open(t) \/ OpenFails(t) \/ Close(t) PROVE TypeInv'
  <2>1. PICK l \in {"up", "service", "leave"} : pc' = [pc EXCEPT ![t] = l]
    BY <1>14 DEF Open, OpenFails, Close
  <2>2. /\ seg' \in [Procs -> Segments \cup {0}] /\ \A s \in Procs \ {t} : seg'[s] = seg[s]
        /\ UNCHANGED <<segment, mutex, tables, files, node_id, idx, early, latest>>
    BY <1>0, <1>14, <1>types DEF Open, OpenFails, Close, TypeOK, locals
  <2> QED
    BY <1>0, <1>types, <2>1, <2>2, TypeKept DEF TypeOK, tables, files
<1>15. CASE UNCHANGED vars
  BY <1>15 DEF vars, TypeInv, TypeOK, HasSegment, tables, files, locals
<1> QED
  BY <1>1, <1>2, <1>3, <1>4, <1>5, <1>6, <1>7, <1>8, <1>9, <1>10, <1>11, <1>12, <1>13, <1>14, <1>15,
     NextCases

LEMMA TypeInvariant == Spec => []TypeInv
BY TypeInit, TypeNext, PTL DEF Spec

\* The tables and files keep their types, whatever an early start lets be
\* written behind the table of services: nobody writes past the end of the node
\* table, and no segment is initialised that was not made.
THEOREM ManagerTypeCorrect == Spec => []TypeOK
BY TypeInvariant, PTL DEF TypeInv

-----------------------------------------------------------------------------
(* The first moments of the segment.  It has one creator, and where that is *)
(* tells how far the segment is made; whoever is in the lock without having *)
(* come early owns the mutex of the finished segment, which nobody          *)
(* initialises any more.                                                    *)

CreatorInv ==
  /\ \A t \in Procs : /\ pc[t] = "truncate" => segment = "empty"
                      /\ pc[t] = "mutex" => segment = "zeroed"
                      /\ pc[t] = "counts" => segment = "locked"
  /\ \A s, t \in Procs : pc[s] \in Creating /\ pc[t] \in Creating => s = t

OwnerInv ==
  \A t \in Procs :
     pc[t] \in Holding /\ t \notin early => segment = "initialised" /\ mutex.owner = t

BootInv == CreatorInv /\ OwnerInv

LEMMA BootInit == Init => BootInv
BY DEF Init, BootInv, CreatorInv, OwnerInv, Creating, Holding

\* A step after which segment and mutex are as they were.
LEMMA BootKept ==
  ASSUME TypeOK, BootInv, NEW t \in Procs, NEW l, goto(t, l) \/ pc' = pc,
         UNCHANGED <<segment, mutex, early>>,
         l \in Holding => pc[t] \in Holding, l \notin Creating
  PROVE  BootInv'
<1>1. ASSUME NEW s \in Procs
      PROVE  /\ pc'[s] \in Creating => pc'[s] = pc[s]
             /\ pc'[s] \in Holding => pc[s] \in Holding
  <2>1. CASE pc' = pc
    BY <2>1
  <2>2. CASE goto(t, l)
    BY <2>2, Moves
  <2> QED
    BY <2>1, <2>2
<1>2. CreatorInv'
  BY <1>1 DEF BootInv, CreatorInv, Creating
<1>3. OwnerInv'
  BY <1>1 DEF BootInv, OwnerInv
<1> QED
  BY <1>2, <1>3 DEF BootInv

LEMMA BootNext == TypeOK /\ BootInv /\ [Next]_vars => BootInv'
<1> SUFFICES ASSUME TypeOK, BootInv, [Next]_vars PROVE BootInv'
  OBVIOUS
<1>0. /\ Creating = {"truncate", "mutex", "counts"}
      /\ Holding = {"slot", "activate", "noded", "search", "wipe", "recreate", "reinit", "create",
                    "init", "index", "count", "register", "served", "found", "absent", "refused",
                    "deactivate", "gone"}
  BY DEF Creating, Holding
<1>1. ASSUME NEW t \in Procs, Construct(t) PROVE BootInv'
  <2>1. CASE segment = "absent" /\ segment' = "empty" /\ goto(t, "truncate")
    <3>1. \A s \in Procs : pc[s] \notin Creating /\ ~(pc[s] \in Holding /\ s \notin early)
      BY <1>0, <2>1 DEF BootInv, CreatorInv, OwnerInv
    <3> QED
      BY <1>0, <1>1, <2>1, <3>1, Moves DEF Construct, BootInv, CreatorInv, OwnerInv
  <2>2. CASE UNCHANGED segment /\ goto(t, "node")
    BY <1>0, <1>1, <2>2, BootKept DEF Construct
  <2> QED
    BY <1>1, <2>1, <2>2 DEF Construct
<1>2. ASSUME NEW t \in Procs, Truncate(t) PROVE BootInv'
  <2>1. CASE segment' = "zeroed" /\ goto(t, "mutex")
    <3>1. \A s \in Procs : ~(pc[s] \in Holding /\ s \notin early)
      BY <1>2 DEF Truncate, BootInv, CreatorInv, OwnerInv
    <3> QED
      BY <1>0, <1>2, <2>1, <3>1, Moves DEF Truncate, BootInv, CreatorInv, OwnerInv
  <2>2. CASE UNCHANGED segment /\ goto(t, "dead")
    BY <1>0, <1>2, <2>2, BootKept DEF Truncate
  <2> QED
    BY <1>2, <2>1, <2>2 DEF Truncate
<1>3. ASSUME NEW t \in Procs, InitMutex(t) PROVE BootInv'
  <2>1. \A s \in Procs : ~(pc[s] \in Holding /\ s \notin early)
    BY <1>3 DEF InitMutex, BootInv, CreatorInv, OwnerInv
  <2> QED
    BY <1>0, <1>3, <2>1, Moves DEF InitMutex, BootInv, CreatorInv, OwnerInv
<1>4. ASSUME NEW t \in Procs, InitCounts(t) PROVE BootInv'
  <2>1. \A s \in Procs : ~(pc[s] \in Holding /\ s \notin early)
    BY <1>4 DEF InitCounts, BootInv, CreatorInv, OwnerInv
  <2> QED
    BY <1>0, <1>4, <2>1, Moves DEF InitCounts, BootInv, CreatorInv, OwnerInv
<1>5. ASSUME NEW t \in Procs, Lock(t) PROVE BootInv'
  <2>1. /\ mutex' = [owner |-> t, state |-> "consistent"] /\ mutex.owner = NoOne
        /\ goto(t, Wanting[pc[t]]) /\ segment' = segment
        /\ Wanting[pc[t]] \in Holding \ Creating /\ pc[t] \notin Holding
    BY <1>0, <1>5, WantingTable DEF Lock, lockRobust
  <2>2. early' = IF segment = "initialised" THEN early ELSE early \cup {t}
    BY <1>5 DEF Lock
  <2>3. \A s \in Procs : ~(pc[s] \in Holding /\ s \notin early)
    BY <2>1, ManagerAssumption DEF BootInv, OwnerInv
  <2>4. CreatorInv'
    BY <1>0, <2>1, Moves DEF BootInv, CreatorInv
  <2>5. OwnerInv'
    BY <2>1, <2>2, <2>3, Moves DEF OwnerInv
  <2> QED
    BY <2>4, <2>5 DEF BootInv
<1>6. ASSUME NEW t \in Procs, Unlock(t) PROVE BootInv'
  <2>1. goto(t, Released[pc[t]]) /\ Released[pc[t]] \notin Holding \cup Creating
    BY <1>0, <1>6, ReleasedTable DEF Unlock
  <2>2. \A s \in Procs \ {t} : mutex.owner = s => mutex'.owner = s
    BY <1>6 DEF Unlock, UnlockedBy
  <2>3. segment' = segment /\ early' = early
    BY <1>6 DEF Unlock
  <2>4. pc'[t] \notin Holding \cup Creating /\ \A s \in Procs \ {t} : pc'[s] = pc[s]
    BY <2>1, Moves
  <2>5. CreatorInv'
    BY <1>0, <2>3, <2>4 DEF BootInv, CreatorInv
  <2>6. OwnerInv'
    BY <2>2, <2>3, <2>4 DEF BootInv, OwnerInv
  <2> QED
    BY <2>5, <2>6 DEF BootInv
<1>7. ASSUME NEW t \in Procs, Crash(t) PROVE BootInv'
  <2>1. \A s \in Procs \ {t} : mutex.owner = s => mutex'.owner = s
    BY <1>7 DEF Crash, AfterDeathOf
  <2> QED
    BY <1>0, <1>7, <2>1, Moves DEF Crash, BootInv, CreatorInv, OwnerInv
<1>8. ASSUME NEW t \in Procs,
             \/ Sigbus(t) \/ NoNode(t) \/ Slot(t) \/ Activate(t) \/ Deactivate(t)
             \/ Search(t) \/ Wipe(t) \/ Reclaim(t) \/ Create(t) \/ InitSegment(t)
             \/ Index(t) \/ Count(t) \/ Register(t)
             \/ Open(t) \/ OpenFails(t) \/ Close(t) \/ Interrupt(t)
      PROVE  BootInv'
  <2>1. UNCHANGED <<segment, mutex, early>>
    BY <1>8 DEF Sigbus, NoNode, Slot, Activate, Deactivate, Search, Wipe, Reclaim, Create,
       InitSegment, Index, Count, Register, Open, OpenFails, Close, Interrupt
  <2>2. CASE Sigbus(t) \/ NoNode(t) \/ Open(t) \/ OpenFails(t) \/ Close(t) \/ Interrupt(t)
    <3>1. \E l \in {"dead", "ended", "up", "service", "leave"} : goto(t, l)
      BY <2>2 DEF Sigbus, NoNode, Open, OpenFails, Close, Interrupt
    <3> QED
      BY <1>0, <2>1, <3>1, BootKept
  <2>3. CASE Slot(t) \/ Activate(t) \/ Deactivate(t)
    <3>1. pc[t] \in Holding /\ \E l \in {"activate", "noded", "gone"} : goto(t, l)
      BY <1>0, <2>3 DEF Slot, Activate, Deactivate
    <3> QED
      BY <1>0, <2>1, <3>1, BootKept
  <2>4. CASE Search(t) \/ Wipe(t) \/ Reclaim(t)
    <3>1. /\ pc[t] \in Holding
          /\ pc' = pc \/ \E l \in {"wipe", "found", "absent", "create", "refused", "recreate"} : goto(t, l)
      BY <1>0, <2>4 DEF Search, Wipe, Reclaim
    <3> QED
      BY <1>0, <2>1, <3>1, BootKept
  <2>5. CASE Create(t) \/ InitSegment(t) \/ Index(t) \/ Count(t) \/ Register(t)
    <3>1. /\ pc[t] \in Holding
          /\ \E l \in {"init", "reinit", "refused", "index", "count", "served", "register"} : goto(t, l)
      BY <1>0, <2>5 DEF Create, InitSegment, Index, Count, Register
    <3> QED
      BY <1>0, <2>1, <3>1, BootKept
  <2> QED
    BY <1>8, <2>2, <2>3, <2>4, <2>5
<1>9. CASE UNCHANGED vars
  BY <1>9 DEF vars, BootInv, CreatorInv, OwnerInv
<1> QED
  BY <1>1, <1>2, <1>3, <1>4, <1>5, <1>6, <1>7, <1>8, <1>9, NextCases

LEMMA BootInvariant == Spec => [](TypeInv /\ BootInv)
<1>1. TypeInv /\ BootInv /\ [Next]_vars => BootInv'
  BY BootNext DEF TypeInv
<1> QED
  BY <1>1, BootInit, TypeInvariant, PTL DEF Spec

\* Two processes are inside the manager's lock together only when one of them
\* took the mutex before the creator of the segment was done with it: however
\* many start at once and wherever they are killed, the creator included.
THEOREM ManagerExclusion == Spec => []Exclusion
<1>1. BootInv => Exclusion
  BY DEF BootInv, OwnerInv, Exclusion
<1> QED
  BY <1>1, BootInvariant, PTL

-----------------------------------------------------------------------------
(* Who is in the lock without owning the mutex had it when the creator made *)
(* it anew, and nobody makes it again.                                      *)

LostInv ==
  /\ segment \in {"absent", "empty", "zeroed"} =>
       \A t \in Procs : pc[t] \in Holding => mutex.owner = t
  /\ \A s, t \in Procs :
       pc[s] \in Holding /\ pc[t] \in Holding /\ mutex.owner \notin {s, t} => s = t

LEMMA LostInit == Init => LostInv
BY DEF Init, LostInv, Holding

\* A step with which nobody comes into the lock and no other one loses it.
LEMMA LostKept ==
  ASSUME LostInv, NEW t \in Procs,
         segment' \in {"absent", "empty", "zeroed"} => segment \in {"absent", "empty", "zeroed"},
         \A s \in Procs : pc'[s] \in Holding => pc[s] \in Holding,
         mutex' = mutex \/ (pc'[t] \notin Holding /\ mutex.owner = t)
  PROVE  LostInv'
BY DEF LostInv

LEMMA LostNext == TypeOK /\ BootInv /\ LostInv /\ [Next]_vars => LostInv'
<1> SUFFICES ASSUME TypeOK, BootInv, LostInv, [Next]_vars PROVE LostInv'
  OBVIOUS
<1>0. Holding = {"slot", "activate", "noded", "search", "wipe", "recreate", "reinit", "create",
                 "init", "index", "count", "register", "served", "found", "absent", "refused",
                 "deactivate", "gone"}
  BY DEF Holding
<1>1. ASSUME NEW t \in Procs, Construct(t) \/ Truncate(t) \/ InitCounts(t) \/ Sigbus(t)
      PROVE  LostInv'
  <2>1. PICK l \in {"truncate", "node", "mutex", "dead"} : goto(t, l)
    BY <1>1 DEF Construct, Truncate, InitCounts, Sigbus
  <2>2. \A s \in Procs : pc'[s] \in Holding => pc[s] \in Holding
    BY <1>0, <2>1, Moves
  <2>3. /\ mutex' = mutex
        /\ segment' \in {"absent", "empty", "zeroed"} => segment \in {"absent", "empty", "zeroed"}
    BY <1>1 DEF Construct, Truncate, InitCounts, Sigbus, BootInv, CreatorInv
  <2> QED
    BY <2>2, <2>3, LostKept
<1>2. ASSUME NEW t \in Procs, InitMutex(t) PROVE LostInv'
  <2>1. segment = "zeroed" /\ segment' = "locked" /\ goto(t, "counts")
    BY <1>2 DEF InitMutex, BootInv, CreatorInv
  <2>2. \A s \in Procs : pc'[s] \in Holding => pc[s] \in Holding
    BY <1>0, <2>1, Moves
  <2>3. \A s \in Procs : pc[s] \in Holding => mutex.owner = s
    BY <2>1 DEF LostInv
  <2> QED
    BY <2>1, <2>2, <2>3 DEF LostInv
<1>3. ASSUME NEW t \in Procs, Lock(t) PROVE LostInv'
  <2>1. /\ mutex.owner = NoOne /\ mutex'.owner = t /\ segment' = segment
        /\ goto(t, Wanting[pc[t]])
    BY <1>3 DEF Lock, lockRobust
  <2>2. \A s \in Procs \ {t} : pc'[s] = pc[s]
    BY <2>1, Moves
  <2> QED
    BY <2>1, <2>2, ManagerAssumption DEF LostInv
<1>4. ASSUME NEW t \in Procs, Unlock(t) \/ Crash(t) PROVE LostInv'
  <2>1. PICK l \in {"service", "up", "open", "leave", "ended", "dead"} : goto(t, l)
    BY <1>4, ReleasedTable DEF Unlock, Crash
  <2>2. pc'[t] \notin Holding /\ \A s \in Procs : pc'[s] \in Holding => pc[s] \in Holding
    BY <1>0, <2>1, Moves
  <2>3. segment' = segment /\ (mutex' = mutex \/ mutex.owner = t)
    BY <1>4 DEF Unlock, Crash, UnlockedBy, AfterDeathOf
  <2> QED
    BY <2>2, <2>3, LostKept
<1>5. ASSUME NEW t \in Procs,
             \/ NoNode(t) \/ Slot(t) \/ Activate(t) \/ Deactivate(t)
             \/ Search(t) \/ Wipe(t) \/ Reclaim(t) \/ Create(t) \/ InitSegment(t)
             \/ Index(t) \/ Count(t) \/ Register(t)
             \/ Open(t) \/ OpenFails(t) \/ Close(t) \/ Interrupt(t)
      PROVE  LostInv'
  <2>1. UNCHANGED <<segment, mutex>>
    BY <1>5 DEF NoNode, Slot, Activate, Deactivate, Search, Wipe, Reclaim, Create, InitSegment,
       Index, Count, Register, Open, OpenFails, Close, Interrupt
  <2>2. pc[t] \in Holding \/ \E l \in {"ended", "up", "service", "leave"} : goto(t, l)
    BY <1>0, <1>5 DEF NoNode, Slot, Activate, Deactivate, Search, Wipe, Reclaim, Create, InitSegment,
       Index, Count, Register, Open, OpenFails, Close, Interrupt
  <2>3. \A s \in Procs \ {t} : pc'[s] = pc[s]
    <3>1. pc' = pc \/ \E l : goto(t, l)
      BY <1>5 DEF NoNode, Slot, Activate, Deactivate, Search, Wipe, Reclaim, Create, InitSegment,
         Index, Count, Register, Open, OpenFails, Close, Interrupt
    <3> QED
      BY <3>1, Moves
  <2>4. \A s \in Procs : pc'[s] \in Holding => pc[s] \in Holding
    BY <1>0, <2>2, <2>3, Moves
  <2> QED
    BY <2>1, <2>4, LostKept
<1>6. CASE UNCHANGED vars
  BY <1>6 DEF vars, LostInv
<1> QED
  BY <1>1, <1>2, <1>3, <1>4, <1>5, <1>6, NextCases

\* There are never three processes inside the manager's lock, not even when
\* many start before the creator of the segment is done with it.
THEOREM ManagerTwoAtMost == Spec => []TwoAtMost
<1>1. TypeInv /\ BootInv /\ LostInv /\ [Next]_vars => LostInv'
  BY LostNext DEF TypeInv
<1>2. LostInv => TwoAtMost
  BY DEF LostInv, TwoAtMost
<1> QED
  BY <1>1, <1>2, LostInit, BootInvariant, PTL DEF Spec

\* When nobody came early, two processes in the lock are one.
LEMMA OneHolder ==
  ASSUME BootInv, Orderly, NEW s \in Procs, NEW t \in Procs, pc[s] \in Holding, pc[t] \in Holding
  PROVE  s = t
BY DEF BootInv, OwnerInv, Orderly

\* Who came early is never forgotten.
LEMMA StaysEarly == [Next]_vars /\ Orderly' => Orderly
<1> SUFFICES ASSUME [Next]_vars PROVE early \subseteq early'
  BY DEF Orderly
<1> QED
  BY NextCases
  DEF vars, Construct, Truncate, InitMutex, InitCounts, Sigbus, Lock, Unlock, Crash, Slot, Activate,
      NoNode, Deactivate, Search, Wipe, Reclaim, Create, InitSegment, Index, Count, Register,
      Open, OpenFails, Close, Interrupt

-----------------------------------------------------------------------------
(* The number of services, when nobody came early: nobody else counts       *)
(* between a server's test for a full table and its entry.                  *)

CountInv ==
  /\ service_count =< MAX_SERVICES
  /\ \A t \in Procs :
       /\ pc[t] \in {"create", "init", "index", "count"} => service_count < MAX_SERVICES
       /\ pc[t] = "count" => idx[t] = service_count
       /\ pc[t] = "register" => idx[t] < MAX_SERVICES

TableInv == Orderly => CountInv

LEMMA TableInit == Init => TableInv
BY ManagerAssumption DEF Init, TableInv, CountInv

\* A step of t that counts nothing and does not set out to.
LEMMA TableKept ==
  ASSUME TypeOK, TableInv, Orderly' => Orderly, NEW t \in Procs, NEW l, goto(t, l) \/ pc' = pc,
         UNCHANGED <<service_count, idx>>,
         l \in {"create", "init", "index"} =>
            \/ pc[t] \in {"create", "init"} \/ service_count < MAX_SERVICES,
         l \notin {"count", "register"}
  PROVE  TableInv'
<1>1. \A s \in Procs : pc'[s] = pc[s] \/ (s = t /\ pc'[s] = l)
  BY Moves
<1> QED
  BY <1>1 DEF TableInv, CountInv

LEMMA TableNext == TypeOK /\ BootInv /\ TableInv /\ [Next]_vars => TableInv'
<1> SUFFICES ASSUME TypeOK, BootInv, TableInv, [Next]_vars PROVE TableInv'
  OBVIOUS
<1>0. Orderly' => Orderly
  BY StaysEarly
<1>1. ASSUME NEW t \in Procs, InitCounts(t) PROVE TableInv'
  <2>1. segment = "locked" /\ goto(t, "node") /\ service_count' = 0 /\ early' = early
    BY <1>1 DEF InitCounts, BootInv, CreatorInv
  <2>2. ASSUME Orderly', NEW s \in Procs PROVE pc'[s] \notin Holding
    BY <1>0, <2>1, <2>2, Moves DEF BootInv, OwnerInv, Orderly, Holding
  <2> QED
    BY <2>1, <2>2, ManagerAssumption DEF TableInv, CountInv, Holding
<1>2. ASSUME NEW t \in Procs, Lock(t) \/ Unlock(t) PROVE TableInv'
  <2>1. PICK l \in {"slot", "search", "deactivate", "service", "up", "open", "leave", "ended"} :
           goto(t, l)
    BY <1>2, WantingTable, ReleasedTable DEF Lock, Unlock
  <2>2. UNCHANGED <<service_count, idx>>
    BY <1>2 DEF Lock, Unlock, tables, locals
  <2> QED
    BY <1>0, <2>1, <2>2, TableKept
<1>3. ASSUME NEW t \in Procs,
             \/ Construct(t) \/ Truncate(t) \/ InitMutex(t) \/ Sigbus(t) \/ Crash(t)
             \/ NoNode(t) \/ Slot(t) \/ Activate(t) \/ Deactivate(t) \/ Wipe(t) \/ Reclaim(t)
             \/ Open(t) \/ OpenFails(t) \/ Close(t) \/ Interrupt(t)
      PROVE  TableInv'
  <2>1. \E l \in {"truncate", "node", "mutex", "counts", "dead", "ended", "activate", "noded", "gone",
                  "recreate", "up", "service", "leave"} : goto(t, l) \/ pc' = pc
    BY <1>3 DEF Construct, Truncate, InitMutex, Sigbus, Crash, NoNode, Slot, Activate, Deactivate,
       Wipe, Reclaim, Open, OpenFails, Close, Interrupt
  <2>2. UNCHANGED <<service_count, idx>>
    BY <1>3 DEF Construct, Truncate, InitMutex, Sigbus, Crash, NoNode, Slot, Activate, Deactivate,
       Wipe, Reclaim, Open, OpenFails, Close, Interrupt, tables, locals
  <2> QED
    BY <1>0, <2>1, <2>2, TableKept
<1>4. ASSUME NEW t \in Procs, Search(t) \/ Create(t) \/ InitSegment(t) PROVE TableInv'
  <2>1. PICK l \in {"wipe", "found", "absent", "refused", "create", "init", "reinit", "index", "served"} :
           /\ goto(t, l)
           /\ l = "create" => service_count < MAX_SERVICES
           /\ l \in {"init", "index"} => pc[t] \in {"create", "init"}
    BY <1>4 DEF Search, Create, InitSegment
  <2>2. UNCHANGED <<service_count, idx>>
    BY <1>4 DEF Search, Create, InitSegment, tables, locals
  <2> QED
    BY <1>0, <2>1, <2>2, TableKept
<1>5. ASSUME NEW t \in Procs, Index(t) \/ Count(t) \/ Register(t) PROVE TableInv'
  <2>1. /\ pc[t] \in Holding
        /\ Index(t) => pc[t] = "index" /\ pc'[t] = "count" /\ idx'[t] = service_count
                        /\ service_count' = service_count
        /\ Count(t) => pc[t] = "count" /\ pc'[t] = "register" /\ idx'[t] = idx[t]
                        /\ service_count' = idx[t] + 1
        /\ Register(t) => pc'[t] = "served" /\ service_count' = service_count
        /\ \A s \in Procs \ {t} : pc'[s] = pc[s]
    BY <1>5, Moves DEF Index, Count, Register, TypeOK, tables, locals, Holding
  <2>2. ASSUME Orderly' PROVE CountInv /\ \A s \in Procs \ {t} : pc'[s] \notin Holding
    BY <1>0, <2>1, <2>2, OneHolder DEF TableInv
  <2>3. service_count \in Nat /\ idx[t] \in Nat
    BY DEF TypeOK
  <2>4. ASSUME Orderly' PROVE CountInv'
    <3>1. \A s \in Procs \ {t} : pc'[s] \notin {"create", "init", "index", "count", "register"}
      BY <2>2, <2>4 DEF Holding
    <3>2. /\ service_count' =< MAX_SERVICES
          /\ pc'[t] \in {"create", "init", "index", "count"} => service_count' < MAX_SERVICES
          /\ pc'[t] = "count" => idx'[t] = service_count'
          /\ pc'[t] = "register" => idx'[t] < MAX_SERVICES
      BY <1>5, <2>1, <2>2, <2>3, <2>4, ManagerAssumption DEF CountInv
    <3> QED
      BY <3>1, <3>2 DEF CountInv
  <2> QED
    BY <2>4 DEF TableInv
<1>6. CASE UNCHANGED vars
  BY <1>6 DEF vars, tables, locals, TableInv, CountInv, Orderly
<1> QED
  BY <1>1, <1>2, <1>3, <1>4, <1>5, <1>6, NextCases

LEMMA TableInvariant == Spec => [](TypeInv /\ BootInv /\ TableInv)
<1>1. TypeInv /\ BootInv /\ TableInv /\ [Next]_vars => TableInv'
  BY TableNext DEF TypeInv
<1> QED
  BY <1>1, TableInit, BootInvariant, PTL DEF Spec

\* When nobody came early, the entry a server writes lies inside the table of
\* services, which it found not yet full some steps before.
THEOREM ManagerWithinTables == Spec => []WithinTables
<1>1. TypeInv /\ TableInv => WithinTables
  BY DEF TypeInv, TypeOK, TableInv, CountInv, WithinTables
<1> QED
  BY <1>1, TableInvariant, PTL

-----------------------------------------------------------------------------
(* The table of nodes, when nobody came early.  An entry that is taken      *)
(* belongs to a process whose id leads to it, so no two processes have the  *)
(* same, and whoever is about to take one has found it free.                *)

\* When a process has an id.
IdInv ==
  \A t \in Procs :
     /\ pc[t] \in Creating \cup {"idle", "node", "slot"} => node_id[t] = -1
     /\ pc[t] \in {"activate", "deactivate"} => node_id[t] # -1

NodeTableInv ==
  /\ \A t \in Procs : pc[t] = "activate" => ~nodes[node_id[t]].active
  /\ \A t \in Procs : Registered(t) =>
        nodes[node_id[t]] = [name |-> NodeName[t], pid |-> t, active |-> TRUE]
  /\ \A i \in NodeSlots : nodes[i].active =>
        /\ nodes[i].pid \in Procs /\ nodes[i].name = NodeName[nodes[i].pid]
        /\ node_id[nodes[i].pid] = i /\ pc[nodes[i].pid] # "activate"

NodeInv == IdInv /\ (Orderly => NodeTableInv)

LEMMA NodeInit == Init => NodeInv
BY ManagerAssumption DEF Init, NodeInv, IdInv, NodeTableInv, Registered, Creating, NodeSlots

\* A step of t that leaves the table and its own id alone.
LEMMA NodeKept ==
  ASSUME TypeOK, NodeInv, Orderly' => Orderly, NEW t \in Procs, NEW l, goto(t, l) \/ pc' = pc,
         UNCHANGED node_id, Orderly' => UNCHANGED nodes,
         l \in Creating \cup {"idle", "node", "slot"} =>
            pc[t] \in Creating \cup {"idle", "node"},
         l # "activate", pc[t] # "activate" \/ l = "dead",
         l = "deactivate" => node_id[t] # -1,
         pc[t] = "dead" => l = "dead"
  PROVE  NodeInv'
<1>1. ASSUME NEW s \in Procs
      PROVE  /\ pc'[s] \in Creating \cup {"idle", "node", "slot"} =>
                  pc[s] \in Creating \cup {"idle", "node", "slot"}
             /\ pc'[s] = "activate" => pc[s] = "activate"
             /\ pc'[s] = "deactivate" => node_id[s] # -1
             /\ Registered(s)' => Registered(s)
  <2>1. CASE pc' = pc
    BY <2>1 DEF NodeInv, IdInv, Registered
  <2>2. CASE goto(t, l)
    <3>1. CASE s = t
      BY <2>2, <3>1, Moves DEF Registered
    <3>2. CASE s # t
      BY <2>2, <3>2, Moves DEF NodeInv, IdInv, Registered
    <3> QED
      BY <3>1, <3>2
  <2> QED
    BY <2>1, <2>2
<1>2. IdInv'
  BY <1>1 DEF NodeInv, IdInv
<1>3. ASSUME Orderly' PROVE NodeTableInv'
  BY <1>1, <1>3 DEF NodeInv, NodeTableInv
<1> QED
  BY <1>2, <1>3 DEF NodeInv

LEMMA NodeNext == TypeOK /\ BootInv /\ TableInv /\ NodeInv /\ [Next]_vars => NodeInv'
<1> SUFFICES ASSUME TypeOK, BootInv, TableInv, NodeInv, [Next]_vars PROVE NodeInv'
  OBVIOUS
<1>0. /\ Orderly' => Orderly
      /\ Creating = {"truncate", "mutex", "counts"}
      /\ pc \in [Procs -> PCs] /\ node_id \in [Procs -> NodeSlots \cup {-1}]
      /\ -1 \notin NodeSlots
  BY StaysEarly DEF Creating, TypeOK, NodeSlots
<1>1. ASSUME NEW t \in Procs,
             Construct(t) \/ Truncate(t) \/ InitMutex(t) \/ InitCounts(t) \/ Sigbus(t)
      PROVE  NodeInv'
  <2>1. UNCHANGED <<nodes, node_id>>
    BY <1>1 DEF Construct, Truncate, InitMutex, InitCounts, Sigbus, tables, locals
  <2>2. PICK l \in {"truncate", "node", "mutex", "counts", "dead"} : goto(t, l)
    BY <1>1 DEF Construct, Truncate, InitMutex, InitCounts, Sigbus
  <2>3. /\ pc[t] \in Creating \cup {"idle"} \/ l = "dead"
        /\ pc[t] # "activate" /\ pc[t] # "dead"
    <3>1. CASE Sigbus(t)
      <4>1. goto(t, "dead") /\ pc[t] \in {"node", "service", "leave"}
        BY <3>1, WantingTable DEF Sigbus
      <4> QED
        BY <2>2, <4>1, Moves
    <3>2. CASE ~Sigbus(t)
      BY <1>0, <1>1, <3>2 DEF Construct, Truncate, InitMutex, InitCounts
    <3> QED
      BY <3>1, <3>2
  <2> QED
    BY <1>0, <2>1, <2>2, <2>3, NodeKept
<1>2. ASSUME NEW t \in Procs, Lock(t) PROVE NodeInv'
  <2>1. UNCHANGED <<nodes, node_id>> /\ goto(t, Wanting[pc[t]])
    BY <1>2 DEF Lock, tables, locals
  <2>2. /\ pc[t] \in {"node", "service", "leave"}
        /\ Wanting[pc[t]] \in {"slot", "search", "deactivate"}
        /\ Wanting[pc[t]] = "slot" => pc[t] = "node"
        /\ Wanting[pc[t]] = "deactivate" => node_id[t] # -1
    BY <1>2, WantingTable DEF Lock
  <2> QED
    BY <1>0, <2>1, <2>2, NodeKept
<1>3. ASSUME NEW t \in Procs, Unlock(t) PROVE NodeInv'
  <2>1. UNCHANGED <<nodes, node_id>> /\ goto(t, Released[pc[t]])
    BY <1>3 DEF Unlock, tables, locals
  <2>2. /\ pc[t] \in {"noded", "served", "found", "absent", "refused", "gone"}
        /\ Released[pc[t]] \in {"service", "up", "open", "leave", "ended"}
    BY <1>3, ReleasedTable DEF Unlock
  <2> QED
    BY <1>0, <2>1, <2>2, NodeKept
<1>4. ASSUME NEW t \in Procs, Crash(t) \/ NoNode(t) \/ Interrupt(t) \/ Close(t)
             \/ Open(t) \/ OpenFails(t)
      PROVE  NodeInv'
  <2>1. UNCHANGED <<nodes, node_id>>
    BY <1>4 DEF Crash, NoNode, Interrupt, Close, Open, OpenFails, tables, locals
  <2>2. PICK l \in {"dead", "ended", "leave", "up", "service"} : goto(t, l)
    BY <1>4 DEF Crash, NoNode, Interrupt, Close, Open, OpenFails
  <2>3. pc[t] # "dead" /\ (pc[t] = "activate" => l = "dead")
    BY <1>0, <1>4, <2>2, Moves DEF Crash, NoNode, Interrupt, Close, Open, OpenFails
  <2> QED
    BY <1>0, <2>1, <2>2, <2>3, NodeKept
<1>5. ASSUME NEW t \in Procs,
             \/ Search(t) \/ Wipe(t) \/ Reclaim(t) \/ Create(t) \/ InitSegment(t)
             \/ Index(t) \/ Count(t) \/ Register(t)
      PROVE  NodeInv'
  <2>1. UNCHANGED node_id /\ (Orderly' => UNCHANGED nodes)
    <3>1. CASE Register(t)
      <4>1. pc[t] = "register" /\ UNCHANGED node_id /\ (idx[t] >= MAX_SERVICES \/ UNCHANGED nodes)
        BY <3>1 DEF Register
      <4>2. Orderly' => ~(idx[t] >= MAX_SERVICES)
        <5>1. idx[t] \in Nat /\ (Orderly' => idx[t] < MAX_SERVICES)
          BY <1>0, <4>1 DEF TableInv, CountInv, TypeOK
        <5> QED
          BY <5>1, ManagerAssumption
      <4> QED
        BY <4>1, <4>2
    <3>2. CASE ~Register(t)
      BY <1>5, <3>2 DEF Search, Wipe, Reclaim, Create, InitSegment, Index, Count, tables, locals
    <3> QED
      BY <3>1, <3>2
  <2>2. pc[t] \in {"search", "wipe", "create", "recreate", "init", "reinit", "index", "count", "register"}
    BY <1>5 DEF Search, Wipe, Reclaim, Create, InitSegment, Index, Count, Register
  <2>3. \E l \in {"wipe", "found", "absent", "create", "refused", "recreate", "init", "reinit",
                  "index", "count", "served", "register"} : goto(t, l) \/ pc' = pc
    BY <1>5 DEF Search, Wipe, Reclaim, Create, InitSegment, Index, Count, Register
  <2> QED
    BY <1>0, <2>1, <2>2, <2>3, NodeKept
<1>6. ASSUME NEW t \in Procs, Slot(t) PROVE NodeInv'
  <2>1. CASE Slot(t)!2!1
    <3>1. Min(FreeSlots) \in FreeSlots /\ FreeSlots \subseteq NodeSlots
      BY <2>1, MinOfNaturals DEF FreeSlots, NodeSlots
    <3>2. /\ pc[t] = "slot" /\ pc'[t] = "activate" /\ nodes' = nodes
          /\ node_id[t] = -1 /\ node_id'[t] = Min(FreeSlots)
          /\ \A s \in Procs \ {t} : pc'[s] = pc[s] /\ node_id'[s] = node_id[s]
      BY <1>0, <1>6, <2>1, Moves DEF Slot, tables, NodeInv, IdInv
    <3>3. IdInv'
      BY <1>0, <3>1, <3>2 DEF NodeInv, IdInv
    <3>4. ASSUME Orderly' PROVE NodeTableInv'
      <4>1. NodeTableInv
        BY <1>0, <3>4 DEF NodeInv
      <4>2. ~nodes[node_id'[t]].active
        BY <3>1, <3>2 DEF FreeSlots
      <4>3. \A s \in Procs : /\ Registered(s)' => Registered(s) /\ s # t
                             /\ pc'[s] = "activate" /\ s # t => pc[s] = "activate"
        BY <3>2 DEF Registered
      <4>4. ASSUME NEW i \in NodeSlots, nodes[i].active
            PROVE  nodes[i].pid # t
        BY <3>2, <4>1, <4>4, <1>0 DEF NodeTableInv
      <4> QED
        BY <3>2, <4>1, <4>2, <4>3, <4>4 DEF NodeTableInv
    <3> QED
      BY <3>3, <3>4 DEF NodeInv
  <2>2. CASE Slot(t)!2!2
    <3>1. UNCHANGED <<nodes, node_id>> /\ goto(t, "noded") /\ pc[t] = "slot"
      BY <1>6, <2>2 DEF Slot, tables
    <3> QED
      BY <1>0, <3>1, NodeKept
  <2> QED
    BY <1>6, <2>1, <2>2 DEF Slot
<1>7. ASSUME NEW t \in Procs, Activate(t) PROVE NodeInv'
  <2> DEFINE k == node_id[t]
             entry == [name |-> NodeName[t], pid |-> t, active |-> TRUE]
  <2>1. /\ pc[t] = "activate" /\ pc'[t] = "noded" /\ node_id' = node_id
        /\ \A s \in Procs \ {t} : pc'[s] = pc[s]
        /\ nodes' = [nodes EXCEPT ![k] = entry]
    BY <1>7, Moves DEF Activate, locals
  <2>2. k \in NodeSlots
    BY <1>0, <2>1 DEF NodeInv, IdInv
  <2>3. nodes'[k] = entry /\ \A i \in NodeSlots \ {k} : nodes'[i] = nodes[i]
    BY <2>1, <2>2 DEF TypeOK
  <2>4. IdInv'
    BY <1>0, <2>1 DEF NodeInv, IdInv
  <2>5. ASSUME Orderly' PROVE NodeTableInv'
    <3>1. NodeTableInv
      BY <1>0, <2>5 DEF NodeInv
    <3>2. ~nodes[k].active
      BY <2>1, <3>1 DEF NodeTableInv
    <3>3. \A s \in Procs \ {t} : pc[s] # "activate"
      BY <1>0, <2>1, <2>5, OneHolder DEF Holding
    <3>4. ASSUME NEW s \in Procs, Registered(s)'
          PROVE  nodes'[node_id'[s]] = [name |-> NodeName[s], pid |-> s, active |-> TRUE]
      <4>1. CASE s = t
        BY <2>1, <2>3, <4>1
      <4>2. CASE s # t
        <5>1. nodes[node_id[s]] = [name |-> NodeName[s], pid |-> s, active |-> TRUE]
              /\ node_id[s] \in NodeSlots
          BY <1>0, <2>1, <3>1, <3>4, <4>2 DEF NodeTableInv, Registered
        <5>2. node_id[s] # k
          BY <3>2, <5>1
        <5> QED
          BY <2>1, <2>3, <5>1, <5>2
      <4> QED
        BY <4>1, <4>2
    <3>5. ASSUME NEW i \in NodeSlots, nodes'[i].active
          PROVE  /\ nodes'[i].pid \in Procs /\ nodes'[i].name = NodeName[nodes'[i].pid]
                 /\ node_id'[nodes'[i].pid] = i /\ pc'[nodes'[i].pid] # "activate"
      <4>1. CASE i = k
        BY <2>1, <2>3, <4>1
      <4>2. CASE i # k
        <5>1. nodes'[i] = nodes[i]
          BY <2>3, <4>2
        <5>2. nodes[i].pid # t
          BY <2>1, <3>1, <3>5, <5>1 DEF NodeTableInv
        <5> QED
          BY <2>1, <3>1, <3>5, <5>1, <5>2 DEF NodeTableInv
      <4> QED
        BY <4>1, <4>2
    <3>6. \A s \in Procs : pc'[s] # "activate"
      BY <2>1, <3>3
    <3> QED
      BY <3>4, <3>5, <3>6 DEF NodeTableInv
  <2> QED
    BY <2>4, <2>5 DEF NodeInv
<1>8. ASSUME NEW t \in Procs, Deactivate(t) PROVE NodeInv'
  <2> DEFINE k == node_id[t]
  <2>1. /\ pc[t] = "deactivate" /\ pc'[t] = "gone" /\ node_id'[t] = -1
        /\ \A s \in Procs \ {t} : pc'[s] = pc[s] /\ node_id'[s] = node_id[s]
        /\ nodes' = [nodes EXCEPT ![k].active = FALSE]
    BY <1>0, <1>8, Moves DEF Deactivate
  <2>2. k \in NodeSlots
    BY <1>0, <2>1 DEF NodeInv, IdInv
  <2>3. /\ ~nodes'[k].active
        /\ \A i \in NodeSlots \ {k} : nodes'[i] = nodes[i]
    BY <2>1, <2>2 DEF TypeOK
  <2>4. IdInv'
    BY <1>0, <2>1 DEF NodeInv, IdInv
  <2>5. ASSUME Orderly' PROVE NodeTableInv'
    <3>1. NodeTableInv
      BY <1>0, <2>5 DEF NodeInv
    <3>2. nodes[k].pid = t
      <4>1. Registered(t)
        BY <1>0, <2>1, <2>2 DEF Registered
      <4>2. nodes[node_id[t]] = [name |-> NodeName[t], pid |-> t, active |-> TRUE]
        BY <3>1, <4>1, Zenon DEF NodeTableInv
      <4> QED
        BY <4>2
    <3>3. \A s \in Procs \ {t} : pc[s] # "activate"
      BY <1>0, <2>1, <2>5, OneHolder DEF Holding
    <3>4. ASSUME NEW s \in Procs, Registered(s)'
          PROVE  nodes'[node_id'[s]] = [name |-> NodeName[s], pid |-> s, active |-> TRUE]
      <4>1. s # t
        BY <2>1, <3>4 DEF Registered
      <4>2. nodes[node_id[s]] = [name |-> NodeName[s], pid |-> s, active |-> TRUE]
            /\ node_id[s] \in NodeSlots
        BY <1>0, <2>1, <3>1, <3>4, <4>1 DEF NodeTableInv, Registered
      <4>3. node_id[s] # k
        BY <3>2, <4>1, <4>2
      <4> QED
        BY <2>1, <2>3, <4>1, <4>2, <4>3
    <3>5. ASSUME NEW i \in NodeSlots, nodes'[i].active
          PROVE  /\ nodes'[i].pid \in Procs /\ nodes'[i].name = NodeName[nodes'[i].pid]
                 /\ node_id'[nodes'[i].pid] = i /\ pc'[nodes'[i].pid] # "activate"
      <4>1. i # k /\ nodes'[i] = nodes[i]
        BY <2>3, <3>5
      <4>2. nodes[i].pid # t
        BY <3>1, <3>5, <4>1 DEF NodeTableInv
      <4> QED
        BY <2>1, <3>1, <3>5, <4>1, <4>2 DEF NodeTableInv
    <3>6. \A s \in Procs : pc'[s] # "activate"
      BY <2>1, <3>3
    <3> QED
      BY <3>4, <3>5, <3>6 DEF NodeTableInv
  <2> QED
    BY <2>4, <2>5 DEF NodeInv
<1>9. CASE UNCHANGED vars
  BY <1>9 DEF vars, tables, locals, NodeInv, IdInv, NodeTableInv, Registered, Orderly
<1> QED
  BY <1>1, <1>2, <1>3, <1>4, <1>5, <1>6, <1>7, <1>8, <1>9, NextCases

LEMMA NodeInvariant == Spec => [](TypeInv /\ BootInv /\ NodeInv)
<1>1. TypeInv /\ BootInv /\ TableInv /\ NodeInv /\ [Next]_vars => NodeInv'
  BY NodeNext DEF TypeInv
<1> QED
  BY <1>1, NodeInit, TableInvariant, PTL DEF Spec

\* A Node that has an id keeps its entry, and its name leads to it or to a
\* namesake: other nodes come, go and are killed around it.
THEOREM ManagerNodesFound == Spec => []NodesFound
<1>1. TypeInv /\ NodeInv => NodesFound
  <2> SUFFICES ASSUME TypeOK, NodeInv, Orderly, NEW t \in Procs, Registered(t)
               PROVE  NodesFound!2!(t)!2
    BY DEF NodesFound, TypeInv
  <2> DEFINE Named == {i \in NodeSlots : nodes[i].active /\ nodes[i].name = NodeName[t]}
  <2>1. nodes[node_id[t]] = [name |-> NodeName[t], pid |-> t, active |-> TRUE]
    BY DEF NodeInv, NodeTableInv
  <2>2. node_id[t] \in Named
    BY <2>1 DEF TypeOK, Registered
  <2>3. Min(Named) \in Named
    BY <2>2, MinOfNaturals DEF NodeSlots
  <2>4. getNodePid(NodeName[t]) = nodes[Min(Named)].pid
    BY <2>2 DEF getNodePid
  <2> DEFINE p == nodes[Min(Named)].pid
  <2>5. /\ p \in Procs /\ NodeName[p] = NodeName[t]
        /\ node_id[p] = Min(Named) /\ pc[p] # "activate" /\ Min(Named) \in NodeSlots
    BY <2>3 DEF NodeInv, NodeTableInv
  <2>6. Registered(p) \/ pc[p] = "dead"
    <3>1. -1 \notin NodeSlots
      BY DEF NodeSlots
    <3> QED
      BY <2>5, <3>1 DEF Registered
  <2> QED
    BY <2>1, <2>4, <2>5, <2>6
<1> QED
  BY <1>1, NodeInvariant, PTL

\* An entry that is taken belongs to a process that was killed, or still has
\* it: whoever leaves in order leaves none behind.
THEOREM ManagerOnlyKilledRemain == Spec => []OnlyKilledRemain
<1>1. NodeInv => OnlyKilledRemain
  BY DEF NodeInv, NodeTableInv, OnlyKilledRemain
<1> QED
  BY <1>1, NodeInvariant, PTL

-----------------------------------------------------------------------------
(* The table of services, likewise.  A server on its way from the search to *)
(* the unlock is the last that searched; the entry it is going to write is  *)
(* free, so none that was found is ever lost; and the file of its service   *)
(* is the segment it has made.                                              *)

PartsInv ==
  \A t \in Procs : /\ pc[t] \in Making => t \in Servers
                   /\ pc[t] \in {"found", "open"} => t \in Clients

EntriesInv ==
  /\ segment # "initialised" => service_count = 0
  /\ \A i \in ServiceSlots : services[i].active => i < service_count
  /\ \A t \in Procs : pc[t] = "register" => idx[t] < service_count /\ ~services[idx[t]].active

LatestInv ==
  \A t \in Servers :
     /\ pc[t] \in Making => latest[Service[t]] = t
     /\ latest[Service[t]] = t =>
          /\ pc[t] \in {"wipe", "recreate", "reinit", "served", "up"} => Found(Service[t])
          /\ pc[t] \in {"init", "reinit", "index", "count", "register", "served", "up"} =>
                file[Service[t]] = seg[t]
     /\ pc[t] \in {"index", "count", "register", "served", "up"} => seg[t] \in ready

ServerInv == PartsInv /\ (Orderly => EntriesInv /\ LatestInv)

LEMMA ServerInit == Init => ServerInv
<1> SUFFICES ASSUME Init PROVE ServerInv
  OBVIOUS
<1>1. \A t \in Procs : pc[t] = "idle"
  BY DEF Init
<1>2. PartsInv /\ LatestInv
  BY <1>1 DEF PartsInv, LatestInv, Making, Procs
<1>3. EntriesInv
  BY <1>1 DEF Init, EntriesInv
<1> QED
  BY <1>2, <1>3 DEF ServerInv

\* A step of t outside createOrGetService's writing.
LEMMA ServerKept ==
  ASSUME TypeOK, ServerInv, Orderly' => Orderly, NEW t \in Procs, NEW l, goto(t, l),
         UNCHANGED <<services, idx, file, ready, latest>>,
         Orderly' => UNCHANGED service_count,
         segment' # "initialised" => segment # "initialised",
         \A s \in Procs \ {t} : seg'[s] = seg[s],
         l \notin Making \cup {"found"}, l = "open" => t \in Clients,
         l = "up" => t \in Clients \/ (pc[t] = "served" /\ seg'[t] = seg[t])
  PROVE  ServerInv'
<1>1. pc'[t] = l /\ \A s \in Procs \ {t} : pc'[s] = pc[s]
  BY Moves
<1>2. PartsInv'
  BY <1>1 DEF ServerInv, PartsInv
<1>3. ASSUME Orderly' PROVE EntriesInv' /\ LatestInv'
  <2>1. EntriesInv /\ LatestInv /\ service_count' = service_count
    BY <1>3 DEF ServerInv
  <2>2. \A n : Found(n)' <=> Found(n)
    BY <2>1 DEF Found
  <2>3. EntriesInv'
    <3>1. \A s \in Procs : pc'[s] = "register" => pc[s] = "register"
      BY <1>1 DEF Making
    <3> QED
      BY <2>1, <3>1 DEF EntriesInv
  <2>4. ASSUME NEW s \in Servers
        PROVE  /\ pc'[s] \in Making => latest'[Service[s]] = s
               /\ latest'[Service[s]] = s =>
                    /\ pc'[s] \in {"wipe", "recreate", "reinit", "served", "up"} => Found(Service[s])'
                    /\ pc'[s] \in {"init", "reinit", "index", "count", "register", "served", "up"} =>
                          file'[Service[s]] = seg'[s]
               /\ pc'[s] \in {"index", "count", "register", "served", "up"} => seg'[s] \in ready'
    <3>1. s \in Procs
      BY DEF Procs
    <3>2. CASE s = t
      <4>1. pc'[s] \in Making \cup {"wipe", "up"} => pc'[s] = "up"
        BY <1>1, <3>2 DEF Making
      <4>2. pc'[s] = "up" => pc[s] = "served" /\ seg'[s] = seg[s]
        BY <1>1, <3>2, ManagerAssumption
      <4> QED
        BY <2>1, <2>2, <4>1, <4>2 DEF LatestInv, Making
    <3>3. CASE s # t
      BY <1>1, <2>1, <2>2, <3>1, <3>3 DEF LatestInv
    <3> QED
      BY <3>2, <3>3
  <2> QED
    BY <2>3, <2>4 DEF LatestInv
<1> QED
  BY <1>2, <1>3 DEF ServerInv

\* A step of t inside the lock: what it has to show is about itself, and that it
\* takes nothing from the servers that are up.
LEMMA ServerMaking ==
  ASSUME TypeOK, BootInv, ServerInv, Orderly' => Orderly, NEW t \in Procs, pc[t] \in Holding,
         segment' = segment,
         \A s \in Procs \ {t} : pc'[s] = pc[s] /\ seg'[s] = seg[s],
         pc'[t] \in Making => t \in Servers, pc'[t] \in {"found", "open"} => t \in Clients,
         Orderly' =>
           /\ EntriesInv'
           /\ \A n \in Services : Found(n) => Found(n)'
           /\ ready \subseteq ready'
           /\ \A s \in Servers \ {t} : latest'[Service[s]] = s =>
                 latest[Service[s]] = s /\ file'[Service[s]] = file[Service[s]]
           /\ pc'[t] \in Making => latest'[Service[t]] = t
           /\ pc'[t] \in {"wipe", "recreate", "reinit", "served"} => Found(Service[t])'
           /\ pc'[t] \in {"init", "reinit", "index", "count", "register", "served"} =>
                 file'[Service[t]] = seg'[t]
           /\ pc'[t] \in {"index", "count", "register", "served"} => seg'[t] \in ready',
         pc'[t] # "up"
  PROVE  ServerInv'
<1>1. PartsInv'
  BY DEF ServerInv, PartsInv
<1>2. ASSUME Orderly' PROVE LatestInv'
  <2>1. LatestInv /\ \A s \in Procs \ {t} : pc[s] \notin Holding
    BY <1>2, OneHolder DEF ServerInv
  <2>2. \A s \in Servers : s \in Procs /\ Service[s] \in Services
    BY DEF Procs, Services
  <2>3. ASSUME NEW s \in Servers
        PROVE  /\ pc'[s] \in Making => latest'[Service[s]] = s
               /\ latest'[Service[s]] = s =>
                    /\ pc'[s] \in {"wipe", "recreate", "reinit", "served", "up"} => Found(Service[s])'
                    /\ pc'[s] \in {"init", "reinit", "index", "count", "register", "served", "up"} =>
                          file'[Service[s]] = seg'[s]
               /\ pc'[s] \in {"index", "count", "register", "served", "up"} => seg'[s] \in ready'
    <3>1. CASE s = t
      BY <1>2, <3>1
    <3>2. CASE s # t
      <4>1. pc'[s] = pc[s] /\ seg'[s] = seg[s] /\ pc[s] \notin Holding
        BY <2>1, <2>2, <3>2
      <4>2. pc'[s] \in Making \cup {"up"} => pc[s] = "up"
        BY <4>1 DEF Making, Holding
      <4>3. pc'[s] = "up" => seg[s] \in ready
        BY <2>1, <4>1 DEF LatestInv
      <4>4. ASSUME pc'[s] = "up", latest'[Service[s]] = s
            PROVE  Found(Service[s])' /\ file'[Service[s]] = seg'[s]
        <5>1. latest[Service[s]] = s /\ file'[Service[s]] = file[Service[s]]
          BY <1>2, <3>2, <4>4
        <5>2. Found(Service[s]) /\ file[Service[s]] = seg[s]
          BY <2>1, <4>1, <4>4, <5>1 DEF LatestInv
        <5> QED
          BY <1>2, <2>2, <4>1, <5>1, <5>2
      <4> QED
        BY <1>2, <4>1, <4>2, <4>3, <4>4 DEF Making
    <3> QED
      BY <3>1, <3>2
  <2> QED
    BY <2>3 DEF LatestInv
<1> QED
  BY <1>1, <1>2 DEF ServerInv

LEMMA ServerNext == TypeOK /\ BootInv /\ TableInv /\ ServerInv /\ [Next]_vars => ServerInv'
<1> SUFFICES ASSUME TypeOK, BootInv, TableInv, ServerInv, [Next]_vars PROVE ServerInv'
  OBVIOUS
<1>0. /\ Orderly' => Orderly
      /\ \A t \in Procs : Service[t] \in Services
      /\ \A t \in Servers : t \in Procs
      /\ \A t \in Servers : t \notin Clients
  BY StaysEarly, ManagerAssumption DEF Services, Procs
<1>1. ASSUME NEW t \in Procs,
             Construct(t) \/ Truncate(t) \/ InitMutex(t) \/ InitCounts(t) \/ Sigbus(t)
      PROVE  ServerInv'
  <2>1. UNCHANGED <<services, idx, file, ready, latest, seg>>
    BY <1>1 DEF Construct, Truncate, InitMutex, InitCounts, Sigbus, tables, files, locals
  <2>2. PICK l \in {"truncate", "node", "mutex", "counts", "dead"} : goto(t, l)
    BY <1>1 DEF Construct, Truncate, InitMutex, InitCounts, Sigbus
  <2>3. segment' # "initialised" => segment # "initialised"
    BY <1>1 DEF Construct, Truncate, InitMutex, InitCounts, Sigbus, BootInv, CreatorInv
  <2>4. Orderly' => UNCHANGED service_count
    <3>1. CASE InitCounts(t)
      <4>1. segment = "locked" /\ service_count' = 0
        BY <3>1 DEF InitCounts, BootInv, CreatorInv
      <4> QED
        BY <1>0, <4>1 DEF ServerInv, EntriesInv
    <3>2. CASE ~InitCounts(t)
      BY <1>1, <3>2 DEF Construct, Truncate, InitMutex, Sigbus, tables
    <3> QED
      BY <3>1, <3>2
  <2> QED
    BY <1>0, <2>1, <2>2, <2>3, <2>4, ServerKept DEF Making
<1>2. ASSUME NEW t \in Procs, Lock(t) PROVE ServerInv'
  <2>1. UNCHANGED <<segment, service_count, services, idx, file, ready, latest, seg>>
    BY <1>2 DEF Lock, tables, files, locals
  <2>2. goto(t, Wanting[pc[t]]) /\ Wanting[pc[t]] \in {"slot", "search", "deactivate"}
    BY <1>2, WantingTable DEF Lock
  <2> QED
    BY <1>0, <2>1, <2>2, ServerKept DEF Making
<1>3. ASSUME NEW t \in Procs, Unlock(t) PROVE ServerInv'
  <2>1. UNCHANGED <<segment, service_count, services, idx, file, ready, latest, seg>>
    BY <1>3 DEF Unlock, tables, files, locals
  <2>2. PICK l \in {"service", "up", "open", "leave", "ended"} :
           /\ goto(t, l)
           /\ l = "up" => pc[t] = "served"
           /\ l = "open" => pc[t] = "found"
    BY <1>3, ReleasedTable DEF Unlock
  <2>3. pc[t] = "found" => t \in Clients
    BY DEF ServerInv, PartsInv
  <2>4. l \notin Making \cup {"found"}
    BY <2>2 DEF Making
  <2> QED
    BY <1>0, <2>1, <2>2, <2>3, <2>4, ServerKept
<1>4. ASSUME NEW t \in Procs,
             \/ Crash(t) \/ Open(t) \/ OpenFails(t) \/ Close(t) \/ Interrupt(t)
             \/ Slot(t) \/ Activate(t) \/ NoNode(t) \/ Deactivate(t)
      PROVE  ServerInv'
  <2>1. UNCHANGED <<segment, service_count, services, idx, file, ready, latest>>
    BY <1>4 DEF Crash, Open, OpenFails, Close, Interrupt, Slot, Activate, NoNode, Deactivate, tables, files,
       locals
  <2>2. \A s \in Procs \ {t} : seg'[s] = seg[s]
    BY <1>4 DEF Crash, Open, OpenFails, Close, Interrupt, Slot, Activate, NoNode, Deactivate, tables, files,
       locals, TypeOK
  <2>3. PICK l \in {"dead", "leave", "service", "activate", "noded", "ended", "gone", "up"} :
           goto(t, l) /\ (l = "up" => t \in Clients)
    <3>1. CASE Open(t)
      BY <3>1 DEF Open, ServerInv, PartsInv
    <3>2. CASE ~Open(t)
      BY <1>4, <3>2 DEF Crash, OpenFails, Close, Interrupt, Slot, Activate, NoNode, Deactivate
    <3> QED
      BY <3>1, <3>2
  <2>4. l \notin Making \cup {"found"} /\ (l = "open" => t \in Clients)
    BY <2>3 DEF Making
  <2>5. /\ goto(t, l)
        /\ l = "up" => t \in Clients \/ (pc[t] = "served" /\ seg'[t] = seg[t])
    BY <2>3
  <2>6. /\ UNCHANGED <<services, idx, file, ready, latest>>
        /\ Orderly' => UNCHANGED service_count
        /\ segment' # "initialised" => segment # "initialised"
    BY <2>1
  <2>7. Orderly' => Orderly
    BY <1>0
  <2> QED
    BY <2>2, <2>4, <2>5, <2>6, <2>7, ServerKept
<1>5. ASSUME NEW t \in Procs, Search(t) PROVE ServerInv'
  <2>1. /\ pc[t] = "search" /\ pc[t] \in Holding
        /\ UNCHANGED <<segment, service_count, services, idx, file, ready, seg>>
        /\ latest' = IF t \in Servers THEN [latest EXCEPT ![Service[t]] = t] ELSE latest
    BY <1>5 DEF Search, tables, files, locals, Holding
  <2>2. PICK l \in {"wipe", "found", "absent", "create", "refused"} :
           /\ goto(t, l)
           /\ l = "wipe" => t \in Servers /\ MayFind(Service[t])
           /\ l = "found" => t \notin Servers
           /\ l = "create" => t \in Servers
    BY <1>5 DEF Search
  <2>3. pc'[t] = l /\ \A s \in Procs \ {t} : pc'[s] = pc[s]
    BY <2>2, Moves
  <2>4. \A n : Found(n)' <=> Found(n)
    BY <2>1 DEF Found
  <2>5. \A s \in Servers \ {t} : latest'[Service[s]] = s => latest[Service[s]] = s
    BY <1>0, <2>1 DEF TypeOK
  <2>6. t \in Servers => latest'[Service[t]] = t
    BY <1>0, <2>1 DEF TypeOK
  <2>7. Orderly' => EntriesInv'
    <3>1. \A s \in Procs : pc'[s] = "register" => pc[s] = "register"
      BY <2>2, <2>3
    <3> QED
      BY <1>0, <2>1, <3>1 DEF ServerInv, EntriesInv
  <2>8. t \notin Servers => t \in Clients
    BY DEF Procs
  <2>9. Orderly' /\ l = "wipe" => Found(Service[t])
    <3>1. Orderly' => ~(service_count > MAX_SERVICES)
      BY <1>0, ManagerAssumption DEF TableInv, CountInv, TypeOK
    <3> QED
      BY <2>2, <3>1 DEF MayFind
  <2> QED
    BY <1>0, <2>1, <2>2, <2>3, <2>4, <2>5, <2>6, <2>7, <2>8, <2>9, ServerMaking DEF Making
<1>6. ASSUME NEW t \in Procs, Wipe(t) \/ Reclaim(t) \/ Create(t) PROVE ServerInv'
  <2>1. /\ pc[t] \in {"wipe", "create", "recreate"} /\ pc[t] \in Holding
        /\ UNCHANGED <<segment, service_count, services, idx, ready, latest>>
    BY <1>6 DEF Wipe, Reclaim, Create, tables, files, locals, Holding
  <2>2. t \in Servers
    BY <2>1 DEF ServerInv, PartsInv, Making
  <2>3. /\ \A n \in Services \ {Service[t]} : file'[n] = file[n]
        /\ \A s \in Procs \ {t} : seg'[s] = seg[s]
    BY <1>6 DEF Wipe, Reclaim, Create, TypeOK, locals
  <2>4. /\ pc'[t] \in {"recreate", "create", "init", "reinit", "refused"}
        /\ pc'[t] \in {"recreate", "reinit"} => pc[t] \in {"wipe", "recreate"}
        /\ pc'[t] \in {"init", "reinit"} => file'[Service[t]] = seg'[t]
        /\ \A s \in Procs \ {t} : pc'[s] = pc[s]
    <3>1. CASE Wipe(t) \/ Reclaim(t)
      BY <3>1, Moves DEF Wipe, Reclaim, TypeOK
    <3>2. CASE Create(t)!2!1 /\ Create(t)
      <4>1. file'[Service[t]] = made' /\ seg'[t] = made'
        BY <1>0, <3>2 DEF TypeOK
      <4>2. pc' = [pc EXCEPT ![t] = IF pc[t] = "create" THEN "init" ELSE "reinit"]
        BY <3>2 DEF goto
      <4> QED
        BY <2>1, <3>2, <4>1, <4>2 DEF TypeOK, Create
    <3>3. CASE Create(t)!2!2
      BY <3>3, Moves DEF TypeOK
    <3> QED
      BY <1>6, <3>1, <3>2, <3>3 DEF Create
  <2>5. \A n : Found(n)' <=> Found(n)
    BY <2>1 DEF Found
  <2>6. ASSUME Orderly' PROVE LatestInv /\ EntriesInv /\ latest[Service[t]] = t
    BY <1>0, <2>1, <2>2, <2>6 DEF ServerInv, LatestInv, Making
  <2>7. ASSUME Orderly', NEW s \in Servers \ {t}, latest'[Service[s]] = s
        PROVE  latest[Service[s]] = s /\ file'[Service[s]] = file[Service[s]]
    BY <1>0, <2>1, <2>3, <2>6, <2>7
  <2>8. Orderly' => EntriesInv'
    <3>1. \A s \in Procs : pc'[s] = "register" => pc[s] = "register"
      BY <2>4
    <3> QED
      BY <2>1, <2>6, <3>1 DEF EntriesInv
  <2>9. Orderly' /\ pc'[t] \in {"recreate", "reinit"} => Found(Service[t])
    BY <2>2, <2>4, <2>6 DEF LatestInv
  <2> QED
    BY <1>0, <2>1, <2>2, <2>3, <2>4, <2>5, <2>6, <2>7, <2>8, <2>9, ServerMaking DEF Making
<1>7. ASSUME NEW t \in Procs, InitSegment(t) PROVE ServerInv'
  <2>1. /\ pc[t] \in {"init", "reinit"} /\ pc[t] \in Holding
        /\ UNCHANGED <<segment, service_count, services, idx, file, latest>>
    BY <1>7 DEF InitSegment, tables, files, locals, Holding
  <2>2. t \in Servers
    BY <2>1 DEF ServerInv, PartsInv, Making
  <2>3. /\ pc'[t] \in {"index", "served", "refused"} /\ \A s \in Procs \ {t} : pc'[s] = pc[s]
        /\ \A s \in Procs \ {t} : seg'[s] = seg[s]
        /\ ready \subseteq ready'
        /\ pc'[t] \in {"index", "served"} => seg'[t] = seg[t] /\ seg[t] \in ready'
        /\ pc'[t] = "served" => pc[t] = "reinit"
    BY <1>7, Moves DEF InitSegment, TypeOK
  <2>4. \A n : Found(n)' <=> Found(n)
    BY <2>1 DEF Found
  <2>5. ASSUME Orderly' PROVE LatestInv /\ EntriesInv /\ latest[Service[t]] = t
    BY <1>0, <2>1, <2>2, <2>5 DEF ServerInv, LatestInv, Making
  <2>6. Orderly' => EntriesInv'
    <3>1. \A s \in Procs : pc'[s] = "register" => pc[s] = "register"
      BY <2>3
    <3> QED
      BY <2>1, <2>5, <3>1 DEF EntriesInv
  <2>7. ASSUME Orderly'
        PROVE  file[Service[t]] = seg[t] /\ (pc'[t] = "served" => Found(Service[t]))
    BY <2>1, <2>2, <2>3, <2>5, <2>7 DEF LatestInv
  <2> QED
    BY <1>0, <2>1, <2>2, <2>3, <2>4, <2>5, <2>6, <2>7, ServerMaking DEF Making
<1>8. ASSUME NEW t \in Procs, Index(t) \/ Count(t) \/ Register(t) PROVE ServerInv'
  <2>1. /\ pc[t] \in {"index", "count", "register"} /\ pc[t] \in Holding
        /\ UNCHANGED <<segment, file, ready, latest, seg>>
    BY <1>8 DEF Index, Count, Register, files, tables, locals, Holding
  <2>2. t \in Servers
    BY <2>1 DEF ServerInv, PartsInv, Making
  <2>3. /\ pc'[t] \in {"count", "register", "served"} /\ \A s \in Procs \ {t} : pc'[s] = pc[s]
        /\ Index(t) => pc'[t] = "count"
        /\ Count(t) => pc[t] = "count" /\ pc'[t] = "register"
        /\ Register(t) => pc'[t] = "served"
    BY <1>8, Moves DEF Index, Count, Register
  <2>4. ASSUME Orderly'
        PROVE  /\ LatestInv /\ EntriesInv /\ latest[Service[t]] = t
               /\ file[Service[t]] = seg[t] /\ seg[t] \in ready
               /\ segment = "initialised" /\ CountInv /\ \A s \in Procs \ {t} : pc[s] # "register"
    <3>1. \A s \in Procs \ {t} : pc[s] # "register"
      BY <1>0, <2>1, <2>4, OneHolder DEF Holding
    <3>2. segment = "initialised"
      BY <1>0, <2>1, <2>4 DEF BootInv, OwnerInv, Orderly
    <3>3. LatestInv /\ EntriesInv /\ CountInv
      BY <1>0, <2>4 DEF ServerInv, TableInv
    <3>4. latest[Service[t]] = t
      BY <2>1, <2>2, <3>3 DEF LatestInv, Making
    <3> QED
      BY <2>1, <2>2, <3>1, <3>2, <3>3, <3>4 DEF LatestInv
  <2>5. ASSUME Orderly'
        PROVE  /\ EntriesInv' /\ \A n \in Services : Found(n) => Found(n)'
               /\ pc'[t] = "served" => Found(Service[t])'
    <3>1. CASE Index(t)
      <4>1. service_count' = service_count /\ services' = services
        BY <3>1 DEF Index, tables
      <4>2. \A s \in Procs : pc'[s] # "register"
        BY <2>3, <2>4, <2>5, <3>1
      <4>3. EntriesInv' /\ \A n : Found(n) => Found(n)'
        BY <2>1, <2>4, <2>5, <4>1, <4>2 DEF EntriesInv, Found
      <4> QED
        BY <2>3, <3>1, <4>3
    <3>2. CASE Count(t)
      <4>1. /\ service_count' = service_count + 1 /\ services' = services
            /\ idx'[t] = service_count /\ service_count \in Nat /\ service_count \in ServiceSlots
        BY <2>3, <2>4, <2>5, <3>2, ManagerAssumption
        DEF Count, TypeOK, ServiceSlots, CountInv, locals
      <4>2. ~services[service_count].active
        BY <2>4, <2>5, <4>1 DEF EntriesInv
      <4>3. \A i \in ServiceSlots : i \in Int /\ (i < service_count => i < service_count')
        BY <4>1 DEF ServiceSlots
      <4>4. \A s \in Procs : pc'[s] = "register" => s = t
        BY <2>3, <2>4, <2>5
      <4>5. service_count < service_count'
        BY <4>1
      <4>6. EntriesInv'
        BY <2>1, <2>4, <2>5, <4>1, <4>2, <4>3, <4>4, <4>5 DEF EntriesInv
      <4>7. \A n : Found(n) => Found(n)'
        BY <4>1, <4>3 DEF Found
      <4> QED
        BY <2>3, <3>2, <4>6, <4>7
    <3>3. CASE Register(t)
      <4> DEFINE new == [name |-> Service[t], active |-> TRUE]
                 k == idx[t]
      <4>1. /\ service_count' = service_count /\ k \in ServiceSlots
            /\ k < service_count /\ ~services[k].active /\ k < MAX_SERVICES
        BY <2>4, <2>5, <3>3, ManagerAssumption
        DEF Register, TypeOK, EntriesInv, CountInv, ServiceSlots
      <4>2. /\ services'[k] = new /\ \A i \in ServiceSlots \ {k} : services'[i] = services[i]
        <5>1. k \in Nat /\ ~(k >= MAX_SERVICES)
          BY <4>1, ManagerAssumption DEF ServiceSlots
        <5>2. services' = [services EXCEPT ![k] = new]
          BY <3>3, <5>1 DEF Register
        <5> QED
          BY <4>1, <5>2 DEF TypeOK
      <4>3. \A s \in Procs : pc'[s] # "register"
        BY <2>3, <2>4, <2>5, <3>3
      <4>4. EntriesInv'
        BY <2>1, <2>4, <2>5, <4>1, <4>2, <4>3 DEF EntriesInv
      <4>5. Found(Service[t])'
        BY <4>1, <4>2 DEF Found
      <4>6. ASSUME NEW n \in Services, Found(n) PROVE Found(n)'
        <5>1. PICK i \in ServiceSlots : i < service_count /\ services[i] = [name |-> n, active |-> TRUE]
          BY <4>6 DEF Found
        <5>2. i # k
          BY <4>1, <5>1
        <5> QED
          BY <4>1, <4>2, <5>1, <5>2 DEF Found
      <4> QED
        BY <4>4, <4>5, <4>6
    <3> QED
      BY <1>8, <3>1, <3>2, <3>3
  <2> QED
    BY <1>0, <2>1, <2>2, <2>3, <2>4, <2>5, ServerMaking DEF Making
<1>9. CASE UNCHANGED vars
  BY <1>9 DEF vars, tables, files, locals, ServerInv, PartsInv, EntriesInv, LatestInv, Found, Orderly
<1> QED
  BY <1>1, <1>2, <1>3, <1>4, <1>5, <1>6, <1>7, <1>8, <1>9, NextCases

\* The server that started last is the one clients find: its name stays
\* registered and leads to the segment it made and initialised, whatever its
\* predecessors and other services did before and do after it.
THEOREM ManagerLastServerFound == Spec => []LastServerFound
<1>1. TypeInv /\ BootInv /\ TableInv /\ ServerInv /\ [Next]_vars => ServerInv'
  BY ServerNext DEF TypeInv
<1>2. ServerInv => LastServerFound
  BY DEF ServerInv, LatestInv, LastServerFound
<1> QED
  BY <1>1, <1>2, ServerInit, TableInvariant, PTL DEF Spec
=============================================================================
