------------------------ MODULE TopicRegistryProofs ------------------------
(***************************************************************************)
(* The registry of topics, for any number of processes that come, go and   *)
(* are killed anywhere: its mutex survives; and where names fit an entry   *)
(* and no two share a file, each topic is registered once and all who have *)
(* it open share one initialised segment.                                  *)
(***************************************************************************)
EXTENDS TopicRegistry, TLAPS

\* Names of less than 64 bytes are stored as they are.
NamesFit == \A n \in Names : Stored[n] = n
\* No two names differ only in '/' and '_'.
FilesDiffer == \A m, n \in Names : FileOf[m] = FileOf[n] => m = n

Working == {"search", "create", "init", "count", "name", "activate"}
Making == {"create", "init", "count", "name", "activate"}

\* The bound on the table: whoever makes a topic has found room for it, and
\* has taken an entry when it writes one.
RoomInv ==
  \A t \in Procs :
     /\ pc[t] \in {"create", "init", "count"} => topic_count < MAX_TOPICS
     /\ pc[t] \in {"name", "activate"} => 0 < topic_count
     /\ pc[t] = "init" => 0 < made

\* lockRobust repairs, and no condition is waited for, so whoever has the
\* mutex has it in order.
OwnedConsistent == mutex.owner # NoOne => mutex.state = "consistent"

LockedTypeOK == TypeOK /\ LockInv /\ RoomInv /\ OwnedConsistent

LEMMA LockedTypeInit == Init => LockedTypeOK
BY RegistryAssumption
DEF Init, LockedTypeOK, TypeOK, LockInv, RoomInv, OwnedConsistent, initRobustMutex, Recoverable, Mutexes,
    MutexStates, Slots, Entry, Files, StoredNames, Holding, PCs

\* One thread at a time works on the table.
LEMMA OneHolder ==
  ASSUME LockInv, NEW s \in Procs, NEW t \in Procs, pc[s] \in Holding, pc[t] \in Holding
  PROVE  s = t
BY DEF LockInv

LEMMA LockedTypeNext == LockedTypeOK /\ [Next]_vars => LockedTypeOK'
<1> SUFFICES ASSUME LockedTypeOK, [Next]_vars PROVE LockedTypeOK'
  OBVIOUS
<1> USE RegistryAssumption DEF LockedTypeOK, RoomInv, LockInv, OwnedConsistent, goto, shm
<1>1. ASSUME NEW t \in Procs, NEW n \in Names, createOrGetTopic(t, n) PROVE LockedTypeOK'
  BY <1>1 DEF createOrGetTopic, TypeOK, PCs, Holding
<1>2. ASSUME NEW t \in Procs, Lock(t) PROVE LockedTypeOK'
  <2>1. mutex' = [owner |-> t, state |-> "consistent"]
    BY <1>2 DEF Lock, lockRobust
  <2>2. TypeOK'
    BY <1>2, <2>1 DEF Lock, TypeOK, PCs, Holding, Mutexes, MutexStates
  <2>3. LockInv'
    BY <1>2, <2>1 DEF Lock, TypeOK, Holding, Recoverable
  <2> QED
    BY <1>2, <2>1, <2>2, <2>3 DEF Lock, TypeOK
<1>3. ASSUME NEW t \in Procs, Search(t) PROVE LockedTypeOK'
  BY <1>3 DEF Search, TypeOK, PCs, Holding
<1>4. ASSUME NEW t \in Procs, Reclaim(t) PROVE LockedTypeOK'
  BY <1>4 DEF Reclaim, TypeOK
<1>5. ASSUME NEW t \in Procs, Create(t) PROVE LockedTypeOK'
  <2>1. made' \in Segments /\ FileOf[name[t]] \in Files
    BY <1>5 DEF Create, TypeOK, Segments, Files
  <2> QED
    BY <1>5, <2>1 DEF Create, TypeOK, PCs, Holding, Segments
<1>6. ASSUME NEW t \in Procs, InitSegment(t) PROVE LockedTypeOK'
  <2>1. made \in Segments
    BY <1>6 DEF InitSegment, TypeOK, Segments
  <2> QED
    <3>1. ready' \subseteq Segments /\ seg' \in [Procs -> Segments \cup {0}]
      BY <1>6, <2>1 DEF InitSegment, TypeOK
    <3>2. /\ pc' = [pc EXCEPT ![t] = pc'[t]] /\ pc'[t] \in {"count", "refused"}
          /\ pc[t] = "init"
      BY <1>6 DEF InitSegment, TypeOK
    <3>3. UNCHANGED <<mutex, topic_count, topics, file, made, name>>
      BY <1>6 DEF InitSegment
    <3> QED
      BY <3>1, <3>2, <3>3 DEF TypeOK, PCs, Holding
<1>7. ASSUME NEW t \in Procs, Count(t) PROVE LockedTypeOK'
  <2>1. topic_count < MAX_TOPICS /\ topic_count \in Nat /\ pc[t] \in Holding
    BY <1>7 DEF Count, TypeOK, Holding
  <2>2. TypeOK' /\ LockInv'
    BY <1>7, <2>1 DEF Count, TypeOK, PCs, Holding
  <2>3. \A s \in Procs \ {t} : pc'[s] = pc[s] /\ pc[s] \notin Holding
    BY <1>7, <2>1, OneHolder DEF Count, TypeOK
  <2>4. pc'[t] = "name"
    BY <1>7 DEF Count, TypeOK
  <2> QED
    BY <1>7, <2>1, <2>2, <2>3, <2>4 DEF Count, Holding
<1>8. ASSUME NEW t \in Procs, Name(t) \/ Activate(t) PROVE LockedTypeOK'
  <2>1. topic_count - 1 \in Slots /\ Stored[name[t]] \in StoredNames
    BY <1>8 DEF Name, Activate, TypeOK, Slots, StoredNames
  <2>2. topics' \in [Slots -> Entry]
    <3>1. \A e \in Entry : /\ [e EXCEPT !.name = Stored[name[t]]] \in Entry
                             /\ [e EXCEPT !.active = TRUE] \in Entry
      BY <2>1 DEF Entry
    <3>2. topics[topic_count - 1] \in Entry
      BY <2>1 DEF TypeOK
    <3>3. CASE Name(t)
      BY <2>1, <3>1, <3>2, <3>3 DEF Name, TypeOK
    <3>4. CASE Activate(t)
      BY <2>1, <3>1, <3>2, <3>4 DEF Activate, TypeOK
    <3> QED
      BY <1>8, <3>3, <3>4
  <2> QED
    BY <1>8, <2>2 DEF Name, Activate, TypeOK, PCs, Holding
<1>9. ASSUME NEW t \in Procs, Unlock(t) PROVE LockedTypeOK'
  <2>1. pc[t] \in {"found", "absent", "refused", "registered"} /\ Released[pc[t]] \in PCs \ Holding
    BY <1>9 DEF Unlock, Released, PCs, Holding
  <2>2. mutex.owner = t
    BY <2>1 DEF Holding
  <2>3. mutex' \in Mutexes(Procs) /\ mutex'.owner = NoOne
    BY <1>9, <2>2 DEF Unlock, UnlockedBy, TypeOK, Mutexes, MutexStates
  <2> QED
    <3>1. pc' = [pc EXCEPT ![t] = pc'[t]] /\ pc'[t] \in PCs \ Holding
      BY <1>9, <2>1 DEF Unlock, TypeOK
    <3>2. UNCHANGED <<topic_count, topics, file, ready, made, name, seg>>
      BY <1>9 DEF Unlock
    <3>3. mutex.state = "consistent"
      BY <2>2
    <3> QED
      BY <2>2, <2>3, <3>1, <3>2, <3>3, <1>9 DEF Unlock, UnlockedBy, TypeOK, Holding, Recoverable
<1>10. ASSUME NEW t \in Procs, Open(t) \/ OpenFails(t) PROVE LockedTypeOK'
  <2>1. FileOf[name[t]] \in Files
    BY DEF TypeOK, Files
  <2> QED
    BY <1>10, <2>1 DEF Open, OpenFails, TypeOK, PCs, Holding
<1>11. ASSUME NEW t \in Procs, Close(t) PROVE LockedTypeOK'
  BY <1>11 DEF Close, TypeOK, PCs, Holding
<1>12. ASSUME NEW t \in Procs, Crash(t) PROVE LockedTypeOK'
  BY <1>12 DEF Crash, AfterDeathOf, Recoverable, TypeOK, PCs, Holding, Mutexes, MutexStates
<1>13. ASSUME NEW t \in Procs, CreateFails(t) PROVE LockedTypeOK'
  BY <1>13 DEF CreateFails, TypeOK, PCs, Holding
<1>14. CASE UNCHANGED vars
  BY <1>14 DEF vars, TypeOK
<1> QED
  BY <1>1, <1>2, <1>3, <1>4, <1>5, <1>6, <1>7, <1>8, <1>9, <1>10, <1>11, <1>12, <1>13, <1>14
  DEF Next, Step

\* The registry keeps its types.
THEOREM RegistryTypeCorrect == Spec => []TypeOK
BY LockedTypeInit, LockedTypeNext, PTL DEF Spec, LockedTypeOK

\* The manager's mutex belongs to whoever works on the tables, and can always
\* be locked again, wherever processes are killed.
THEOREM RegistryLockDiscipline == Spec => []LockInv
BY LockedTypeInit, LockedTypeNext, PTL DEF Spec, LockedTypeOK

-----------------------------------------------------------------------------
(* The table and the files.  An active entry never changes again, and its   *)
(* file is that of an initialised segment, which nobody unlinks: to do so   *)
(* takes a process that found no active entry for a name of this file.      *)

IsActive(n) == \E i \in Slots : topics[i].active /\ topics[i].name = n

TableInv ==
  \A i \in Slots :
     topics[i].active => /\ i < topic_count
                         /\ topics[i].name \in Names
                         /\ file[FileOf[topics[i].name]] \in ready

MakingInv ==
  \A t \in Procs :
     /\ pc[t] \in Making => ~IsActive(name[t])
     /\ pc[t] \in {"name", "activate"} => ~topics[topic_count - 1].active
     /\ pc[t] = "activate" => topics[topic_count - 1].name = name[t]
     /\ pc[t] = "init" => file[FileOf[name[t]]] = made
     /\ pc[t] \in {"count", "name", "activate"} =>
           seg[t] = file[FileOf[name[t]]] /\ seg[t] \in ready

UsingInv ==
  \A t \in Procs :
     /\ pc[t] \in {"found", "open", "registered", "attached"} => IsActive(name[t])
     /\ pc[t] \in {"registered", "attached"} => seg[t] = file[FileOf[name[t]]]

RegInv == LockedTypeOK /\ RegisteredOnce /\ TableInv /\ MakingInv /\ UsingInv

LEMMA RegInvInit == Init => RegInv
BY LockedTypeInit, RegistryAssumption
DEF Init, RegInv, RegisteredOnce, TableInv, MakingInv, UsingInv, IsActive, Making

\* What a search finds, and what it misses.
LEMMA FoundIsActive ==
  ASSUME RegInv, NEW n \in Names
  PROVE  Found(n) <=> IsActive(n)
<1>1. \A i \in Slots : topics[i] \in Entry
  BY DEF RegInv, LockedTypeOK, TypeOK
<1>2. \A e \in Entry : e = [name |-> n, active |-> TRUE] <=> e.active /\ e.name = n
  BY DEF Entry
<1> QED
  BY <1>1, <1>2 DEF RegInv, TableInv, Found, IsActive

\* A step of a process that leaves table and files alone.
LEMMA RegInvControl ==
  ASSUME RegInv, LockedTypeOK', NEW t \in Procs,
         UNCHANGED <<topic_count, topics, file, ready, made>>,
         \A s \in Procs \ {t} : pc'[s] = pc[s] /\ name'[s] = name[s] /\ seg'[s] = seg[s],
         pc'[t] \in Making => pc'[t] = "create" /\ ~IsActive(name'[t]),
         pc'[t] \in {"found", "open", "registered", "attached"} => IsActive(name'[t]),
         pc'[t] \in {"registered", "attached"} => seg'[t] = file[FileOf[name'[t]]]
  PROVE  RegInv'
<1>1. RegisteredOnce' /\ TableInv'
  BY DEF RegInv, RegisteredOnce, TableInv
<1>2. \A n : IsActive(n)' <=> IsActive(n)
  BY DEF IsActive
<1>3. MakingInv'
  <2> SUFFICES ASSUME NEW s \in Procs
               PROVE  /\ pc'[s] \in Making => ~IsActive(name[s])'
                      /\ pc'[s] \in {"name", "activate"} => ~topics'[topic_count' - 1].active
                      /\ pc'[s] = "activate" => topics'[topic_count' - 1].name = name'[s]
                      /\ pc'[s] = "init" => file'[FileOf[name'[s]]] = made'
                      /\ pc'[s] \in {"count", "name", "activate"} =>
                            seg'[s] = file'[FileOf[name'[s]]] /\ seg'[s] \in ready'
    BY DEF MakingInv
  <2>1. CASE s = t
    BY <2>1, <1>2 DEF Making, IsActive
  <2>2. CASE s # t
    BY <2>2, <1>2 DEF RegInv, MakingInv, IsActive
  <2> QED
    BY <2>1, <2>2
<1>4. UsingInv'
  <2> SUFFICES ASSUME NEW s \in Procs
               PROVE  /\ pc'[s] \in {"found", "open", "registered", "attached"} => IsActive(name[s])'
                      /\ pc'[s] \in {"registered", "attached"} => seg'[s] = file'[FileOf[name'[s]]]
    BY DEF UsingInv
  <2>1. CASE s = t
    BY <2>1 DEF IsActive
  <2>2. CASE s # t
    BY <2>2 DEF RegInv, UsingInv, IsActive
  <2> QED
    BY <2>1, <2>2
<1> QED
  BY <1>1, <1>3, <1>4 DEF RegInv

\* A step of the process that is making a topic.
LEMMA RegInvMaking ==
  ASSUME RegInv, LockedTypeOK', NEW t \in Procs, pc[t] \in Making,
         name' = name,
         \A s \in Procs \ {t} : pc'[s] = pc[s] /\ seg'[s] = seg[s],
         RegisteredOnce', TableInv',
         \A n \in Names : IsActive(n) =>
            IsActive(n)' /\ file'[FileOf[n]] = file[FileOf[n]],
         pc'[t] \in Making => ~IsActive(name[t])',
         pc'[t] \in {"name", "activate"} => ~topics'[topic_count' - 1].active,
         pc'[t] = "activate" => topics'[topic_count' - 1].name = name[t],
         pc'[t] = "init" => file'[FileOf[name[t]]] = made',
         pc'[t] \in {"count", "name", "activate", "registered"} =>
            seg'[t] = file'[FileOf[name[t]]] /\ seg'[t] \in ready',
         pc'[t] = "registered" => IsActive(name[t])',
         pc'[t] \notin {"found", "open", "attached"}
  PROVE  RegInv'
<1>1. ASSUME NEW s \in Procs, s # t PROVE pc[s] \notin Holding
  BY <1>1, OneHolder DEF RegInv, LockedTypeOK, Making, Holding
<1>2. \A s \in Procs : name[s] \in Names
  BY DEF RegInv, LockedTypeOK, TypeOK
<1>3. MakingInv'
  <2> SUFFICES ASSUME NEW s \in Procs
               PROVE  /\ pc'[s] \in Making => ~IsActive(name[s])'
                      /\ pc'[s] \in {"name", "activate"} => ~topics'[topic_count' - 1].active
                      /\ pc'[s] = "activate" => topics'[topic_count' - 1].name = name'[s]
                      /\ pc'[s] = "init" => file'[FileOf[name'[s]]] = made'
                      /\ pc'[s] \in {"count", "name", "activate"} =>
                            seg'[s] = file'[FileOf[name'[s]]] /\ seg'[s] \in ready'
    BY DEF MakingInv
  <2>1. CASE s = t
    BY <2>1
  <2>2. CASE s # t
    BY <2>2, <1>1 DEF Making, Holding
  <2> QED
    BY <2>1, <2>2
<1>4. UsingInv'
  <2> SUFFICES ASSUME NEW s \in Procs
               PROVE  /\ pc'[s] \in {"found", "open", "registered", "attached"} => IsActive(name[s])'
                      /\ pc'[s] \in {"registered", "attached"} => seg'[s] = file'[FileOf[name'[s]]]
    BY DEF UsingInv
  <2>1. CASE s = t
    BY <2>1
  <2>2. CASE s # t
    BY <2>2, <1>2 DEF RegInv, UsingInv
  <2> QED
    BY <2>1, <2>2
<1> QED
  BY <1>3, <1>4 DEF RegInv

LEMMA RegInvNext ==
  ASSUME NamesFit, FilesDiffer, RegInv, LockedTypeOK', [Next]_vars
  PROVE  RegInv'
<1> USE DEF goto, shm
<1>0. /\ \A n \in Names : FileOf[n] \in Files
      /\ pc \in [Procs -> PCs] /\ name \in [Procs -> Names] /\ file \in [Files -> Segments \cup {0}]
      /\ seg \in [Procs -> Segments \cup {0}]
      /\ topics \in [Slots -> Entry] /\ topic_count \in 0..MAX_TOPICS /\ MAX_TOPICS \in Nat
      /\ \A i \in Slots : i \in Nat
      /\ ready \subseteq Segments
  BY RegistryAssumption DEF Files, RegInv, LockedTypeOK, TypeOK, Slots
<1>1. ASSUME NEW t \in Procs, NEW n \in Names, createOrGetTopic(t, n) PROVE RegInv'
  BY <1>0, <1>1, RegInvControl DEF createOrGetTopic, Making
<1>2. ASSUME NEW t \in Procs, Lock(t) PROVE RegInv'
  BY <1>0, <1>2, RegInvControl DEF Lock, Making
<1>3. ASSUME NEW t \in Procs, Search(t) PROVE RegInv'
  <2>1. Found(name[t]) <=> IsActive(name[t])
    BY <1>0, FoundIsActive
  <2> QED
    BY <1>0, <1>3, <2>1, RegInvControl DEF Search, Making
<1>4. ASSUME NEW t \in Procs, Unlock(t) PROVE RegInv'
  <2>1. pc[t] \in {"found", "absent", "refused", "registered"}
    BY <1>4 DEF Unlock, Released
  <2>2. pc'[t] = Released[pc[t]]
    BY <1>0, <1>4 DEF Unlock
  <2>3. pc'[t] \notin Making /\ pc'[t] \notin {"found", "registered"}
    BY <2>1, <2>2 DEF Released, Making
  <2>4. /\ pc'[t] = "open" => pc[t] = "found"
        /\ pc'[t] = "attached" => pc[t] = "registered"
    BY <2>1, <2>2 DEF Released
  <2> QED
    BY <1>0, <1>4, <2>3, <2>4, RegInvControl DEF Unlock, RegInv, UsingInv
<1>5. ASSUME NEW t \in Procs, Open(t) \/ OpenFails(t) PROVE RegInv'
  <2>1. IsActive(name[t])
    BY <1>5 DEF Open, OpenFails, RegInv, UsingInv
  <2> QED
    BY <1>0, <1>5, <2>1, RegInvControl DEF Open, OpenFails, Making
<1>6. ASSUME NEW t \in Procs, Close(t) \/ Crash(t) PROVE RegInv'
  BY <1>0, <1>6, RegInvControl DEF Close, Crash, Making
<1>7. ASSUME NEW t \in Procs, NEW v, pc[t] = "create",
             file' = [file EXCEPT ![FileOf[name[t]]] = v],
             UNCHANGED <<topic_count, topics, ready, name, seg>>
      PROVE  /\ RegisteredOnce' /\ TableInv'
             /\ \A n \in Names : IsActive(n) =>
                   IsActive(n)' /\ file'[FileOf[n]] = file[FileOf[n]]
             /\ ~IsActive(name[t])'
             /\ file'[FileOf[name[t]]] = v
  <2>1. ~IsActive(name[t])
    BY <1>7 DEF RegInv, MakingInv, Making
  <2>2. ASSUME NEW n \in Names, n # name[t] PROVE file'[FileOf[n]] = file[FileOf[n]]
    BY <1>0, <1>7, <2>2 DEF FilesDiffer
  <2>3. \A n : IsActive(n)' <=> IsActive(n)
    BY <1>7 DEF IsActive
  <2>4. TableInv'
    BY <1>7, <2>1, <2>2 DEF RegInv, TableInv, IsActive
  <2> QED
    BY <1>0, <1>7, <2>1, <2>2, <2>3, <2>4 DEF RegInv, RegisteredOnce
<1>8. ASSUME NEW t \in Procs, Reclaim(t) PROVE RegInv'
  <2>1. /\ pc[t] = "create" /\ pc' = pc /\ name' = name /\ seg' = seg
        /\ file' = [file EXCEPT ![FileOf[name[t]]] = 0]
        /\ UNCHANGED <<topic_count, topics, ready, name, seg>>
    BY <1>8 DEF Reclaim
  <2> QED
    BY <1>7, <2>1, RegInvMaking DEF Making
<1>9. ASSUME NEW t \in Procs, Create(t) PROVE RegInv'
  <2>1. /\ pc[t] = "create" /\ pc' = [pc EXCEPT ![t] = "init"]
        /\ file' = [file EXCEPT ![FileOf[name[t]]] = made']
        /\ UNCHANGED <<topic_count, topics, ready, name, seg>>
    BY <1>9 DEF Create
  <2>2. PICK v : v = made'
    OBVIOUS
  <2>3. /\ RegisteredOnce' /\ TableInv'
        /\ \A n \in Names : IsActive(n) =>
              IsActive(n)' /\ file'[FileOf[n]] = file[FileOf[n]]
        /\ ~IsActive(name[t])'
        /\ file'[FileOf[name[t]]] = made'
    BY <1>7, <2>1, <2>2
  <2>4. pc'[t] = "init" /\ \A s \in Procs \ {t} : pc'[s] = pc[s]
    BY <1>0, <2>1
  <2> QED
    BY <2>1, <2>3, <2>4, RegInvMaking DEF Making
<1>10. ASSUME NEW t \in Procs, InitSegment(t) PROVE RegInv'
  <2>1. CASE pc' = [pc EXCEPT ![t] = "refused"] /\ UNCHANGED <<ready, seg>>
    BY <1>0, <1>10, <2>1, RegInvControl DEF InitSegment, Making
  <2>2. CASE /\ ready' = ready \cup {made} /\ seg' = [seg EXCEPT ![t] = made]
             /\ pc' = [pc EXCEPT ![t] = "count"]
    <3>1. /\ pc[t] = "init" /\ UNCHANGED <<topic_count, topics, file, made, name>>
      BY <1>10 DEF InitSegment
    <3>2. file[FileOf[name[t]]] = made /\ ~IsActive(name[t])
      BY <3>1 DEF RegInv, MakingInv, Making
    <3>3. RegisteredOnce' /\ TableInv'
      BY <2>2, <3>1 DEF RegInv, RegisteredOnce, TableInv
    <3>4. \A n : IsActive(n)' <=> IsActive(n)
      BY <3>1 DEF IsActive
    <3> QED
      BY <1>0, <2>2, <3>1, <3>2, <3>3, <3>4, RegInvMaking DEF Making
  <2> QED
    BY <1>10, <2>1, <2>2 DEF InitSegment
<1>11. ASSUME NEW t \in Procs, Count(t) PROVE RegInv'
  <2>1. /\ pc[t] = "count" /\ pc' = [pc EXCEPT ![t] = "name"] /\ topic_count' = topic_count + 1
        /\ UNCHANGED <<topics, file, ready, made, name, seg>>
    BY <1>11 DEF Count
  <2>2. /\ ~IsActive(name[t]) /\ seg[t] = file[FileOf[name[t]]] /\ seg[t] \in ready
        /\ topic_count \in Slots
    BY <1>0, <2>1 DEF RegInv, MakingInv, Making, LockedTypeOK, RoomInv, Slots
  <2>3. ~topics[topic_count].active
    BY <1>0, <2>2 DEF RegInv, TableInv
  <2>4. RegisteredOnce' /\ TableInv'
    BY <1>0, <2>1 DEF RegInv, RegisteredOnce, TableInv
  <2>5. \A n : IsActive(n)' <=> IsActive(n)
    BY <2>1 DEF IsActive
  <2>6. topic_count' - 1 = topic_count
    BY <1>0, <2>1
  <2> QED
    BY <1>0, <2>1, <2>2, <2>3, <2>4, <2>5, <2>6, RegInvMaking DEF Making
<1>12. ASSUME NEW t \in Procs, pc[t] \in {"name", "activate"}
       PROVE  /\ topic_count - 1 \in Slots /\ topics[topic_count - 1] \in Entry
              /\ ~topics[topic_count - 1].active /\ ~IsActive(name[t])
              /\ seg[t] = file[FileOf[name[t]]] /\ seg[t] \in ready
              /\ topic_count - 1 < topic_count
  <2>1. topic_count - 1 \in Slots
    BY <1>0, <1>12 DEF RegInv, LockedTypeOK, RoomInv, Slots
  <2> QED
    BY <1>0, <1>12, <2>1 DEF RegInv, MakingInv, Making
<1>13. ASSUME NEW t \in Procs, Name(t) PROVE RegInv'
  <2> DEFINE k == topic_count - 1
  <2>1. /\ pc[t] = "name" /\ pc' = [pc EXCEPT ![t] = "activate"]
        /\ topics' = [topics EXCEPT ![k] = [topics[k] EXCEPT !.name = name[t]]]
        /\ UNCHANGED <<topic_count, file, ready, made, name, seg>>
    BY <1>0, <1>13 DEF Name, NamesFit
  <2>2. k \in Slots /\ topics[k] \in Entry /\ ~topics[k].active
    BY <1>12, <2>1
  <2> HIDE DEF k
  <2>3. /\ \A i \in Slots \ {k} : topics'[i] = topics[i]
        /\ topics'[k].name = name[t] /\ topics'[k].active = topics[k].active
    BY <1>0, <2>1, <2>2 DEF Entry
  <2>4. RegisteredOnce' /\ TableInv'
    BY <2>1, <2>2, <2>3 DEF RegInv, RegisteredOnce, TableInv
  <2>5. \A n : IsActive(n)' <=> IsActive(n)
    BY <2>2, <2>3 DEF IsActive
  <2>6. topics'[topic_count' - 1] = topics'[k]
    BY <2>1 DEF k
  <2> QED
    BY <1>0, <1>12, <2>1, <2>2, <2>3, <2>4, <2>5, <2>6, RegInvMaking DEF Making
<1>14. ASSUME NEW t \in Procs, Activate(t) PROVE RegInv'
  <2> DEFINE k == topic_count - 1
  <2>1. /\ pc[t] = "activate" /\ pc' = [pc EXCEPT ![t] = "registered"]
        /\ topics' = [topics EXCEPT ![k] = [topics[k] EXCEPT !.active = TRUE]]
        /\ UNCHANGED <<topic_count, file, ready, made, name, seg>>
    BY <1>0, <1>14 DEF Activate
  <2>2. /\ k \in Slots /\ topics[k] \in Entry /\ k < topic_count
        /\ seg[t] = file[FileOf[name[t]]] /\ seg[t] \in ready /\ ~IsActive(name[t])
        /\ topics[k].name = name[t]
    BY <1>12, <2>1 DEF RegInv, MakingInv
  <2> HIDE DEF k
  <2>3. /\ \A i \in Slots \ {k} : topics'[i] = topics[i]
        /\ topics'[k].name = name[t] /\ topics'[k].active
    BY <1>0, <2>1, <2>2 DEF Entry
  <2>4. RegisteredOnce'
    BY <2>1, <2>2, <2>3 DEF RegInv, RegisteredOnce, IsActive
  <2>5. TableInv'
    BY <1>0, <2>1, <2>2, <2>3 DEF RegInv, TableInv
  <2>6. IsActive(name[t])' /\ \A n : IsActive(n) => IsActive(n)'
    BY <2>1, <2>2, <2>3 DEF IsActive
  <2> QED
    BY <1>0, <2>1, <2>2, <2>4, <2>5, <2>6, RegInvMaking DEF Making
<1>15. ASSUME NEW t \in Procs, CreateFails(t) PROVE RegInv'
  BY <1>0, <1>15, RegInvControl DEF CreateFails, Making
<1>16. CASE UNCHANGED vars
  BY <1>16 DEF vars, RegInv, RegisteredOnce, TableInv, MakingInv, UsingInv, IsActive
<1> QED
  BY <1>1, <1>2, <1>3, <1>4, <1>5, <1>6, <1>8, <1>9, <1>10, <1>11, <1>13, <1>14, <1>15, <1>16
  DEF Next, Step

\* No topic has two entries, if names fit an entry and no two share a file.
THEOREM RegistryRegisteredOnce ==
  ASSUME NamesFit, FilesDiffer
  PROVE  Spec => []RegisteredOnce
<1>1. LockedTypeOK' /\ RegInv /\ [Next]_vars => RegInv'
  BY RegInvNext
<1>2. RegInv => RegisteredOnce
  BY DEF RegInv
<1> QED
  BY <1>1, <1>2, LockedTypeInit, LockedTypeNext, RegInvInit, PTL DEF Spec

\* All who have a topic open share one initialised segment, whoever was killed
\* while it made the topic - if names fit an entry and no two share a file.
THEOREM RegistryOneSegment ==
  ASSUME NamesFit, FilesDiffer
  PROVE  Spec => []OneSegmentPerTopic
<1>1. LockedTypeOK' /\ RegInv /\ [Next]_vars => RegInv'
  BY RegInvNext
<1>2. RegInv => OneSegmentPerTopic
  BY DEF RegInv, UsingInv, TableInv, IsActive, OneSegmentPerTopic
<1> QED
  BY <1>1, <1>2, LockedTypeInit, LockedTypeNext, RegInvInit, PTL DEF Spec
=============================================================================
