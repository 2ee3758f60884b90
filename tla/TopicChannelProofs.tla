------------------------- MODULE TopicChannelProofs -------------------------
(***************************************************************************)
(* One topic, for every number of publishers and subscribers, every set of *)
(* them that may be killed, every ring size and counter width that satisfy *)
(* RingAssumption: the lock discipline, what a receive takes, and - if     *)
(* publishers are not killed - that it never hands over anything twice.    *)
(***************************************************************************)
EXTENDS TopicChannel, FiniteSetTheorems, TLAPS

(* Facts about % that the ring rests on. *)

LEMMA ModSmall ==
  ASSUME NEW m \in Nat \ {0}, NEW x \in 0..m-1
  PROVE  x % m = x
OBVIOUS

LEMMA ModMinusOne ==
  ASSUME NEW m \in Nat \ {0}
  PROVE  (-1) % m = m - 1
OBVIOUS

LEMMA ModSelf ==
  ASSUME NEW m \in Nat \ {0}
  PROVE  m % m = 0
OBVIOUS

LEMMA ModRange ==
  ASSUME NEW m \in Nat \ {0}, NEW x \in Int
  PROVE  x % m \in 0..m-1
OBVIOUS

LEMMA ModNext ==
  ASSUME NEW m \in Nat \ {0, 1}, NEW x \in Nat
  PROVE  (x + 1) % m # x % m
<1> SUFFICES ASSUME (x + 1) % m = x % m PROVE FALSE
  OBVIOUS
<1> DEFINE q == x \div m
           r == (x + 1) \div m
<1>1. q \in Int /\ r \in Int
  OBVIOUS
<1>2. x = m * q + (x % m) /\ x + 1 = m * r + ((x + 1) % m)
  OBVIOUS
<1> HIDE DEF q, r
<1>3. x % m \in Int
  OBVIOUS
<1>4. m * r - m * q = 1
  BY <1>1, <1>2, <1>3
<1>5. m * (r - q) = 1
  BY <1>1, <1>4
<1>6. r - q >= 1 \/ r - q <= 0
  BY <1>1
<1> QED
  BY <1>1, <1>5, <1>6

-----------------------------------------------------------------------------
(* The ring.  The slot a publisher fills is never the one a subscriber      *)
(* reads, and write_index++ makes the one the other, also when it wraps.    *)
LEMMA RingFacts ==
  ASSUME NEW w \in Counter
  PROVE  /\ Succ(w) \in Counter
         /\ WriteSlot(w) \in Slots /\ NewestSlot(w) \in Slots
         /\ WriteSlot(w) # NewestSlot(w)
         /\ NewestSlot(Succ(w)) = WriteSlot(w)
<1> USE RingAssumption DEF Counter, Slots
<1>1. w \in Nat /\ w - 1 \in Int /\ w + 1 \in Int
  OBVIOUS
<1>2. Succ(w) \in Counter
  BY <1>1, ModRange DEF Succ
<1>3. (w - 1) % SeqMod = IF w = 0 THEN SeqMod - 1 ELSE w - 1
  <2>1. CASE w = 0
    <3>1. w - 1 = -1
      BY <2>1
    <3>2. (-1) % SeqMod = SeqMod - 1
      BY ModMinusOne
    <3> QED
      BY <2>1, <3>1, <3>2
  <2>2. CASE w # 0
    BY <2>2, ModSmall
  <2> QED
    BY <2>1, <2>2
<1>4. Succ(w) = IF w = SeqMod - 1 THEN 0 ELSE w + 1
  <2>1. CASE w = SeqMod - 1
    BY <2>1, ModSelf DEF Succ
  <2>2. CASE w # SeqMod - 1
    BY <2>2, ModSmall DEF Succ
  <2> QED
    BY <2>1, <2>2
<1>5. (Succ(w) - 1) % SeqMod = w
  <2>1. CASE w = SeqMod - 1
    BY <2>1, <1>4, ModMinusOne
  <2>2. CASE w # SeqMod - 1
    BY <2>2, <1>4, ModSmall
  <2> QED
    BY <2>1, <2>2
<1>6. WriteSlot(w) \in Slots /\ NewestSlot(w) \in Slots
  <2>1. w % BUFFER_SIZE \in Slots
    BY <1>1, ModRange
  <2>2. (w - 1) % SeqMod \in Int
    BY <1>1, <1>3
  <2>3. ((w - 1) % SeqMod) % BUFFER_SIZE \in Slots
    BY <2>2, ModRange
  <2> QED
    BY <2>1, <2>3 DEF WriteSlot, NewestSlot
<1>7. WriteSlot(w) # NewestSlot(w)
  <2>1. CASE w = 0
    <3>1. WriteSlot(w) = 0
      BY <2>1, ModSmall DEF WriteSlot
    <3> QED
      BY <2>1, <3>1, <1>3 DEF NewestSlot
  <2>2. CASE w # 0
    <3>1. ((w - 1) + 1) % BUFFER_SIZE # (w - 1) % BUFFER_SIZE
      <4>1. w - 1 \in Nat
        BY <2>2
      <4> QED
        BY <4>1, ModNext
    <3>2. (w - 1) + 1 = w
      BY <1>1
    <3> QED
      BY <2>2, <3>1, <3>2, <1>3 DEF NewestSlot, WriteSlot
  <2> QED
    BY <2>1, <2>2
<1>8. NewestSlot(Succ(w)) = WriteSlot(w)
  BY <1>5 DEF NewestSlot, WriteSlot
<1> QED
  BY <1>2, <1>6, <1>7, <1>8
-----------------------------------------------------------------------------
(* The two tables. *)
LEMMA LockedTable ==
  /\ DOMAIN Locked = {"enqueue", "attach", "align", "enter", "detach"}
  /\ Locked["enqueue"] = "stamp" /\ Locked["attach"] = "count" /\ Locked["align"] = "sync"
  /\ Locked["enter"] = "check" /\ Locked["detach"] = "uncount"
BY DEF Locked

LEMMA ReleasedTable ==
  /\ DOMAIN Released = {"published", "attached", "aligned", "taken", "giveup", "detached"}
  /\ Released["published"] = "idle" /\ Released["attached"] = "align"
  /\ Released["aligned"] = "ready" /\ Released["taken"] = "copy"
  /\ Released["giveup"] = "ready" /\ Released["detached"] = "absent"
BY DEF Released

LEMMA NextCases ==
  ASSUME [Next]_vars
  PROVE  \/ UNCHANGED vars
         \/ \E t \in Procs : Lock(t) \/ Throw(t) \/ Release(t) \/ Shutdown(t) \/ Crash(t)
         \/ \E p \in Pubs : \/ Stamp(p) \/ FillHeader(p) \/ Commit(p) \/ Broadcast(p)
                            \/ \E d \in Payloads : publish(p, d)
         \/ \E s \in Subs : \/ Count(s) \/ Sync(s) \/ Uncount(s) \/ Check(s) \/ Deliver(s)
                            \/ Subscribe(s) \/ Unsubscribe(s)
                            \/ Wake(s) \/ Timeout(s) \/ Reacquire(s)
                            \/ \E c \in Calls : Receive(s, c)
BY DEF Next, PubStep, SubStep
-----------------------------------------------------------------------------
(* Types. *)
LEMMA TypeInit == Init => TypeOK
<1> SUFFICES ASSUME Init PROVE TypeOK
  OBVIOUS
<1>1. ZeroHeader \in Headers /\ 0 \in Counter
  BY RingAssumption DEF ZeroHeader, Headers, Counter, Bodies
<1>2. (CHOOSE c \in Calls : TRUE) \in Calls
  <2>1. PICK f \in Forms, w \in Waits : TRUE
    BY ChannelAssumption
  <2>2. [form |-> f, wait |-> w] \in Calls
    BY <2>1 DEF Calls
  <2> QED
    BY <2>2
<1> QED
  BY <1>1, <1>2, ChannelAssumption
  DEF Init, TypeOK, initRobustMutex, Mutexes, MutexStates, Procs, Bodies, PubPCs, SubPCs

LEMMA TypeNext == TypeOK /\ [Next]_vars => TypeOK'
<1> SUFFICES ASSUME TypeOK, [Next]_vars PROVE TypeOK'
  OBVIOUS
<1> USE ChannelAssumption DEF TypeOK, goto, shm
<1>1. ASSUME NEW t \in Procs, Lock(t) PROVE TypeOK'
  BY <1>1, LockedTable DEF Lock, lockRobust, Mutexes, MutexStates, Procs, PubPCs, SubPCs, PubHolding, SubHolding
<1>2. ASSUME NEW t \in Procs, Throw(t) PROVE TypeOK'
  BY <1>2 DEF Throw, Procs, PubPCs, SubPCs
<1>3. ASSUME NEW t \in Procs, Release(t) PROVE TypeOK'
  BY <1>3, ReleasedTable DEF Release, UnlockedBy, Mutexes, MutexStates, Procs, PubPCs, SubPCs, PubHolding, SubHolding
<1>4. ASSUME NEW t \in Procs, Shutdown(t) PROVE TypeOK'
  BY <1>4 DEF Shutdown
<1>5. ASSUME NEW t \in Procs, Crash(t) PROVE TypeOK'
  BY <1>5 DEF Crash, AfterDeathOf, Mutexes, MutexStates, Procs, PubPCs, SubPCs
<1>6. ASSUME NEW p \in Pubs, Stamp(p) PROVE TypeOK'
  <2>1. Succ(seq) \in Counter /\ WriteSlot(write_index) \in Slots
    BY RingFacts
  <2>2. [buffer[WriteSlot(write_index)] EXCEPT !.seq = Succ(seq)] \in Headers
    BY <2>1 DEF Headers
  <2>3. buffer' \in [Slots -> Headers]
    BY <1>6, <2>1, <2>2 DEF Stamp
  <2> QED
    BY <1>6, <2>1, <2>3 DEF Stamp, Procs, PubPCs, SubPCs, PubHolding, SubHolding
<1>7. ASSUME NEW p \in Pubs, FillHeader(p) PROVE TypeOK'
  <2>1. WriteSlot(write_index) \in Slots
    BY RingFacts
  <2>2. [buffer[WriteSlot(write_index)] EXCEPT !.body = msg[p]] \in Headers
    BY <2>1 DEF Headers
  <2>3. buffer' \in [Slots -> Headers]
    BY <1>7, <2>1, <2>2 DEF FillHeader
  <2> QED
    BY <1>7, <2>1, <2>3 DEF FillHeader, Procs, PubPCs, SubPCs, PubHolding, SubHolding
<1>8. ASSUME NEW p \in Pubs, Commit(p) PROVE TypeOK'
  BY <1>8, RingFacts DEF Commit, Procs, PubPCs, SubPCs, PubHolding, SubHolding
<1>9. ASSUME NEW p \in Pubs, Broadcast(p) PROVE TypeOK'
  BY <1>9 DEF Broadcast, Procs, PubPCs, SubPCs, PubHolding, SubHolding
<1>10. ASSUME NEW p \in Pubs, NEW d \in Payloads, publish(p, d) PROVE TypeOK'
  BY <1>10 DEF publish, Procs, PubPCs, SubPCs, PubHolding, SubHolding, Bodies
<1>11. ASSUME NEW s \in Subs, Count(s) \/ Sync(s) \/ Uncount(s) PROVE TypeOK'
  BY <1>11 DEF Count, Sync, Uncount, Procs, PubPCs, SubPCs, PubHolding, SubHolding
<1>12. ASSUME NEW s \in Subs, Check(s) PROVE TypeOK'
  BY <1>12, RingFacts DEF Check, UnlockedBy, Mutexes, MutexStates, Procs, PubPCs, SubPCs, PubHolding, SubHolding
<1>13. ASSUME NEW s \in Subs, Deliver(s) PROVE TypeOK'
  <2>1. ZeroHeader \in Headers
    BY RingAssumption DEF ZeroHeader, Headers, Counter, Bodies
  <2>2. hdr[s].seq \in Counter
    BY DEF Headers
  <2> QED
    BY <1>13, <2>1, <2>2 DEF Deliver, Procs, PubPCs, SubPCs
<1>14. ASSUME NEW s \in Subs, Subscribe(s) \/ Unsubscribe(s) \/ Wake(s) \/ Timeout(s) PROVE TypeOK'
  <2>1. 0 \in Counter
    BY RingAssumption DEF Counter
  <2> QED
    BY <1>14, <2>1 DEF Subscribe, Unsubscribe, Wake, Timeout, Procs, PubPCs, SubPCs
<1>15. ASSUME NEW s \in Subs, Reacquire(s) PROVE TypeOK'
  BY <1>15 DEF Reacquire, LockedBy, Mutexes, MutexStates, Procs, PubPCs, SubPCs, SubHolding, PubHolding
<1>16. ASSUME NEW s \in Subs, NEW c \in Calls, Receive(s, c) PROVE TypeOK'
  BY <1>16 DEF Receive, Procs, PubPCs, SubPCs
<1>17. CASE UNCHANGED vars
  BY <1>17 DEF vars
<1> QED
  BY <1>1, <1>2, <1>3, <1>4, <1>5, <1>6, <1>7, <1>8, <1>9, <1>10, <1>11, <1>12, <1>13,
     <1>14, <1>15, <1>16, <1>17, NextCases

\* Every variable keeps its type.
THEOREM TopicTypeCorrect == Spec => []TypeOK
BY TypeInit, TypeNext, PTL DEF Spec
-----------------------------------------------------------------------------
(* The mutex.  LockInv is inductive together with two facts about the ways  *)
(* a robust mutex goes bad: nobody owns one beyond recovery, and who owns   *)
(* an inconsistent one got it from cond_wait.                               *)
Unrepaired == {"check", "taken", "giveup"}

MutexInv ==
  /\ LockInv
  /\ ~Recoverable(mutex) => mutex.owner = NoOne
  /\ \A t \in Procs : mutex.state = "inconsistent" /\ mutex.owner = t => pc[t] \in Unrepaired

LEMMA MutexInit == Init => MutexInv
BY ChannelAssumption
DEF Init, MutexInv, LockInv, Recoverable, initRobustMutex, Procs, PubHolding, SubHolding

LEMMA MutexNext == TypeOK /\ MutexInv /\ [Next]_vars => MutexInv'
<1> SUFFICES ASSUME TypeOK, MutexInv, [Next]_vars PROVE MutexInv'
  OBVIOUS
<1> USE ChannelAssumption
    DEF MutexInv, LockInv, Unrepaired, PubHolding, SubHolding, Recoverable, Procs, goto, shm
<1>0. pc \in [Procs -> PubPCs \cup SubPCs] /\ mutex \in Mutexes(Procs)
  BY DEF TypeOK
<1>1. ASSUME NEW t \in Procs, Lock(t) PROVE MutexInv'
  BY <1>0, <1>1, LockedTable DEF Lock, lockRobust
<1>2. ASSUME NEW t \in Procs, Throw(t) PROVE MutexInv'
  BY <1>0, <1>2, LockedTable DEF Throw
<1>3. ASSUME NEW t \in Procs, Release(t) PROVE MutexInv'
  BY <1>0, <1>3, ReleasedTable DEF Release, UnlockedBy
<1>4. ASSUME NEW t \in Procs, Shutdown(t) PROVE MutexInv'
  BY <1>4 DEF Shutdown
<1>5. ASSUME NEW t \in Procs, Crash(t) PROVE MutexInv'
  BY <1>0, <1>5 DEF Crash, AfterDeathOf
<1>6. ASSUME NEW p \in Pubs, Stamp(p) \/ FillHeader(p) \/ Commit(p) PROVE MutexInv'
  BY <1>0, <1>6 DEF Stamp, FillHeader, Commit
<1>7. ASSUME NEW p \in Pubs, Broadcast(p) PROVE MutexInv'
  BY <1>0, <1>7 DEF Broadcast
<1>8. ASSUME NEW p \in Pubs, NEW d \in Payloads, publish(p, d) PROVE MutexInv'
  BY <1>0, <1>8 DEF publish
<1>9. ASSUME NEW s \in Subs, Count(s) \/ Sync(s) \/ Uncount(s) PROVE MutexInv'
  BY <1>0, <1>9 DEF Count, Sync, Uncount
<1>10. ASSUME NEW s \in Subs, Check(s) PROVE MutexInv'
  BY <1>0, <1>10 DEF Check, UnlockedBy
<1>11. ASSUME NEW s \in Subs, Deliver(s) \/ Subscribe(s) \/ Unsubscribe(s) \/ Wake(s) \/ Timeout(s)
       PROVE MutexInv'
  BY <1>0, <1>11 DEF Deliver, Subscribe, Unsubscribe, Wake, Timeout
<1>12. ASSUME NEW s \in Subs, Reacquire(s) PROVE MutexInv'
  BY <1>0, <1>12 DEF Reacquire, LockedBy, Mutexes, MutexStates
<1>13. ASSUME NEW s \in Subs, NEW c \in Calls, Receive(s, c) PROVE MutexInv'
  BY <1>0, <1>13 DEF Receive
<1>14. CASE UNCHANGED vars
  BY <1>14 DEF vars
<1> QED
  BY <1>1, <1>2, <1>3, <1>4, <1>5, <1>6, <1>7, <1>8, <1>9, <1>10, <1>11, <1>12, <1>13,
     <1>14, NextCases

LEMMA MutexInvariant == Spec => [](TypeOK /\ MutexInv)
BY TypeInit, TypeNext, MutexInit, MutexNext, PTL DEF Spec

\* One thread at a time works on the segment, whoever is killed and whichever
\* subscriber fails to repair the mutex; then publishers only throw.
THEOREM TopicLockDiscipline == Spec => []LockInv
BY MutexInvariant, PTL DEF MutexInv

\* While a publisher is inside its critical section nobody else is.
LEMMA PublisherAlone ==
  ASSUME MutexInv, NEW p \in Pubs, pc[p] \in PubHolding, NEW t \in Procs, t # p
  PROVE  pc[t] \notin PubHolding \cup SubHolding
BY ChannelAssumption DEF MutexInv, LockInv, PubHolding, SubHolding, Procs, Recoverable
-----------------------------------------------------------------------------
(* What a receive takes.  The slot a subscriber reads always holds the last *)
(* committed header: publishers write the other one.                        *)
NewestInv ==
  /\ buffer[NewestSlot(write_index)] = newest
  /\ NewestHeader

LEMMA NewestInit == Init => NewestInv
<1>1. NewestSlot(0) \in Slots
  BY RingFacts, RingAssumption DEF Counter
<1> QED
  BY <1>1, ChannelAssumption DEF Init, NewestInv, NewestHeader, Procs

LEMMA NewestNext == TypeOK /\ MutexInv /\ NewestInv /\ [Next]_vars => NewestInv'
<1> SUFFICES ASSUME TypeOK, MutexInv, NewestInv, [Next]_vars PROVE NewestInv'
  OBVIOUS
<1> USE ChannelAssumption DEF NewestInv, NewestHeader, Procs, goto, shm
<1>0. /\ pc \in [Procs -> PubPCs \cup SubPCs]
      /\ buffer \in [Slots -> Headers] /\ write_index \in Counter /\ hdr \in [Subs -> Headers]
  BY DEF TypeOK
<1>1. ASSUME NEW t \in Procs, Lock(t) \/ Throw(t) \/ Release(t) \/ Shutdown(t) \/ Crash(t)
      PROVE  NewestInv'
  BY <1>0, <1>1, LockedTable, ReleasedTable DEF Lock, Throw, Release, Shutdown, Crash
<1>2. ASSUME NEW p \in Pubs, Stamp(p) \/ FillHeader(p) PROVE NewestInv'
  BY <1>0, <1>2, RingFacts DEF Stamp, FillHeader
<1>3. ASSUME NEW p \in Pubs, Commit(p) PROVE NewestInv'
  <2>1. pc[p] \in PubHolding
    BY <1>3 DEF Commit, PubHolding
  <2>2. \A s \in Subs : pc'[s] # "taken"
    BY <1>0, <1>3, <2>1, PublisherAlone DEF Commit, SubHolding
  <2>3. (buffer[NewestSlot(write_index)] = newest)'
    BY <1>0, <1>3, RingFacts DEF Commit
  <2> QED
    BY <2>2, <2>3
<1>4. ASSUME NEW p \in Pubs, Broadcast(p) PROVE NewestInv'
  BY <1>0, <1>4 DEF Broadcast
<1>5. ASSUME NEW p \in Pubs, NEW d \in Payloads, publish(p, d) PROVE NewestInv'
  BY <1>0, <1>5 DEF publish
<1>6. ASSUME NEW s \in Subs, Count(s) \/ Sync(s) \/ Uncount(s) \/ Subscribe(s) \/ Unsubscribe(s)
                              \/ Wake(s) \/ Timeout(s) \/ Reacquire(s)
      PROVE  NewestInv'
  BY <1>0, <1>6 DEF Count, Sync, Uncount, Subscribe, Unsubscribe, Wake, Timeout, Reacquire
<1>7. ASSUME NEW s \in Subs, Check(s) PROVE NewestInv'
  BY <1>0, <1>7 DEF Check
<1>8. ASSUME NEW s \in Subs, Deliver(s) PROVE NewestInv'
  BY <1>0, <1>8 DEF Deliver
<1>9. ASSUME NEW s \in Subs, NEW c \in Calls, Receive(s, c) PROVE NewestInv'
  BY <1>0, <1>9 DEF Receive
<1>10. CASE UNCHANGED vars
  BY <1>10 DEF vars
<1> QED
  BY <1>1, <1>2, <1>3, <1>4, <1>5, <1>6, <1>7, <1>8, <1>9, <1>10, NextCases

\* A receive takes the header of the last publish that was committed - never a
\* slot being filled, or half filled by a publisher that was killed - for any
\* number of publishers and after any number of wraps of write_index.
THEOREM TopicNewestHeader == Spec => []NewestHeader
BY MutexInvariant, NewestInit, NewestNext, PTL DEF Spec, NewestInv
-----------------------------------------------------------------------------
(* Nothing is handed over twice, as long as publishers are not killed: then *)
(* seq is the number of the last committed header whenever the mutex is     *)
(* free.  (A publisher killed between ++seq and write_index++ breaks that.) *)
Tearing == {"fill", "commit"}

SeqInv ==
  /\ (\A p \in Pubs : pc[p] \notin Tearing) => newest.seq = seq
  /\ \A p \in Pubs : pc[p] \in Tearing => buffer[WriteSlot(write_index)].seq = seq
  /\ DeliveryIsNew

LEMMA SeqInit == Init => SeqInv
BY ChannelAssumption DEF Init, SeqInv, Tearing, DeliveryIsNew, ZeroHeader, Procs

LEMMA SeqNext ==
  ASSUME Mortal \cap Pubs = {}
  PROVE  TypeOK /\ MutexInv /\ NewestInv /\ SeqInv /\ [Next]_vars => SeqInv'
<1> SUFFICES ASSUME TypeOK, MutexInv, NewestInv, SeqInv, [Next]_vars PROVE SeqInv'
  OBVIOUS
<1> USE ChannelAssumption DEF SeqInv, Tearing, DeliveryIsNew, Procs, goto, shm
<1>0. /\ pc \in [Procs -> PubPCs \cup SubPCs]
      /\ buffer \in [Slots -> Headers] /\ write_index \in Counter /\ seq \in Counter
      /\ hdr \in [Subs -> Headers] /\ last_seq \in [Subs -> Counter]
  BY DEF TypeOK
<1>1. ASSUME NEW t \in Procs, Lock(t) \/ Throw(t) \/ Release(t) \/ Shutdown(t) \/ Crash(t)
      PROVE  SeqInv'
  <2>1. CASE Lock(t)
    BY <1>0, <2>1, LockedTable DEF Lock
  <2>2. CASE Throw(t)
    BY <1>0, <2>2, LockedTable DEF Throw
  <2>3. CASE Release(t)
    BY <1>0, <2>3, ReleasedTable DEF Release
  <2>4. CASE Shutdown(t)
    BY <1>0, <2>4 DEF Shutdown
  <2>5. CASE Crash(t)
    BY <1>0, <2>5 DEF Crash
  <2> QED
    BY <1>1, <2>1, <2>2, <2>3, <2>4, <2>5
<1>2. ASSUME NEW p \in Pubs, Stamp(p) PROVE SeqInv'
  <2>1. \A q \in Pubs : q # p => pc'[q] \notin Tearing
    BY <1>0, <1>2, PublisherAlone DEF Stamp, PubHolding
  <2>2. buffer'[WriteSlot(write_index)].seq = seq'
    BY <1>0, <1>2, RingFacts DEF Stamp, Headers
  <2> QED
    BY <1>0, <1>2, <2>1, <2>2 DEF Stamp
<1>3. ASSUME NEW p \in Pubs, FillHeader(p) PROVE SeqInv'
  <2>1. buffer'[WriteSlot(write_index)].seq = buffer[WriteSlot(write_index)].seq
    BY <1>0, <1>3, RingFacts DEF FillHeader, Headers
  <2> QED
    BY <1>0, <1>3, <2>1 DEF FillHeader
<1>4. ASSUME NEW p \in Pubs, Commit(p) PROVE SeqInv'
  <2>1. \A q \in Pubs : q # p => pc[q] \notin Tearing
    BY <1>4, PublisherAlone DEF Commit, PubHolding
  <2> QED
    BY <1>0, <1>4, <2>1 DEF Commit
<1>5. ASSUME NEW p \in Pubs, Broadcast(p) PROVE SeqInv'
  BY <1>0, <1>5 DEF Broadcast
<1>6. ASSUME NEW p \in Pubs, NEW d \in Payloads, publish(p, d) PROVE SeqInv'
  BY <1>0, <1>6 DEF publish
<1>7. ASSUME NEW s \in Subs, Count(s) \/ Sync(s) \/ Uncount(s) \/ Subscribe(s) \/ Unsubscribe(s)
                              \/ Wake(s) \/ Timeout(s) \/ Reacquire(s)
      PROVE  SeqInv'
  BY <1>0, <1>7 DEF Count, Sync, Uncount, Subscribe, Unsubscribe, Wake, Timeout, Reacquire
<1>8. ASSUME NEW s \in Subs, Check(s) PROVE SeqInv'
  <2>1. \A p \in Pubs : pc[p] \notin Tearing
    BY <1>8, PublisherAlone DEF Check, PubHolding, SubHolding
  <2>2. buffer[NewestSlot(write_index)].seq = seq
    BY <2>1 DEF NewestInv
  <2> QED
    BY <1>0, <1>8, <2>1, <2>2 DEF Check
<1>9. ASSUME NEW s \in Subs, Deliver(s) PROVE SeqInv'
  BY <1>0, <1>9 DEF Deliver
<1>10. ASSUME NEW s \in Subs, NEW c \in Calls, Receive(s, c) PROVE SeqInv'
  BY <1>0, <1>10 DEF Receive
<1>11. CASE UNCHANGED vars
  BY <1>11 DEF vars
<1> QED
  BY <1>1, <1>2, <1>3, <1>4, <1>5, <1>6, <1>7, <1>8, <1>9, <1>10, <1>11, NextCases

\* If no publisher is killed, every message a receive hands over is newer than
\* all it has handed over before, also across a wrap of seq.
THEOREM TopicDeliveryIsNew ==
  ASSUME Mortal \cap Pubs = {}
  PROVE  Spec => []DeliveryIsNew
<1>1. Init => NewestInv /\ SeqInv
  BY NewestInit, SeqInit
<1>2. TypeOK /\ MutexInv /\ NewestInv /\ SeqInv /\ [Next]_vars => NewestInv' /\ SeqInv'
  BY NewestNext, SeqNext
<1>3. SeqInv => DeliveryIsNew
  BY DEF SeqInv
<1> QED
  BY <1>1, <1>2, <1>3, MutexInvariant, PTL DEF Spec
-----------------------------------------------------------------------------
(* The refinement.  A commit publishes, an alignment joins, and taking the  *)
(* header takes, if the message fits; all other steps stutter, or leave.    *)
LatestInv ==
  \A p \in Pubs :
     /\ pc[p] \in Tearing => seq = Succ(newest.seq)
     /\ pc[p] = "commit" => buffer[WriteSlot(write_index)].body = msg[p]
     /\ pc[p] \in {"enqueue", "stamp", "fill", "commit"} => msg[p] \in Payloads

LEMMA LatestInit == Init => LatestInv
BY ChannelAssumption DEF Init, LatestInv, Tearing, Procs

LEMMA LatestNext ==
  ASSUME Mortal \cap Pubs = {}
  PROVE  TypeOK /\ MutexInv /\ SeqInv /\ LatestInv /\ [Next]_vars => LatestInv'
<1> SUFFICES ASSUME TypeOK, MutexInv, SeqInv, LatestInv, [Next]_vars PROVE LatestInv'
  OBVIOUS
<1> USE ChannelAssumption DEF LatestInv, Tearing, Procs, goto, shm
<1>0. /\ pc \in [Procs -> PubPCs \cup SubPCs] /\ msg \in [Pubs -> Bodies]
      /\ buffer \in [Slots -> Headers] /\ write_index \in Counter /\ seq \in Counter
  BY DEF TypeOK
<1>1. ASSUME NEW t \in Procs, Lock(t) \/ Throw(t) \/ Release(t) \/ Shutdown(t) \/ Crash(t)
      PROVE  LatestInv'
  BY <1>0, <1>1, LockedTable, ReleasedTable DEF Lock, Throw, Release, Shutdown, Crash
<1>2. ASSUME NEW p \in Pubs, Stamp(p) PROVE LatestInv'
  <2>1. \A q \in Pubs : q # p => pc'[q] \notin Tearing
    BY <1>0, <1>2, PublisherAlone DEF Stamp, PubHolding
  <2>2. \A q \in Pubs : pc[q] \notin Tearing
    BY <1>0, <1>2, PublisherAlone DEF Stamp, PubHolding
  <2>3. newest.seq = seq
    BY <2>2 DEF SeqInv
  <2> QED
    BY <1>0, <1>2, <2>1, <2>3 DEF Stamp
<1>3. ASSUME NEW p \in Pubs, FillHeader(p) PROVE LatestInv'
  <2>1. buffer'[WriteSlot(write_index)].body = msg[p]
    BY <1>0, <1>3, RingFacts DEF FillHeader, Headers
  <2>2. \A q \in Pubs : q # p => pc'[q] \notin Tearing
    BY <1>0, <1>3, PublisherAlone DEF FillHeader, PubHolding
  <2> QED
    BY <1>0, <1>3, <2>1, <2>2 DEF FillHeader
<1>4. ASSUME NEW p \in Pubs, Commit(p) PROVE LatestInv'
  <2>1. \A q \in Pubs : pc'[q] \notin Tearing
    BY <1>0, <1>4, PublisherAlone DEF Commit, PubHolding
  <2> QED
    BY <1>0, <1>4, <2>1 DEF Commit
<1>5. ASSUME NEW p \in Pubs, Broadcast(p) PROVE LatestInv'
  BY <1>0, <1>5 DEF Broadcast
<1>6. ASSUME NEW p \in Pubs, NEW d \in Payloads, publish(p, d) PROVE LatestInv'
  BY <1>0, <1>6 DEF publish
<1>7. ASSUME NEW s \in Subs, Count(s) \/ Sync(s) \/ Uncount(s) \/ Subscribe(s) \/ Unsubscribe(s)
                              \/ Wake(s) \/ Timeout(s) \/ Reacquire(s) \/ Check(s) \/ Deliver(s)
      PROVE  LatestInv'
  BY <1>0, <1>7
  DEF Count, Sync, Uncount, Subscribe, Unsubscribe, Wake, Timeout, Reacquire, Check, Deliver
<1>8. ASSUME NEW s \in Subs, NEW c \in Calls, Receive(s, c) PROVE LatestInv'
  BY <1>0, <1>8 DEF Receive
<1>9. CASE UNCHANGED vars
  BY <1>9 DEF vars
<1> QED
  BY <1>1, <1>2, <1>3, <1>4, <1>5, <1>6, <1>7, <1>8, <1>9, NextCases

\* What the cursor of a subscriber does in a step that moves no other one.
LEMMA CursorMoves ==
  ASSUME NEW s \in Subs, newest' = newest,
         \A r \in Subs \ {s} : Cursor(r)' = Cursor(r),
         \/ Cursor(s)' = Cursor(s)
         \/ Cursor(s) = -1 /\ Cursor(s)' = newest.seq
         \/ Cursor(s) # -1 /\ Cursor(s) < newest.seq /\ Cursor(s)' = newest.seq
         \/ Cursor(s) # -1 /\ Cursor(s)' = -1
  PROVE  [Latest!Next]_(Latest!vars)
<1> DEFINE c == [r \in Subs |-> Cursor(r)]
           d == [r \in Subs |-> Cursor(r)']
<1>1. d = [c EXCEPT ![s] = Cursor(s)']
  OBVIOUS
<1>2. c[s] = Cursor(s)
  OBVIOUS
<1>3. CASE Cursor(s)' = Cursor(s)
  <2>1. d = c
    BY <1>1, <1>2, <1>3
  <2> QED
    BY <2>1 DEF Latest!vars
<1>4. CASE Cursor(s) = -1 /\ Cursor(s)' = newest.seq
  <2>1. Latest!Join(s)
    BY <1>1, <1>2, <1>4 DEF Latest!Join
  <2> QED
    BY <2>1 DEF Latest!Next
<1>5. CASE Cursor(s) # -1 /\ Cursor(s) < newest.seq /\ Cursor(s)' = newest.seq
  <2>1. Latest!Take(s)
    BY <1>1, <1>2, <1>5 DEF Latest!Take
  <2> QED
    BY <2>1 DEF Latest!Next
<1>6. CASE Cursor(s) # -1 /\ Cursor(s)' = -1
  <2>1. Latest!Leave(s)
    BY <1>1, <1>2, <1>6 DEF Latest!Leave
  <2> QED
    BY <2>1 DEF Latest!Next
<1> QED
  BY <1>3, <1>4, <1>5, <1>6

LEMMA LatestSame ==
  ASSUME newest' = newest, \A r \in Subs : Cursor(r)' = Cursor(r)
  PROVE  [Latest!Next]_(Latest!vars)
BY DEF Latest!vars

LEMMA LatestStep ==
  ASSUME Mortal \cap Pubs = {}
  PROVE  TypeOK /\ MutexInv /\ NewestInv /\ SeqInv /\ LatestInv /\ [Next]_vars
           => [Latest!Next]_(Latest!vars)
<1> SUFFICES ASSUME TypeOK, MutexInv, NewestInv, SeqInv, LatestInv, [Next]_vars
             PROVE  [Latest!Next]_(Latest!vars)
  OBVIOUS
<1> USE ChannelAssumption DEF Tearing, Procs, goto, shm, Cursor, HandsOver, Joined
<1>0. /\ pc \in [Procs -> PubPCs \cup SubPCs]
      /\ buffer \in [Slots -> Headers] /\ write_index \in Counter /\ seq \in Counter
      /\ hdr \in [Subs -> Headers] /\ last_seq \in [Subs -> Counter] /\ call \in [Subs -> Calls]
      /\ newest \in Headers
      /\ \A n \in Counter : n # -1
      /\ \A h \in Headers : h.seq \in Counter
  BY RingAssumption DEF TypeOK, Counter, Headers
<1>1. ASSUME NEW t \in Procs, Lock(t) \/ Throw(t) \/ Release(t) \/ Shutdown(t) \/ Crash(t)
      PROVE  [Latest!Next]_(Latest!vars)
  <2>1. CASE Lock(t)
    BY <1>0, <2>1, LockedTable, LatestSame DEF Lock
  <2>2. CASE Throw(t)
    <3>1. newest' = newest /\ pc' = [pc EXCEPT ![t] = "failed"] /\ UNCHANGED <<call, hdr, last_seq>>
      BY <2>2 DEF Throw
    <3>2. CASE t \in Pubs
      BY <1>0, <3>1, <3>2, LatestSame
    <3>3. CASE t \in Subs
      BY <1>0, <3>1, <3>3, CursorMoves
    <3> QED
      BY <3>2, <3>3
  <2>3. CASE Release(t)
    BY <1>0, <2>3, ReleasedTable, LatestSame DEF Release
  <2>4. CASE Shutdown(t)
    BY <2>4, LatestSame DEF Shutdown
  <2>5. CASE Crash(t)
    <3>1. newest' = newest /\ pc' = [pc EXCEPT ![t] = "dead"] /\ UNCHANGED <<call, hdr, last_seq>>
      BY <2>5 DEF Crash
    <3>2. CASE t \in Pubs
      BY <1>0, <3>1, <3>2, LatestSame
    <3>3. CASE t \in Subs
      BY <1>0, <3>1, <3>3, CursorMoves
    <3> QED
      BY <3>2, <3>3
  <2> QED
    BY <1>1, <2>1, <2>2, <2>3, <2>4, <2>5
<1>2. ASSUME NEW p \in Pubs, Stamp(p) \/ FillHeader(p) PROVE [Latest!Next]_(Latest!vars)
  BY <1>0, <1>2, LatestSame DEF Stamp, FillHeader
<1>3. ASSUME NEW p \in Pubs, Commit(p) PROVE [Latest!Next]_(Latest!vars)
  <2>1. /\ newest' = buffer[WriteSlot(write_index)]
        /\ buffer[WriteSlot(write_index)] \in Headers
        /\ \A r \in Subs : Cursor(r)' = Cursor(r)
    BY <1>0, <1>3, RingFacts DEF Commit
  <2>2. newest'.seq = Succ(newest.seq) /\ newest'.body = msg[p] /\ msg[p] \in Payloads
    BY <1>3, <2>1 DEF Commit, SeqInv, LatestInv
  <2>3. newest' = [seq |-> Latest!Following(newest.seq), body |-> msg[p]]
    BY <2>1, <2>2 DEF Headers, Succ, Latest!Following
  <2>4. Latest!Publish(msg[p])
    BY <2>1, <2>3 DEF Latest!Publish
  <2> QED
    BY <2>2, <2>4 DEF Latest!Next
<1>4. ASSUME NEW p \in Pubs, Broadcast(p) PROVE [Latest!Next]_(Latest!vars)
  BY <1>0, <1>4, LatestSame DEF Broadcast
<1>5. ASSUME NEW p \in Pubs, NEW d \in Payloads, publish(p, d) PROVE [Latest!Next]_(Latest!vars)
  BY <1>0, <1>5, LatestSame DEF publish
<1>6. ASSUME NEW s \in Subs, Count(s) \/ Uncount(s) \/ Subscribe(s) \/ Wake(s) \/ Timeout(s) \/ Reacquire(s)
      PROVE  [Latest!Next]_(Latest!vars)
  BY <1>0, <1>6, LatestSame DEF Count, Uncount, Subscribe, Wake, Timeout, Reacquire
<1>7. ASSUME NEW s \in Subs, Sync(s) PROVE [Latest!Next]_(Latest!vars)
  <2>1. newest.seq = seq
    BY <1>7, PublisherAlone DEF Sync, PubHolding, SubHolding, SeqInv
  <2> QED
    BY <1>0, <1>7, <2>1, CursorMoves DEF Sync
<1>8. ASSUME NEW s \in Subs, Unsubscribe(s) PROVE [Latest!Next]_(Latest!vars)
  BY <1>0, <1>8, CursorMoves DEF Unsubscribe
<1>9. ASSUME NEW s \in Subs, Check(s) PROVE [Latest!Next]_(Latest!vars)
  <2>1. newest.seq = seq
    BY <1>9, PublisherAlone DEF Check, PubHolding, SubHolding, SeqInv
  <2>2. CASE pc' = [pc EXCEPT ![s] = "taken"]
    <3>1. last_seq[s] < seq /\ hdr' = [hdr EXCEPT ![s] = newest]
      BY <1>0, <1>9, <2>2 DEF Check, NewestInv
    <3> QED
      BY <1>0, <1>9, <2>1, <2>2, <3>1, CursorMoves DEF Check
  <2>3. CASE pc' # [pc EXCEPT ![s] = "taken"]
    BY <1>0, <1>9, <2>3, LatestSame DEF Check
  <2> QED
    BY <2>2, <2>3
<1>10. ASSUME NEW s \in Subs, Deliver(s) PROVE [Latest!Next]_(Latest!vars)
  BY <1>0, <1>10, LatestSame DEF Deliver
<1>11. ASSUME NEW s \in Subs, NEW c \in Calls, Receive(s, c) PROVE [Latest!Next]_(Latest!vars)
  BY <1>0, <1>11, LatestSame DEF Receive
<1>12. CASE UNCHANGED vars
  BY <1>12, LatestSame DEF vars
<1> QED
  BY <1>1, <1>2, <1>3, <1>4, <1>5, <1>6, <1>7, <1>8, <1>9, <1>10, <1>11, <1>12, NextCases

\* If no publisher is killed, the topic with its mutex, its ring of slots and
\* its condition variable is the topic of LatestTopic: messages are numbered
\* one by one, and a receive takes the newest there is, once.
THEOREM TopicImplementsLatest ==
  ASSUME Mortal \cap Pubs = {}
  PROVE  Spec => ImplementsLatest
<1> DEFINE Inv == NewestInv /\ SeqInv /\ LatestInv
<1>1. Init => Inv
  BY NewestInit, SeqInit, LatestInit
<1>2. TypeOK /\ MutexInv /\ Inv /\ [Next]_vars => Inv'
  BY NewestNext, SeqNext, LatestNext
<1>3. Init => Latest!Init
  BY ChannelAssumption DEF Init, Latest!Init, Cursor, Joined, ZeroHeader, Procs
<1>4. TypeOK /\ MutexInv /\ Inv /\ [Next]_vars => [Latest!Next]_(Latest!vars)
  BY LatestStep
<1> QED
  BY <1>1, <1>2, <1>3, <1>4, MutexInvariant, PTL DEF Spec, ImplementsLatest, Latest!Spec
-----------------------------------------------------------------------------
(* The count of subscribers.  A step leaves the set of attached subscribers *)
(* alone, adds one while it counts it, takes one out while it uncounts it,  *)
(* or - a death, a mutex beyond recovery - takes one out without.           *)
Gone == {"failed", "dead"}
NobodyGone == \A s \in Subs : pc[s] \notin Gone

LEMMA CountInit == Init => SubscribersCounted
<1> SUFFICES ASSUME Init PROVE SubscribersCounted
  OBVIOUS
<1>1. Attached = {}
  BY ChannelAssumption DEF Init, Attached, Procs
<1> QED
  BY <1>1, FS_EmptySet DEF Init, SubscribersCounted

LEMMA AttachedFinite ==
  ASSUME IsFiniteSet(Subs)
  PROVE  IsFiniteSet(Attached) /\ Cardinality(Attached) \in Nat
BY FS_Subset, FS_CardinalityType DEF Attached

LEMMA OneLess ==
  ASSUME NEW S, IsFiniteSet(S), NEW x, NEW T, T = S \ {x}
  PROVE  /\ Cardinality(T) \in Nat /\ Cardinality(T) <= Cardinality(S)
         /\ x \in S => Cardinality(T) = Cardinality(S) - 1
<1>1. Cardinality(S) \in Nat
  BY FS_CardinalityType
<1>2. IsFiniteSet(T) /\ Cardinality(T) = IF x \in S THEN Cardinality(S) - 1 ELSE Cardinality(S)
  BY FS_RemoveElement
<1>3. Cardinality(T) \in Nat
  BY <1>2, FS_CardinalityType
<1> QED
  BY <1>1, <1>2, <1>3

LEMMA CountKept ==
  ASSUME SubscribersCounted, UNCHANGED active_subscribers, Attached' = Attached,
         NobodyGone' => NobodyGone
  PROVE  SubscribersCounted'
BY DEF SubscribersCounted, NobodyGone, Gone

LEMMA CountLost ==
  ASSUME IsFiniteSet(Subs), TypeOK, SubscribersCounted, UNCHANGED active_subscribers,
         NEW s \in Subs, Attached' = Attached \ {s}, ~NobodyGone'
  PROVE  SubscribersCounted'
<1>1. Cardinality(Attached') <= Cardinality(Attached) /\ Cardinality(Attached') \in Nat
  BY AttachedFinite, OneLess
<1> QED
  BY <1>1, AttachedFinite DEF SubscribersCounted, NobodyGone, Gone, TypeOK

LEMMA CountNext ==
  ASSUME IsFiniteSet(Subs)
  PROVE  TypeOK /\ SubscribersCounted /\ [Next]_vars => SubscribersCounted'
<1> SUFFICES ASSUME TypeOK, SubscribersCounted, [Next]_vars PROVE SubscribersCounted'
  OBVIOUS
<1> USE ChannelAssumption DEF Attached, NobodyGone, Gone, Procs, goto, shm
<1>0. pc \in [Procs -> PubPCs \cup SubPCs]
  BY DEF TypeOK
<1>1. ASSUME NEW t \in Procs, Lock(t) PROVE SubscribersCounted'
  <2>1. pc'[t] \in {"stamp", "count", "sync", "check", "uncount"}
        /\ (pc[t] = "attach" <=> pc'[t] = "count")
        /\ pc[t] \in {"enqueue", "attach", "align", "enter", "detach"}
        /\ pc' = [pc EXCEPT ![t] = pc'[t]]
    BY <1>0, <1>1, LockedTable DEF Lock
  <2>2. Attached' = Attached
    BY <1>0, <2>1
  <2> QED
    BY <1>0, <1>1, <2>1, <2>2, CountKept DEF Lock
<1>2. ASSUME NEW t \in Procs, Throw(t) \/ Crash(t) PROVE SubscribersCounted'
  <2>1. /\ UNCHANGED active_subscribers /\ pc' = [pc EXCEPT ![t] = pc'[t]]
        /\ pc'[t] \in Gone
    BY <1>0, <1>2 DEF Throw, Crash
  <2>2. CASE t \in Subs
    <3>1. Attached' = Attached \ {t} /\ ~NobodyGone'
      BY <1>0, <2>1, <2>2
    <3> QED
      BY <2>1, <2>2, <3>1, CountLost
  <2>3. CASE t \in Pubs
    <3>1. Attached' = Attached /\ (NobodyGone' => NobodyGone)
      BY <1>0, <2>1, <2>3
    <3> QED
      BY <2>1, <3>1, CountKept
  <2> QED
    BY <2>2, <2>3
<1>3. ASSUME NEW t \in Procs, Release(t) PROVE SubscribersCounted'
  <2>1. /\ pc[t] \in {"published", "attached", "aligned", "taken", "giveup", "detached"}
        /\ pc'[t] \in {"idle", "align", "ready", "copy", "absent"}
        /\ (pc[t] = "published" <=> pc'[t] = "idle")
        /\ (pc[t] = "detached" <=> pc'[t] = "absent")
        /\ pc' = [pc EXCEPT ![t] = pc'[t]]
    BY <1>0, <1>3, ReleasedTable DEF Release
  <2>2. Attached' = Attached
    BY <1>0, <2>1 DEF TypeOK
  <2> QED
    BY <1>0, <1>3, <2>1, <2>2, CountKept DEF Release
<1>4. ASSUME NEW t \in Procs, Shutdown(t) PROVE SubscribersCounted'
  BY <1>4, CountKept DEF Shutdown
<1>5. ASSUME NEW p \in Pubs, Stamp(p) \/ FillHeader(p) \/ Commit(p) PROVE SubscribersCounted'
  BY <1>0, <1>5, CountKept DEF Stamp, FillHeader, Commit
<1>6. ASSUME NEW p \in Pubs, Broadcast(p) PROVE SubscribersCounted'
  BY <1>0, <1>6, CountKept DEF Broadcast
<1>7. ASSUME NEW p \in Pubs, NEW d \in Payloads, publish(p, d) PROVE SubscribersCounted'
  BY <1>0, <1>7, CountKept DEF publish
<1>8. ASSUME NEW s \in Subs, Count(s) PROVE SubscribersCounted'
  <2>1. Attached' = Attached \cup {s} /\ s \notin Attached /\ (NobodyGone' => NobodyGone)
        /\ active_subscribers' = active_subscribers + 1
    BY <1>0, <1>8 DEF Count
  <2>2. Cardinality(Attached') = Cardinality(Attached) + 1
    BY <2>1, AttachedFinite, FS_AddElement
  <2> QED
    BY <2>1, <2>2, AttachedFinite DEF SubscribersCounted, TypeOK
<1>9. ASSUME NEW s \in Subs, Uncount(s) PROVE SubscribersCounted'
  <2>1. Attached' = Attached \ {s} /\ s \in Attached /\ (NobodyGone' => NobodyGone)
    BY <1>0, <1>9 DEF Uncount
  <2>2. Cardinality(Attached') = Cardinality(Attached) - 1 /\ Cardinality(Attached') \in Nat
    BY <2>1, AttachedFinite, OneLess
  <2>3. active_subscribers > 0 /\ active_subscribers' = active_subscribers - 1
    BY <1>9, <2>2, AttachedFinite DEF Uncount, SubscribersCounted, TypeOK
  <2> QED
    BY <2>1, <2>2, <2>3, AttachedFinite DEF SubscribersCounted, TypeOK
<1>10. ASSUME NEW s \in Subs, Check(s) PROVE SubscribersCounted'
  BY <1>0, <1>10, CountKept DEF Check
<1>11. ASSUME NEW s \in Subs, Sync(s) \/ Deliver(s) \/ Subscribe(s) \/ Unsubscribe(s)
                              \/ Wake(s) \/ Timeout(s) \/ Reacquire(s)
       PROVE SubscribersCounted'
  BY <1>0, <1>11, CountKept DEF Sync, Deliver, Subscribe, Unsubscribe, Wake, Timeout, Reacquire
<1>12. ASSUME NEW s \in Subs, NEW c \in Calls, Receive(s, c) PROVE SubscribersCounted'
  BY <1>0, <1>12, CountKept DEF Receive
<1>13. CASE UNCHANGED vars
  BY <1>13, CountKept DEF vars
<1> QED
  BY <1>1, <1>2, <1>3, <1>4, <1>5, <1>6, <1>7, <1>8, <1>9, <1>10, <1>11, <1>12, <1>13, NextCases

\* active_subscribers never falls short of the subscribers that are attached,
\* and is their number as long as none was killed or met a mutex beyond
\* recovery, for any finite number of them.
THEOREM TopicSubscribersCounted ==
  ASSUME IsFiniteSet(Subs)
  PROVE  Spec => []SubscribersCounted
BY CountInit, CountNext, TypeInit, TypeNext, PTL DEF Spec
=============================================================================
