----------------------------- MODULE MemoryPool -----------------------------
(***************************************************************************)
(* MemoryPool (memory_pool.cpp) and its use by Publisher::loanRaw and      *)
(* publishLoaned: any number of threads of any processes allocate from one *)
(* ring of shared memory under a robust mutex.  One step is one access to  *)
(* the shared header, so that a thread may die, or another one run,        *)
(* between any two of them.                                                *)
(***************************************************************************)
EXTENDS Integers, RobustMutex

CONSTANTS Procs,        \* the threads that allocate
          Mortal,       \* those that may be killed, at any point
          POOL_SIZE,    \* bytes in the pool
          Requests,     \* sizes passed to allocate
          Base,         \* the address the data area is mapped at
          NoLoan

VARIABLES mutex,        \* MemoryPoolShm::mutex
          head_offset,  \* MemoryPoolShm::head_offset
          pc,           \* where each thread is
          size,         \* local of allocate: the aligned size
          offset,       \* local of allocate: the offset to be returned
          loan          \* the block each thread was lent

vars == <<mutex, head_offset, pc, size, offset, loan>>

\* The atomic allocator this module implements.
Ring == INSTANCE RingAllocator WITH Holders <- Procs, head <- head_offset

ASSUME MortalAssumption == Mortal \subseteq Procs
ASSUME BaseAssumption == Base \in Nat
ASSUME NoOneAssumption == NoOne \notin Procs
ASSUME SizeAssumption ==
  /\ POOL_SIZE \in Nat \ {0} /\ POOL_SIZE % 8 = 0
  /\ Requests \subseteq Nat
  /\ NoLoan \notin Ring!Loans

\* Inside allocate and holding the mutex.
Holding == {"place", "bump", "unlock"}
PCs == Holding \cup {"idle", "lock", "lent", "rejected", "refused", "failed", "dead"}

getPointer(off) == Base + off
\* Mutant: the first byte of the pool counts as outside.
BugInPool(ptr) == ~ (ptr <= Base \/ ptr >= Base + POOL_SIZE)
\* getOffset checks that the pointer lies inside the data area, and throws.
InPool(ptr) == ~ (ptr < Base \/ ptr >= Base + POOL_SIZE)
getOffset(ptr) == ptr - Base

goto(t, l) == pc' = [pc EXCEPT ![t] = l]
Drop(t) == loan' = [loan EXCEPT ![t] = NoLoan]

Init ==
  /\ mutex = initRobustMutex
  /\ head_offset = 0
  /\ pc = [t \in Procs |-> "idle"]
  /\ size = [t \in Procs |-> 0]
  /\ offset = [t \in Procs |-> 0]
  /\ loan = [t \in Procs |-> NoLoan]

\* allocate is called.  A request above the capacity throws before the lock.
allocate(t, n) ==
  /\ pc[t] = "idle"
  /\ IF n > POOL_SIZE
     THEN goto(t, "rejected") /\ UNCHANGED size
     ELSE goto(t, "lock") /\ size' = [size EXCEPT ![t] = Ring!AlignUp(n)]
  /\ UNCHANGED <<mutex, head_offset, offset, loan>>

\* Mutant: the mutex is not taken.
BugLock(t) ==
  /\ pc[t] = "lock"
  /\ goto(t, "place")
  /\ UNCHANGED <<mutex, head_offset, size, offset, loan>>

\* lockRobust; it throws when the mutex can never be locked again.
Lock(t) ==
  /\ pc[t] = "lock"
  /\ mutex.owner = NoOne
  /\ mutex' = lockRobust(mutex, t)
  /\ goto(t, IF Recoverable(mutex) THEN "place" ELSE "failed")
  /\ UNCHANGED <<head_offset, size, offset, loan>>

\* Mutant: the block that would end exactly at the end of the pool wraps.
BugPlace(t) ==
  /\ pc[t] = "place"
  /\ offset' = [offset EXCEPT ![t] = IF head_offset + size[t] >= POOL_SIZE
                                       THEN 0 ELSE head_offset]
  /\ goto(t, "bump")
  /\ UNCHANGED <<mutex, head_offset, size, loan>>

\* Read the head and decide where the block goes.
Place(t) ==
  /\ pc[t] = "place"
  /\ offset' = [offset EXCEPT ![t] = Ring!PlaceAt(head_offset, size[t])]
  /\ goto(t, "bump")
  /\ UNCHANGED <<mutex, head_offset, size, loan>>

\* The store that takes the block out of the pool.
Bump(t) ==
  /\ pc[t] = "bump"
  /\ head_offset' = offset[t] + size[t]
  /\ loan' = Ring!Lent(loan, t, head_offset, offset[t], size[t])
  /\ goto(t, "unlock")
  /\ UNCHANGED <<mutex, size, offset>>

\* Mutant: return without the unlock.
BugUnlock(t) ==
  /\ pc[t] = "unlock"
  /\ goto(t, "lent")
  /\ UNCHANGED <<mutex, head_offset, size, offset, loan>>

Unlock(t) ==
  /\ pc[t] = "unlock"
  /\ mutex' = UnlockedBy(mutex, t)
  /\ goto(t, "lent")
  /\ UNCHANGED <<head_offset, size, offset, loan>>

\* publishLoaned turns the pointer back into an offset; a pointer it does not
\* take for one of the pool's makes it throw.
publishLoaned(t) ==
  /\ pc[t] = "lent"
  /\ LET ptr == getPointer(loan[t].off)
     IN IF InPool(ptr)
        THEN offset' = [offset EXCEPT ![t] = getOffset(ptr)] /\ goto(t, "idle")
        ELSE UNCHANGED offset /\ goto(t, "refused")
  /\ Drop(t)
  /\ UNCHANGED <<mutex, head_offset, size>>

\* The caller survives one of the two exceptions and goes on.
Catch(t) ==
  /\ pc[t] \in {"rejected", "refused"}
  /\ goto(t, "idle")
  /\ UNCHANGED <<mutex, head_offset, size, offset, loan>>

\* The process is killed.  The kernel hands its mutex to the next thread.
Crash(t) ==
  /\ t \in Mortal
  /\ pc[t] # "dead"
  /\ goto(t, "dead")
  /\ mutex' = AfterDeathOf(mutex, t)
  /\ Drop(t)
  /\ UNCHANGED <<head_offset, size, offset>>

Next ==
  \E t \in Procs :
     \/ \E n \in Requests : allocate(t, n)
     \/ Lock(t) \/ Place(t) \/ Bump(t) \/ Unlock(t)
     \/ publishLoaned(t) \/ Catch(t) \/ Crash(t)

Spec == Init /\ [][Next]_vars

\* A thread inside allocate keeps running.  Every holder of the mutex leaves
\* it after three steps, so a thread that keeps asking gets it.
Fairness ==
  \A t \in Procs :
     /\ WF_vars(Place(t) \/ Bump(t) \/ Unlock(t))
     /\ SF_vars(Lock(t))

FairSpec == Spec /\ Fairness
-----------------------------------------------------------------------------
TypeOK ==
  /\ mutex \in Mutexes(Procs)
  /\ head_offset \in 0..POOL_SIZE
  /\ pc \in [Procs -> PCs]
  /\ size \in [Procs -> 0..POOL_SIZE]
  /\ offset \in [Procs -> 0..POOL_SIZE]
  /\ loan \in [Procs -> Ring!Loans \cup {NoLoan}]

\* The mutex excludes, is owned exactly by the thread inside the critical
\* section, and survives every crash: it is never left unrecoverable.
LockInv ==
  /\ mutex.state # "unrecoverable"
  /\ \A t \in Procs : pc[t] \in Holding <=> mutex.owner = t

\* Two blocks the ring has not come round to never share a byte, for every
\* interleaving of allocate and every crash inside it.
LoansDisjoint == Ring!LoansDisjoint

\* allocate only ever hands out whole blocks of the data area, aligned to 8.
LoansInPool ==
  \A t \in Procs :
     loan[t] # NoLoan => /\ loan[t].off + loan[t].size <= POOL_SIZE
                         /\ loan[t].off % 8 = 0

\* publishLoaned refuses a pointer that allocate gave out only if the block is
\* empty and lies behind the last byte of the pool; a block at the first byte,
\* or one that ends with the last, is taken back.
RefusedOnlyEmpty ==
  \A t \in Procs : pc[t] = "refused" => size[t] = 0 /\ offset[t] = POOL_SIZE

\* What getOffset's comment has its check for, to refuse pointers that are not
\* the pool's: those that allocate gave out are all accepted.  An empty block
\* at the end of the pool is not.
NeverRefused == \A t \in Procs : pc[t] # "refused"

\* MemoryPool implements the atomic allocator.
Implements == Ring!Spec

\* A thread that asks for memory gets it unless it is killed, whoever else
\* dies in the middle of an allocation.
AllocateReturns ==
  \A t \in Procs : pc[t] = "lock" ~> pc[t] \in {"lent", "dead"}
=============================================================================
