-------------------------- MODULE MemoryPoolProofs --------------------------
(***************************************************************************)
(* MemoryPool, with its mutex, its interleavings and its crashes, for      *)
(* every pool size, every set of threads and every set of them that may    *)
(* die: the lock discipline holds, it implements RingAllocator, and the    *)
(* promise of RingAllocator is thereby its own.                            *)
(***************************************************************************)
EXTENDS MemoryPool, TLAPS

\* The theorems about the atomic allocator, for this pool.
RP == INSTANCE RingAllocatorProofs WITH Holders <- Procs, head <- head_offset

\* The assumptions of RingAllocator, which its lemmas come with.
LEMMA RingAssumptions ==
  /\ POOL_SIZE \in Nat \ {0} /\ POOL_SIZE % 8 = 0
  /\ Requests \subseteq Nat
  /\ NoLoan \notin RP!Loans
BY SizeAssumption DEF RP!Loans, Ring!Loans

LEMMA RingAlignUpFits ==
  ASSUME NEW n \in Nat, n <= POOL_SIZE
  PROVE  /\ Ring!AlignUp(n) \in 0..POOL_SIZE
         /\ Ring!AlignUp(n) % 8 = 0
         /\ n <= Ring!AlignUp(n)
<1>1. RP!AlignUp(n) \in 0..POOL_SIZE /\ RP!AlignUp(n) % 8 = 0 /\ n <= RP!AlignUp(n)
  BY RP!AlignUpFits, RingAssumptions
<1> QED
  BY <1>1 DEF RP!AlignUp, Ring!AlignUp
-----------------------------------------------------------------------------
\* The inductive invariant.  Beyond the lock discipline it says what allocate
\* knows in its locals: the offset chosen in Place is still the right one in
\* Bump, because nobody else moved the head meanwhile.
OwnedConsistent == mutex.owner # NoOne => mutex.state = "consistent"

SizeFromRequest ==
  \A t \in Procs : pc[t] \in {"lock", "place", "bump"} =>
     \E n \in Requests : n <= POOL_SIZE /\ size[t] = Ring!AlignUp(n)

PlaceStillRight ==
  \A t \in Procs : pc[t] = "bump" => offset[t] = Ring!PlaceAt(head_offset, size[t])

LoanWhileLent ==
  \A t \in Procs : loan[t] # NoLoan <=> pc[t] \in {"unlock", "lent"}

PoolInv ==
  TypeOK /\ LockInv /\ OwnedConsistent /\ SizeFromRequest /\ PlaceStillRight /\ LoanWhileLent

LEMMA PoolInvInit == Init => PoolInv
BY NoOneAssumption, SizeAssumption
DEF Init, PoolInv, TypeOK, LockInv, OwnedConsistent, SizeFromRequest, PlaceStillRight,
    LoanWhileLent, initRobustMutex, Mutexes, MutexStates, PCs, Holding

\* What the head and the loans are after Bump.
LEMMA BumpTypes ==
  ASSUME PoolInv, NEW t \in Procs, Bump(t)
  PROVE  /\ head_offset' \in 0..POOL_SIZE
         /\ loan' \in [Procs -> Ring!Loans \cup {NoLoan}]
         /\ \A u \in Procs : loan'[u] # NoLoan <=> u = t \/ loan[u] # NoLoan
<1>1. /\ offset[t] = Ring!PlaceAt(head_offset, size[t])
      /\ size[t] \in 0..POOL_SIZE /\ head_offset \in 0..POOL_SIZE /\ POOL_SIZE \in Nat
  BY SizeAssumption DEF PoolInv, TypeOK, PlaceStillRight, Bump
<1>2. offset[t] \in 0..POOL_SIZE /\ offset[t] + size[t] \in 0..POOL_SIZE
  BY <1>1 DEF Ring!PlaceAt
<1>3. [off |-> offset[t], size |-> size[t], wraps |-> 0] \in Ring!Loans
  BY <1>1, <1>2 DEF Ring!Loans
<1>4. ASSUME NEW l \in Ring!Loans PROVE Ring!Aged(l) \in Ring!Loans
  BY <1>4, SizeAssumption DEF Ring!Loans, Ring!Aged
<1>5. Ring!Aged(NoLoan) = NoLoan
  BY DEF Ring!Aged
<1>6. ASSUME NEW u \in Procs
      PROVE  /\ loan'[u] \in Ring!Loans \cup {NoLoan}
             /\ loan'[u] # NoLoan <=> u = t \/ loan[u] # NoLoan
  <2>1. CASE u = t
    BY <2>1, <1>3, SizeAssumption DEF Bump, Ring!Lent
  <2>2. CASE u # t /\ loan[u] = NoLoan
    BY <2>2, <1>5 DEF Bump, Ring!Lent
  <2>3. CASE u # t /\ loan[u] \in Ring!Loans
    BY <2>3, <1>4, SizeAssumption DEF Bump, Ring!Lent
  <2> QED
    BY <2>1, <2>2, <2>3 DEF PoolInv, TypeOK
<1> QED
  BY <1>2, <1>6 DEF Bump, Ring!Lent

LEMMA PoolInvNext == PoolInv /\ [Next]_vars => PoolInv'
<1> SUFFICES ASSUME PoolInv, [Next]_vars PROVE PoolInv'
  OBVIOUS
<1> USE NoOneAssumption
    DEF PoolInv, OwnedConsistent, SizeFromRequest, PlaceStillRight, LoanWhileLent, LockInv, goto, Holding
<1>1. ASSUME NEW t \in Procs, NEW n \in Requests, allocate(t, n) PROVE PoolInv'
  <2>1. n <= POOL_SIZE => Ring!AlignUp(n) \in 0..POOL_SIZE
    BY RingAlignUpFits, SizeAssumption
  <2>2. TypeOK'
    BY <1>1, <2>1, SizeAssumption DEF allocate, TypeOK, PCs
  <2>3. LockInv' /\ OwnedConsistent' /\ LoanWhileLent' /\ PlaceStillRight'
    BY <1>1 DEF allocate, TypeOK
  <2>4. SizeFromRequest'
    BY <1>1, SizeAssumption DEF allocate, TypeOK
  <2> QED
    BY <2>2, <2>3, <2>4
<1>2. ASSUME NEW t \in Procs, Lock(t) PROVE PoolInv'
  BY <1>2 DEF Lock, lockRobust, Recoverable, TypeOK, PCs, Mutexes, MutexStates
<1>3. ASSUME NEW t \in Procs, Place(t) PROVE PoolInv'
  <2>1. Ring!PlaceAt(head_offset, size[t]) \in 0..POOL_SIZE
    BY SizeAssumption DEF Ring!PlaceAt, TypeOK
  <2> QED
    BY <1>3, <2>1 DEF Place, TypeOK, PCs
<1>4. ASSUME NEW t \in Procs, Bump(t) PROVE PoolInv'
  <2>1. TypeOK'
    BY <1>4, BumpTypes DEF Bump, TypeOK, PCs
  <2>2. LockInv' /\ OwnedConsistent' /\ SizeFromRequest'
    BY <1>4 DEF Bump, TypeOK
  <2>3. PlaceStillRight'
    BY <1>4 DEF Bump, TypeOK
  <2>4. LoanWhileLent'
    BY <1>4, BumpTypes DEF Bump, TypeOK
  <2> QED
    BY <2>1, <2>2, <2>3, <2>4
<1>5. ASSUME NEW t \in Procs, Unlock(t) PROVE PoolInv'
  BY <1>5 DEF Unlock, UnlockedBy, TypeOK, PCs, Mutexes, MutexStates
<1>6. ASSUME NEW t \in Procs, publishLoaned(t) PROVE PoolInv'
  <2>1. loan[t] \in Ring!Loans
    BY <1>6 DEF publishLoaned, TypeOK
  <2>2. getOffset(getPointer(loan[t].off)) \in 0..POOL_SIZE
    BY <2>1, BaseAssumption, SizeAssumption DEF getOffset, getPointer, Ring!Loans
  <2> QED
    BY <1>6, <2>2 DEF publishLoaned, Drop, TypeOK, PCs
<1>7. ASSUME NEW t \in Procs, Catch(t) PROVE PoolInv'
  BY <1>7 DEF Catch, TypeOK, PCs
<1>8. ASSUME NEW t \in Procs, Crash(t) PROVE PoolInv'
  BY <1>8 DEF Crash, Drop, AfterDeathOf, TypeOK, PCs, Mutexes, MutexStates
<1>9. CASE UNCHANGED vars
  BY <1>9 DEF vars, TypeOK
<1> QED
  BY <1>1, <1>2, <1>3, <1>4, <1>5, <1>6, <1>7, <1>8, <1>9 DEF Next

THEOREM PoolInvariant == Spec => []PoolInv
BY PoolInvInit, PoolInvNext, PTL DEF Spec

\* Types are kept.
THEOREM PoolTypeCorrect == Spec => []TypeOK
BY PoolInvariant, PTL DEF PoolInv

\* The mutex excludes and outlives every crash.
THEOREM PoolLockDiscipline == Spec => []LockInv
BY PoolInvariant, PTL DEF PoolInv
-----------------------------------------------------------------------------
\* Bump is the abstract Alloc; publishLoaned, and the death of a borrower, are
\* the abstract Return; every other step leaves head and loans alone.
LEMMA StepImplements ==
  ASSUME PoolInv, [Next]_vars
  PROVE  [Ring!Next]_(Ring!vars)
<1> USE DEF Ring!vars
<1>1. ASSUME NEW t \in Procs, Bump(t) PROVE Ring!Next
  <2>1. PICK n \in Requests : n <= POOL_SIZE /\ size[t] = Ring!AlignUp(n)
    BY <1>1 DEF Bump, PoolInv, SizeFromRequest
  <2>2. offset[t] = Ring!PlaceAt(head_offset, Ring!AlignUp(n))
    BY <1>1, <2>1 DEF Bump, PoolInv, PlaceStillRight
  <2>3. loan[t] = NoLoan
    BY <1>1 DEF Bump, PoolInv, LoanWhileLent
  <2>4. Ring!Alloc(t, n)
    BY <1>1, <2>1, <2>2, <2>3 DEF Bump, Ring!Alloc
  <2> QED
    BY <2>4 DEF Ring!Next
<1>2. ASSUME NEW t \in Procs, publishLoaned(t) PROVE Ring!Next
  <2>1. Ring!Return(t)
    BY <1>2 DEF publishLoaned, Drop, Ring!Return, PoolInv, LoanWhileLent
  <2> QED
    BY <2>1 DEF Ring!Next
<1>3. ASSUME NEW t \in Procs, Crash(t) PROVE Ring!Next \/ UNCHANGED Ring!vars
  <2>1. CASE loan[t] = NoLoan
    BY <1>3, <2>1 DEF Crash, Drop, PoolInv, TypeOK
  <2>2. CASE loan[t] # NoLoan
    BY <1>3, <2>2 DEF Crash, Drop, Ring!Return, Ring!Next
  <2> QED
    BY <2>1, <2>2
<1>4. ASSUME NEW t \in Procs,
             Lock(t) \/ Place(t) \/ Unlock(t) \/ Catch(t) \/ \E n \in Requests : allocate(t, n)
      PROVE  UNCHANGED Ring!vars
  BY <1>4 DEF Lock, Place, Unlock, Catch, allocate
<1>5. CASE UNCHANGED vars
  BY <1>5 DEF vars
<1> QED
  BY <1>1, <1>2, <1>3, <1>4, <1>5 DEF Next

\* Every behaviour of MemoryPool is one of the atomic allocator's: allocating
\* under the mutex is one atomic step, whoever dies in the middle of it.
THEOREM PoolImplementsRing == Spec => Implements
<1>1. Init => Ring!Init
  BY DEF Init, Ring!Init
<1>2. PoolInv /\ [Next]_vars => [Ring!Next]_(Ring!vars)
  BY StepImplements
<1> QED
  BY <1>1, <1>2, PoolInvariant, PTL DEF Spec, Implements, Ring!Spec

\* Blocks the ring has not come round to never share a byte, with threads that
\* interleave and die anywhere inside allocate.
THEOREM PoolLoansDisjoint == Spec => []LoansDisjoint
<1>1. /\ POOL_SIZE \in Nat \ {0} /\ POOL_SIZE % 8 = 0
      /\ Requests \subseteq Nat
      /\ NoLoan \notin RP!Loans
  BY RingAssumptions
<1>2. RP!Spec => []RP!LoansDisjoint
  BY <1>1, RP!RingLoansDisjoint
<1>3. RP!LoansDisjoint => LoansDisjoint
  BY DEF RP!LoansDisjoint, LoansDisjoint, Ring!LoansDisjoint, RP!Unlapped, Ring!Unlapped,
         RP!Disjoint, Ring!Disjoint
<1>4. Implements => RP!Spec
  BY DEF Implements, RP!Spec, Ring!Spec, RP!Init, Ring!Init, RP!Next, Ring!Next, RP!vars, Ring!vars,
     RP!Alloc, Ring!Alloc, RP!Return, Ring!Return, RP!AlignUp, Ring!AlignUp, RP!PlaceAt, Ring!PlaceAt,
     RP!Lent, Ring!Lent, RP!Aged, Ring!Aged
<1> QED
  BY <1>2, <1>3, <1>4, PoolImplementsRing, PTL
-----------------------------------------------------------------------------
\* Where blocks lie: the head and every block start at a multiple of 8, blocks
\* end inside the pool, and until it hands a block back a thread's size and
\* offset are the block's.
BlocksInv ==
  /\ head_offset % 8 = 0
  /\ LoansInPool
  /\ \A t \in Procs : loan[t] # NoLoan => loan[t].size = size[t] /\ loan[t].off = offset[t]
  /\ RefusedOnlyEmpty

LEMMA BlocksInvBump ==
  ASSUME PoolInv, BlocksInv, NEW t \in Procs, Bump(t)
  PROVE  BlocksInv'
<1>1. PICK n \in Requests : n <= POOL_SIZE /\ size[t] = Ring!AlignUp(n)
  BY DEF Bump, PoolInv, SizeFromRequest
<1>2. /\ n \in Nat /\ POOL_SIZE \in Nat
      /\ size[t] \in 0..POOL_SIZE /\ size[t] % 8 = 0 /\ n <= size[t]
  BY <1>1, RingAlignUpFits, SizeAssumption
<1>3. /\ head_offset \in Nat /\ head_offset % 8 = 0
      /\ offset[t] \in Nat /\ offset[t] % 8 = 0 /\ offset[t] + size[t] <= POOL_SIZE
  BY <1>2 DEF Bump, PoolInv, TypeOK, PlaceStillRight, Ring!PlaceAt, BlocksInv
<1>4. head_offset' = offset[t] + size[t] /\ head_offset' % 8 = 0
  BY <1>2, <1>3 DEF Bump
<1>5. loan'[t] = [off |-> offset[t], size |-> size[t], wraps |-> 0]
  BY DEF Bump, Ring!Lent
<1>6. ASSUME NEW u \in Procs, u # t, loan'[u] # NoLoan
      PROVE  loan[u] # NoLoan /\ loan'[u].off = loan[u].off /\ loan'[u].size = loan[u].size
  <2>1. loan[u] \in Ring!Loans
    BY <1>6 DEF Bump, Ring!Lent, Ring!Aged, PoolInv, TypeOK
  <2> QED
    BY <1>6, <2>1, SizeAssumption DEF Bump, Ring!Lent, Ring!Aged, Ring!Loans
<1>7. LoansInPool'
  BY <1>3, <1>5, <1>6 DEF BlocksInv, LoansInPool
<1>8. \A u \in Procs : loan'[u] # NoLoan => loan'[u].size = size'[u] /\ loan'[u].off = offset'[u]
  BY <1>5, <1>6 DEF Bump, BlocksInv
<1>9. RefusedOnlyEmpty'
  BY DEF Bump, goto, BlocksInv, RefusedOnlyEmpty, PoolInv, TypeOK
<1> QED
  BY <1>4, <1>7, <1>8, <1>9 DEF BlocksInv

LEMMA BlocksInvNext ==
  ASSUME PoolInv, BlocksInv, [Next]_vars
  PROVE  BlocksInv'
<1> USE DEF BlocksInv, LoansInPool, RefusedOnlyEmpty, goto, PoolInv, TypeOK
<1>1. ASSUME NEW t \in Procs, publishLoaned(t) PROVE BlocksInv'
  <2>1. /\ loan[t] \in Ring!Loans /\ loan[t] # NoLoan
        /\ loan[t].size = size[t] /\ loan[t].off = offset[t]
    BY <1>1, SizeAssumption DEF publishLoaned, LoanWhileLent
  <2>2. ~InPool(getPointer(loan[t].off)) => size[t] = 0 /\ offset[t] = POOL_SIZE
    BY <2>1, BaseAssumption, SizeAssumption DEF InPool, getPointer, Ring!Loans
  <2>3. RefusedOnlyEmpty'
    BY <1>1, <2>2 DEF publishLoaned
  <2>4. \A u \in Procs : loan'[u] # NoLoan => loan'[u].size = size'[u] /\ loan'[u].off = offset'[u]
    BY <1>1 DEF publishLoaned, Drop
  <2> QED
    BY <1>1, <2>3, <2>4 DEF publishLoaned, Drop
<1>2. ASSUME NEW t \in Procs, Crash(t) PROVE BlocksInv'
  BY <1>2 DEF Crash, Drop
<1>3. ASSUME NEW t \in Procs,
             Lock(t) \/ Place(t) \/ Unlock(t) \/ Catch(t) \/ \E n \in Requests : allocate(t, n)
      PROVE  BlocksInv'
  BY <1>3 DEF Lock, Place, Unlock, Catch, allocate, LoanWhileLent
<1>4. CASE UNCHANGED vars
  BY <1>4 DEF vars
<1> QED
  BY <1>1, <1>2, <1>3, <1>4, BlocksInvBump DEF Next

LEMMA BlocksInvariant == Spec => []BlocksInv
<1>1. Init => BlocksInv
  BY DEF Init, BlocksInv, LoansInPool, RefusedOnlyEmpty
<1> QED
  BY <1>1, BlocksInvNext, PoolInvariant, PTL DEF Spec

\* allocate hands out whole, aligned blocks of the data area.
THEOREM PoolLoansInPool == Spec => []LoansInPool
BY BlocksInvariant, PTL DEF BlocksInv

\* Of the pointers that allocate gave out, publishLoaned refuses those of empty
\* blocks at the very end of the pool and no others.
THEOREM PoolRefusesOnlyEmpty == Spec => []RefusedOnlyEmpty
BY BlocksInvariant, PTL DEF BlocksInv
=============================================================================
