------------------------ MODULE RingAllocatorProofs ------------------------
(***************************************************************************)
(* The atomic allocator keeps its promise for every pool size, every set   *)
(* of holders and every set of request sizes.                              *)
(***************************************************************************)
EXTENDS RingAllocator, TLAPS

\* Rounding up to 8 bytes stays in a pool whose size is a multiple of 8, and
\* yields a multiple of 8.
LEMMA AlignUpFits ==
  ASSUME NEW n \in Nat, n <= POOL_SIZE
  PROVE  AlignUp(n) \in 0..POOL_SIZE /\ AlignUp(n) % 8 = 0 /\ n <= AlignUp(n)
<1>1. PICK k \in Nat : POOL_SIZE = 8 * k
  <2>1. POOL_SIZE = 8 * (POOL_SIZE \div 8) + (POOL_SIZE % 8)
    BY PoolAssumption
  <2> QED
    BY <2>1, PoolAssumption
<1> DEFINE q == (n + 7) \div 8
<1>2. q \in Nat /\ 8 * q <= n + 7 /\ n <= 8 * q
  OBVIOUS
<1>3. q <= k
  BY <1>1, <1>2
<1> QED
  BY <1>1, <1>2, <1>3 DEF AlignUp

\* The inductive invariant.  A loan made since the last wrap ends at or before
\* the head; of two loans of the same lap one ends where the other starts, or
\* before.  A loan of the lap before that is disjoint from the current lap's
\* as long as the head has not passed its start: that is how Unlapped reads.
LoansWellFormed ==
  \A t \in Holders : loan[t] # NoLoan =>
     /\ loan[t].off + loan[t].size <= POOL_SIZE
     /\ loan[t].wraps = 0 => loan[t].off + loan[t].size <= head

SameLapDisjoint ==
  \A t, u \in Holders :
     ( /\ t # u /\ loan[t] # NoLoan /\ loan[u] # NoLoan
       /\ loan[t].wraps = loan[u].wraps /\ loan[t].wraps < 2 )
     => Disjoint(loan[t], loan[u])

RingInv == TypeOK /\ LoansWellFormed /\ SameLapDisjoint

LEMMA RingInvInit == Init => RingInv
BY PoolAssumption, NoLoanAssumption DEF Init, RingInv, TypeOK, LoansWellFormed, SameLapDisjoint

LEMMA RingInvAlloc ==
  ASSUME RingInv, NEW t \in Holders, NEW n \in Requests, Alloc(t, n)
  PROVE  RingInv'
<1> DEFINE size == AlignUp(n)
           off  == PlaceAt(head, size)
           new  == [off |-> off, size |-> size, wraps |-> 0]
<1>1. /\ size \in 0..POOL_SIZE
      /\ head \in 0..POOL_SIZE
      /\ POOL_SIZE \in Nat
  BY AlignUpFits, RequestsAssumption, PoolAssumption DEF Alloc, RingInv, TypeOK
<1>2. /\ off \in 0..POOL_SIZE /\ off + size \in 0..POOL_SIZE
      /\ (off = head \/ (off = 0 /\ head # 0 /\ size <= POOL_SIZE))
      /\ ((off # head) <=> (off = 0 /\ head + size > POOL_SIZE))
  BY <1>1 DEF PlaceAt
<1>3. /\ head' = off + size
      /\ loan' = Lent(loan, t, head, off, size)
  BY DEF Alloc
<1> HIDE DEF size, off
<1>4. loan \in [Holders -> Loans \cup {NoLoan}]
  BY DEF RingInv, TypeOK
<1>5. loan'[t] = new /\ new \in Loans /\ new # NoLoan
  BY <1>1, <1>2, <1>3, NoLoanAssumption DEF Lent, Loans
<1>6. ASSUME NEW u \in Holders, u # t
      PROVE  loan'[u] = IF off # head THEN Aged(loan[u]) ELSE loan[u]
  BY <1>2, <1>3, <1>6 DEF Lent, off
<1>7. ASSUME NEW l \in Loans
      PROVE  /\ Aged(l) \in Loans /\ Aged(l) # NoLoan
             /\ Aged(l).off = l.off /\ Aged(l).size = l.size
             /\ Aged(l).wraps = IF l.wraps < 2 THEN l.wraps + 1 ELSE 2
  BY NoLoanAssumption DEF Aged, Loans
<1>8. TypeOK'
  <2>1. ASSUME NEW u \in Holders PROVE loan'[u] \in Loans \cup {NoLoan}
    <3>1. CASE u = t
      BY <3>1, <1>5
    <3>2. CASE u # t /\ loan[u] = NoLoan
      BY <3>2, <1>6 DEF Aged
    <3>3. CASE u # t /\ loan[u] \in Loans
      BY <3>3, <1>6, <1>7
    <3> QED
      BY <3>1, <3>2, <3>3, <1>4
  <2> QED
    BY <1>2, <1>3, <2>1 DEF TypeOK, Lent
<1>9. LoansWellFormed'
  <2> SUFFICES ASSUME NEW u \in Holders, loan'[u] # NoLoan
               PROVE  /\ loan'[u].off + loan'[u].size <= POOL_SIZE
                      /\ loan'[u].wraps = 0 => loan'[u].off + loan'[u].size <= head'
    BY DEF LoansWellFormed
  <2>1. CASE u = t
    BY <2>1, <1>1, <1>2, <1>3, <1>5
  <2>2. CASE u # t
    <3>1. loan[u] \in Loans
      BY <2>2, <1>4, <1>6 DEF Aged
    <3>2. loan[u].wraps \in 0..2 /\ loan[u].off \in 0..POOL_SIZE /\ loan[u].size \in 0..POOL_SIZE
      BY <3>1 DEF Loans
    <3>3. /\ loan[u].off + loan[u].size <= POOL_SIZE
          /\ loan[u].wraps = 0 => loan[u].off + loan[u].size <= head
      BY <3>1, NoLoanAssumption DEF RingInv, LoansWellFormed
    <3> QED
      BY <2>2, <3>1, <3>2, <3>3, <1>1, <1>2, <1>3, <1>6, <1>7
  <2> QED
    BY <2>1, <2>2
<1>10. SameLapDisjoint'
  <2>1. ASSUME NEW u \in Holders, u # t, loan'[u] # NoLoan, loan'[u].wraps = 0
        PROVE  Disjoint(new, loan'[u]) /\ Disjoint(loan'[u], new)
    <3>1. loan[u] \in Loans /\ loan[u] # NoLoan
      BY <2>1, <1>4, <1>6, NoLoanAssumption DEF Aged
    <3>2. loan[u].wraps \in 0..2 /\ loan[u].off \in 0..POOL_SIZE /\ loan[u].size \in 0..POOL_SIZE
      BY <3>1 DEF Loans
    <3>3. off = head /\ loan'[u] = loan[u]
      BY <2>1, <3>1, <3>2, <1>6, <1>7
    <3>4. loan[u].off + loan[u].size <= head
      BY <2>1, <3>1, <3>3 DEF RingInv, LoansWellFormed
    <3> QED
      BY <3>2, <3>3, <3>4, <1>1 DEF Disjoint
  <2>2. ASSUME NEW u \in Holders, NEW v \in Holders, u # t, v # t, u # v,
               loan'[u] # NoLoan, loan'[v] # NoLoan,
               loan'[u].wraps = loan'[v].wraps, loan'[u].wraps < 2
        PROVE  Disjoint(loan'[u], loan'[v])
    <3>1. loan[u] \in Loans /\ loan[u] # NoLoan /\ loan[v] \in Loans /\ loan[v] # NoLoan
      BY <2>2, <1>4, <1>6, NoLoanAssumption DEF Aged
    <3>2. loan[u].wraps \in 0..2 /\ loan[v].wraps \in 0..2
      BY <3>1 DEF Loans
    <3>3. /\ loan'[u].off = loan[u].off /\ loan'[u].size = loan[u].size
          /\ loan'[v].off = loan[v].off /\ loan'[v].size = loan[v].size
      BY <2>2, <3>1, <1>6, <1>7
    <3>4. loan[u].wraps = loan[v].wraps /\ loan[u].wraps < 2
      BY <2>2, <3>1, <3>2, <1>6, <1>7
    <3>5. Disjoint(loan[u], loan[v])
      BY <2>2, <3>1, <3>4 DEF RingInv, SameLapDisjoint
    <3> QED
      BY <3>3, <3>5 DEF Disjoint
  <2> QED
    BY <2>1, <2>2, <1>5 DEF SameLapDisjoint
<1> QED
  BY <1>8, <1>9, <1>10 DEF RingInv

LEMMA RingInvReturn ==
  ASSUME RingInv, NEW t \in Holders, Return(t)
  PROVE  RingInv'
<1>1. head' = head /\ loan' \in [Holders -> Loans \cup {NoLoan}]
  BY DEF Return, RingInv, TypeOK
<1>2. \A u \in Holders : loan'[u] # NoLoan => loan'[u] = loan[u]
  BY DEF Return, RingInv, TypeOK
<1> QED
  BY <1>1, <1>2 DEF RingInv, TypeOK, LoansWellFormed, SameLapDisjoint, Disjoint

\* RingInv holds throughout.
THEOREM RingInvariant == Spec => []RingInv
<1>1. RingInv /\ [Next]_vars => RingInv'
  <2> SUFFICES ASSUME RingInv, [Next]_vars PROVE RingInv'
    OBVIOUS
  <2>1. CASE UNCHANGED vars
    BY <2>1 DEF vars, RingInv, TypeOK, LoansWellFormed, SameLapDisjoint, Disjoint
  <2>2. CASE Next
    BY <2>2, RingInvAlloc, RingInvReturn DEF Next
  <2> QED
    BY <2>1, <2>2
<1> QED
  BY <1>1, RingInvInit, PTL DEF Spec

\* The invariant is enough: unlapped loans are disjoint.
LEMMA RingInvDisjoint == RingInv => LoansDisjoint
<1> SUFFICES ASSUME RingInv, NEW t \in Holders, NEW u \in Holders, t # u,
                    loan[t] # NoLoan, Unlapped(loan[t]),
                    loan[u] # NoLoan, Unlapped(loan[u])
             PROVE  Disjoint(loan[t], loan[u])
  BY DEF LoansDisjoint
<1>1. loan[t] \in Loans /\ loan[u] \in Loans /\ head \in Nat /\ POOL_SIZE \in Nat
  BY PoolAssumption DEF RingInv, TypeOK
<1>2. /\ loan[t].wraps \in 0..2 /\ loan[t].off \in Nat /\ loan[t].size \in Nat
      /\ loan[u].wraps \in 0..2 /\ loan[u].off \in Nat /\ loan[u].size \in Nat
  BY <1>1 DEF Loans
<1>3. CASE loan[t].wraps = loan[u].wraps
  BY <1>2, <1>3 DEF RingInv, SameLapDisjoint, Unlapped
<1>4. CASE loan[t].wraps # loan[u].wraps
  BY <1>1, <1>2, <1>4 DEF RingInv, LoansWellFormed, Unlapped, Disjoint
<1> QED
  BY <1>3, <1>4

\* Blocks the ring has not come round to never share a byte.
THEOREM RingLoansDisjoint == Spec => []LoansDisjoint
BY RingInvariant, RingInvDisjoint, PTL
=============================================================================
