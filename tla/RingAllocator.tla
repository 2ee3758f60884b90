--------------------------- MODULE RingAllocator ---------------------------
(***************************************************************************)
(* What com_ipc's shared memory pool promises to the holders of its loans: *)
(* one allocation is one atomic step that cuts the next aligned block off  *)
(* a ring.  No block is ever freed; a loan stays good until the ring comes *)
(* round to it.  MemoryPool (locks, crashes, one step per access to the    *)
(* shared memory) implements this specification.                           *)
(*                                                                         *)
(* A loan remembers, as history, how often the ring has wrapped since it   *)
(* was made, counted up to two: that is all a holder needs in order to     *)
(* know whether its block may have been lent again.                        *)
(***************************************************************************)
EXTENDS Integers

CONSTANTS Holders,      \* the threads that can hold a loan
          POOL_SIZE,    \* bytes in the pool
          Requests,     \* the sizes callers ask for, in bytes
          NoLoan        \* a holder with no loan

VARIABLES head,         \* where the next block starts
          loan          \* loan[t] : the block t holds

vars == <<head, loan>>

Loans == [off : 0..POOL_SIZE, size : 0..POOL_SIZE, wraps : 0..2]

\* POOL_SIZE is 100 * 1024 * 1024 in the code, a multiple of the alignment.
ASSUME PoolAssumption == POOL_SIZE \in Nat \ {0} /\ POOL_SIZE % 8 = 0
ASSUME RequestsAssumption == Requests \subseteq Nat
ASSUME NoLoanAssumption == NoLoan \notin Loans

\* (size + 7) & ~7
AlignUp(n) == ((n + 7) \div 8) * 8

\* Mutant: only the start of the block is compared with the end of the pool.
BugPlaceAt(h, size) == IF h >= POOL_SIZE THEN 0 ELSE h
\* Mutant: >= for >, the last bytes of the pool are never used.
BugPlaceShort(h, size) == IF h + size >= POOL_SIZE THEN 0 ELSE h

\* Where a block of this size goes: at the head, or back at 0 if it would
\* reach past the end.
PlaceAt(h, size) == IF h + size > POOL_SIZE THEN 0 ELSE h

\* A loan after the ring has wrapped once more.
Aged(l) ==
  IF l = NoLoan THEN NoLoan
  ELSE [l EXCEPT !.wraps = IF @ < 2 THEN @ + 1 ELSE 2]

\* The loans after t was lent [off, off + size) with the head at h.  The ring
\* has come round when a block of this size does not fit there.
Lent(ln, t, h, off, size) ==
  [u \in Holders |->
     IF u = t THEN [off |-> off, size |-> size, wraps |-> 0]
     ELSE IF PlaceAt(h, size) # h THEN Aged(ln[u]) ELSE ln[u]]

Init ==
  /\ head = 0
  /\ loan = [t \in Holders |-> NoLoan]

Alloc(t, n) ==
  LET size == AlignUp(n)
      off  == PlaceAt(head, size)
  IN  /\ n <= POOL_SIZE
      /\ loan[t] = NoLoan
      /\ head' = off + size
      /\ loan' = Lent(loan, t, head, off, size)

\* The holder published the block, gave up on it, or died.
Return(t) ==
  /\ loan[t] # NoLoan
  /\ loan' = [loan EXCEPT ![t] = NoLoan]
  /\ UNCHANGED head

Next == \E t \in Holders : Return(t) \/ \E n \in Requests : Alloc(t, n)

Spec == Init /\ [][Next]_vars
-----------------------------------------------------------------------------
TypeOK ==
  /\ head \in 0..POOL_SIZE
  /\ loan \in [Holders -> Loans \cup {NoLoan}]

\* The ring has not come round to the block of loan l.
Unlapped(l) == l.wraps = 0 \/ (l.wraps = 1 /\ head <= l.off)

Disjoint(k, l) == k.off + k.size <= l.off \/ l.off + l.size <= k.off

\* What the pool promises: two blocks the ring has not come round to never
\* share a byte, whoever holds them and however often the ring wrapped.
LoansDisjoint ==
  \A t, u \in Holders :
     ( /\ t # u
       /\ loan[t] # NoLoan /\ Unlapped(loan[t])
       /\ loan[u] # NoLoan /\ Unlapped(loan[u]) )
     => Disjoint(loan[t], loan[u])
=============================================================================
