-------------------------- MODULE LatestTopicProofs --------------------------
(***************************************************************************)
(* What is built on LatestTopic.  Loans and their contents, for every pool *)
(* size, every set of messages of any sizes, and any number of publishers  *)
(* and subscribers; goals and their answers, for any number of clients,    *)
(* goals and servers, also when message numbers wrap.                      *)
(***************************************************************************)
EXTENDS ZeroCopy, Action, RingAllocatorProofs, FiniteSetTheorems

\* Every step is a step of the ring, or leaves it alone.
LEMMA CopyRingStep == [CopyNext]_CopyVars => [Next]_vars
<1> SUFFICES ASSUME [CopyNext]_CopyVars PROVE [Next]_vars
  OBVIOUS
<1>1. ASSUME NEW p \in Pubs, NEW m \in Holders, Loan(p, m) PROVE Next
  BY <1>1, CopyAssumption DEF Loan, Next
<1>2. ASSUME NEW p \in Pubs, Write(p) \/ Publish(p) \/ Abandon(p) PROVE UNCHANGED vars
  BY <1>2 DEF Write, Publish, Abandon, vars
<1>3. ASSUME NEW s \in Subs, Subscribe(s) \/ Receive(s) \/ Read(s) \/ Done(s) \/ Unsubscribe(s)
      PROVE  UNCHANGED vars
  BY <1>3 DEF Subscribe, Receive, Read, Done, Unsubscribe, vars
<1> QED
  BY <1>1, <1>2, <1>3 DEF CopyNext, CopyVars, vars

\* What holds of the ring may be used of the composed system.
LEMMA CopyRing == CopySpec => Spec
BY CopyRingStep, PTL DEF CopySpec, CopyInit, Spec
-----------------------------------------------------------------------------
(* How long a loan is good for.  Everything in the pool is a multiple of 8,  *)
(* so a block that does not fit leaves at most Largest - 8 bytes unused at   *)
(* the end, and that is all that can be missing from since.                  *)

WindowInv ==
  /\ head % 8 = 0
  /\ since \in [Holders -> Nat]
  /\ \A m \in Holders : loan[m] # NoLoan =>
       /\ loan[m].off % 8 = 0 /\ loan[m].size % 8 = 0
       /\ loan[m].wraps = 0 => since[m] = head - (loan[m].off + loan[m].size)
       /\ loan[m].wraps = 1 =>
            since[m] + loan[m].off + loan[m].size >= POOL_SIZE - Largest + 8 + head
       /\ loan[m].wraps = 2 => since[m] + loan[m].size > POOL_SIZE - Largest + 8

LEMMA WindowInit == CopyInit => WindowInv
BY DEF CopyInit, Init, WindowInv

\* Multiples of 8 are 8 apart.
LEMMA Apart ==
  ASSUME NEW a \in Nat, NEW b \in Nat, a % 8 = 0, b % 8 = 0
  PROVE  (a + b) % 8 = 0 /\ (a > b => a >= b + 8)
OBVIOUS

LEMMA WindowLoan ==
  ASSUME RingInv, WindowInv, NEW p \in Pubs, NEW m \in Holders, Loan(p, m)
  PROVE  WindowInv'
<1> DEFINE size == AlignUp(SizeOf[m])
           off  == PlaceAt(head, size)
<1>1. size \in 0..POOL_SIZE /\ size <= Largest
  BY AlignUpFits, RequestsAssumption, CopyAssumption DEF Loan, Alloc
<1>8. size % 8 = 0 /\ head % 8 = 0 /\ POOL_SIZE % 8 = 0
  BY AlignUpFits, RequestsAssumption, PoolAssumption, CopyAssumption DEF Loan, Alloc, WindowInv
<1>9. head \in 0..POOL_SIZE /\ POOL_SIZE \in Nat /\ Largest \in Nat
  BY PoolAssumption, CopyAssumption DEF RingInv, TypeOK
<1>2. /\ off \in 0..POOL_SIZE
      /\ \/ off = head /\ off + size <= POOL_SIZE
         \/ off = 0 /\ head + size > POOL_SIZE /\ head > 0
  BY <1>1, <1>9 DEF PlaceAt
<1>3. /\ head' = off + size /\ loan' = Lent(loan, m, head, off, size)
      /\ since' = [k \in Holders |-> IF k = m \/ loan[k] = NoLoan THEN 0 ELSE since[k] + size]
  BY DEF Loan, Alloc
<1> HIDE DEF size, off
<1>10. off % 8 = 0
  BY <1>2, <1>8
<1>4. head' % 8 = 0 /\ head' \in Nat
  BY <1>1, <1>8, <1>10, <1>2, <1>3, Apart
<1>5. since' \in [Holders -> Nat]
  BY <1>1, <1>3 DEF WindowInv
<1>6. off # head => head + size >= POOL_SIZE + 8
  <2>1. head + size \in Nat /\ (head + size) % 8 = 0
    BY <1>1, <1>8, <1>9, Apart
  <2> QED
    BY <1>2, <1>8, <1>9, <2>1, Apart
<1>7. ASSUME NEW u \in Holders, loan'[u] # NoLoan
      PROVE  /\ loan'[u].off % 8 = 0 /\ loan'[u].size % 8 = 0
             /\ loan'[u].wraps = 0 => since'[u] = head' - (loan'[u].off + loan'[u].size)
             /\ loan'[u].wraps = 1 => since'[u] + loan'[u].off + loan'[u].size
                                        >= POOL_SIZE - Largest + 8 + head'
             /\ loan'[u].wraps = 2 => since'[u] + loan'[u].size > POOL_SIZE - Largest + 8
  <2>1. CASE u = m
    <3>1. loan'[u] = [off |-> off, size |-> size, wraps |-> 0] /\ since'[u] = 0
      BY <2>1, <1>3 DEF Lent
    <3> QED
      BY <3>1, <1>8, <1>10, <1>1, <1>2, <1>3
  <2>2. CASE u # m
    <3> DEFINE l == loan[u]
    <3>1. loan'[u] = IF off # head THEN Aged(l) ELSE l
      BY <2>2, <1>3 DEF Lent, off
    <3>2. l # NoLoan
      BY <1>7, <3>1 DEF Aged
    <3>3. l \in Loans
      BY <3>2 DEF RingInv, TypeOK
    <3>4. l.off \in 0..POOL_SIZE /\ l.size \in 0..POOL_SIZE /\ l.wraps \in 0..2
      BY <3>3 DEF Loans
    <3>5. /\ loan'[u].off = l.off /\ loan'[u].size = l.size
          /\ loan'[u].wraps = IF off # head /\ l.wraps < 2 THEN l.wraps + 1 ELSE l.wraps
      BY <3>1, <3>2, <3>3, <3>4 DEF Aged, Loans
    <3>6. since'[u] = since[u] + size /\ since[u] \in Nat
      BY <2>2, <3>2, <1>3 DEF WindowInv
    <3>7. /\ l.off % 8 = 0 /\ l.size % 8 = 0
          /\ l.wraps = 0 => since[u] = head - (l.off + l.size)
          /\ l.wraps = 1 => since[u] + l.off + l.size >= POOL_SIZE - Largest + 8 + head
          /\ l.wraps = 2 => since[u] + l.size > POOL_SIZE - Largest + 8
      BY <3>2 DEF WindowInv
    <3> HIDE DEF l
    <3>8. CASE off = head
      BY <3>4, <3>5, <3>6, <3>7, <3>8, <1>1, <1>9, <1>3
    <3>9. CASE off # head
      BY <3>4, <3>5, <3>6, <3>7, <3>9, <1>1, <1>9, <1>2, <1>3, <1>6
    <3> QED
      BY <3>8, <3>9
  <2> QED
    BY <2>1, <2>2
<1> QED
  BY <1>4, <1>5, <1>7 DEF WindowInv

LEMMA WindowNext == RingInv /\ WindowInv /\ [CopyNext]_CopyVars => WindowInv'
<1> SUFFICES ASSUME RingInv, WindowInv, [CopyNext]_CopyVars PROVE WindowInv'
  OBVIOUS
<1>1. ASSUME UNCHANGED <<head, loan, since>> PROVE WindowInv'
  BY <1>1 DEF WindowInv
<1>2. ASSUME NEW p \in Pubs, Write(p) \/ Publish(p) \/ Abandon(p) PROVE WindowInv'
  BY <1>1, <1>2 DEF Write, Publish, Abandon
<1>3. ASSUME NEW s \in Subs, Subscribe(s) \/ Receive(s) \/ Read(s) \/ Done(s) \/ Unsubscribe(s)
      PROVE  WindowInv'
  BY <1>1, <1>3 DEF Subscribe, Receive, Read, Done, Unsubscribe
<1> QED
  BY <1>1, <1>2, <1>3, WindowLoan DEF CopyNext, CopyVars

\* A loan is good until nearly a whole pool has been lent after it.
THEOREM ZeroCopySafeWindow == CopySpec => []SafeWindow
<1>1. RingInv /\ WindowInv => SafeWindow
  <2> SUFFICES ASSUME RingInv, WindowInv, NEW m \in Holders, loan[m] # NoLoan,
                      since[m] + loan[m].size + Largest - 8 <= POOL_SIZE
               PROVE  Unlapped(loan[m])
    BY DEF SafeWindow
  <2>1. loan[m].off \in Nat /\ loan[m].size \in Nat /\ loan[m].wraps \in 0..2
        /\ head \in Nat /\ POOL_SIZE \in Nat /\ Largest \in Nat /\ since[m] \in Nat
    BY PoolAssumption, CopyAssumption DEF RingInv, TypeOK, Loans, WindowInv
  <2> QED
    BY <2>1 DEF WindowInv, Unlapped
<1>2. RingInv /\ WindowInv /\ [CopyNext]_CopyVars => WindowInv'
  BY WindowNext
<1>3. CopyInit => WindowInv
  BY WindowInit
<1> QED
  BY <1>1, <1>2, <1>3, CopyRing, RingInvariant, PTL DEF CopySpec
-----------------------------------------------------------------------------
(* What is in a block.  As long as nobody has written to a block that was    *)
(* lent again, the written part of a block the ring has not come round to    *)
(* holds its own message: whoever wrote elsewhere wrote to a block that the  *)
(* ring had not come round to either, and the two are disjoint.              *)

CopyTypes ==
  /\ mem \in [Addresses -> Holders \cup {NoMessage}]
  /\ written \in [Holders -> Nat]
  /\ pub \in [Pubs -> Holders \cup {NoMessage}]
  /\ got \in [Subs -> Holders \cup {NoMessage}]
  /\ seen \in [Subs -> SUBSET (Holders \cup {NoMessage})]
  /\ latest.body \in Holders \cup {NoMessage}
  /\ late \in BOOLEAN

\* A message that has left its publisher is all there.
Complete(m) == loan[m] # NoLoan /\ written[m] = loan[m].size
Passed ==
  /\ latest.body # NoMessage => Complete(latest.body)
  /\ \A s \in Subs : /\ got[s] # NoMessage => Complete(got[s])
                     /\ got[s] = NoMessage => seen[s] = {}
  /\ \A p \in Pubs : pub[p] # NoMessage => loan[pub[p]] # NoLoan

Progress ==
  \A m \in Holders : /\ written[m] % 8 = 0
                     /\ loan[m] = NoLoan => written[m] = 0
                     /\ loan[m] # NoLoan => written[m] <= loan[m].size

Undamaged ==
  ~late => \A m \in Holders : loan[m] # NoLoan /\ Unlapped(loan[m]) =>
     \A a \in Addresses :
        loan[m].off <= a /\ a < loan[m].off + written[m] => mem[a] = m

CopyInv == CopyTypes /\ Passed /\ Progress /\ Undamaged /\ PayloadIntact

LEMMA CopyInvInit == CopyInit => CopyInv
<1> SUFFICES ASSUME CopyInit PROVE CopyInv
  OBVIOUS
<1>1. latest.body = NoMessage
  BY DEF CopyInit, Topic!Init
<1>2. CopyTypes
  BY <1>1 DEF CopyInit, CopyTypes
<1>3. Passed /\ PayloadIntact
  BY <1>1 DEF CopyInit, Passed, PayloadIntact
<1>4. Progress /\ Undamaged
  BY DEF CopyInit, Init, Progress, Undamaged
<1> QED
  BY <1>2, <1>3, <1>4 DEF CopyInv

\* The facts about a loan the steps rest on.
LEMMA LoanFacts ==
  ASSUME RingInv, WindowInv, NEW m \in Holders, loan[m] # NoLoan
  PROVE  /\ loan[m].off \in Nat /\ loan[m].size \in Nat /\ loan[m].wraps \in 0..2
         /\ loan[m].off + loan[m].size <= POOL_SIZE
         /\ loan[m].off % 8 = 0 /\ loan[m].size % 8 = 0
<1>1. loan[m] \in Loans
  BY DEF RingInv, TypeOK
<1> QED
  BY <1>1, PoolAssumption DEF Loans, RingInv, LoansWellFormed, WindowInv

\* An allocation leaves the other blocks where they are, and does not make a
\* lapped one good again.
LEMMA OtherLoans ==
  ASSUME RingInv, NEW m \in Holders, NEW n \in Requests, Alloc(m, n),
         NEW u \in Holders, u # m, loan[u] # NoLoan
  PROVE  /\ loan'[u] # NoLoan /\ loan'[u].off = loan[u].off /\ loan'[u].size = loan[u].size
         /\ Unlapped(loan[u])' => Unlapped(loan[u])
<1> DEFINE size == AlignUp(n)
           off  == PlaceAt(head, size)
           l    == loan[u]
<1>1. size \in Nat /\ head \in Nat /\ POOL_SIZE \in Nat
  BY AlignUpFits, RequestsAssumption, PoolAssumption DEF Alloc, RingInv, TypeOK
<1>2. head' = off + size /\ loan'[u] = IF off # head THEN Aged(l) ELSE l
  BY DEF Alloc, Lent
<1>3. l \in Loans
  BY DEF RingInv, TypeOK
<1>4. l.off \in Nat /\ l.size \in Nat /\ l.wraps \in 0..2
  BY <1>3, PoolAssumption DEF Loans
<1> HIDE DEF l, off, size
<1>5. CASE off = head
  BY <1>1, <1>2, <1>4, <1>5 DEF Unlapped, l
<1>6. CASE off # head
  <2>1. /\ loan'[u] \in Loans /\ loan'[u].off = l.off /\ loan'[u].size = l.size
        /\ loan'[u].wraps = IF l.wraps < 2 THEN l.wraps + 1 ELSE 2
    BY <1>2, <1>3, <1>4, <1>6 DEF Aged, Loans, l
  <2>2. loan'[u].wraps # 0 /\ (loan'[u].wraps = 1 => l.wraps = 0)
    BY <2>1, <1>4
  <2> QED
    BY <2>1, <2>2, NoLoanAssumption DEF Unlapped, l
<1> QED
  BY <1>5, <1>6

LEMMA CopyInvLoan ==
  ASSUME RingInv, WindowInv, CopyInv, NEW p \in Pubs, NEW m \in Holders, Loan(p, m)
  PROVE  CopyInv'
<1>1. /\ Alloc(m, SizeOf[m]) /\ SizeOf[m] \in Requests /\ loan[m] = NoLoan
      /\ pub' = [pub EXCEPT ![p] = m]
      /\ UNCHANGED <<mem, written, latest, got, seen, late>>
  BY CopyAssumption DEF Loan, Alloc
<1>2. ASSUME NEW u \in Holders, loan[u] # NoLoan
      PROVE  /\ loan'[u] # NoLoan /\ loan'[u].off = loan[u].off /\ loan'[u].size = loan[u].size
             /\ Unlapped(loan[u])' => Unlapped(loan[u])
  BY <1>1, <1>2, OtherLoans
<1>3. loan'[m] # NoLoan /\ loan'[m].size \in Nat /\ loan'[m].off \in Nat
  <2>1. RingInv'
    BY <1>1, RingInvAlloc
  <2>2. loan'[m] = [off |-> PlaceAt(head, AlignUp(SizeOf[m])), size |-> AlignUp(SizeOf[m]), wraps |-> 0]
    BY <1>1 DEF Alloc, Lent
  <2>3. AlignUp(SizeOf[m]) \in 0..POOL_SIZE /\ PlaceAt(head, AlignUp(SizeOf[m])) \in 0..POOL_SIZE
    <3>1. AlignUp(SizeOf[m]) \in 0..POOL_SIZE
      BY <1>1, AlignUpFits, RequestsAssumption DEF Alloc
    <3>2. PlaceAt(head, AlignUp(SizeOf[m])) \in {0, head}
      BY DEF PlaceAt
    <3> QED
      BY <3>1, <3>2, PoolAssumption DEF RingInv, TypeOK
  <2> QED
    BY <2>2, <2>3, NoLoanAssumption, PoolAssumption DEF Loans
<1>4. ASSUME NEW u \in Holders, loan'[u] # NoLoan PROVE u = m \/ loan[u] # NoLoan
  BY <1>1, <1>4 DEF Alloc, Lent, Aged
<1>5. CopyTypes'
  BY <1>1 DEF CopyInv, CopyTypes
<1>6. Passed'
  BY <1>1, <1>2, <1>3, CopyAssumption DEF CopyInv, CopyTypes, Passed, Complete
<1>7. Progress'
  <2>1. written[m] = 0
    BY <1>1 DEF CopyInv, Progress
  <2> QED
    BY <1>1, <1>2, <1>3, <1>4, <2>1 DEF CopyInv, Progress
<1>8. Undamaged'
  <2> SUFFICES ASSUME ~late', NEW u \in Holders, loan'[u] # NoLoan, Unlapped(loan[u])',
                      NEW a \in Addresses, loan'[u].off <= a, a < loan'[u].off + written'[u]
               PROVE  mem'[a] = u
    BY DEF Undamaged, Addresses
  <2>1. CASE u = m
    <3>1. written'[u] = 0
      BY <1>1, <2>1 DEF CopyInv, Progress
    <3> QED
      BY <1>3, <2>1, <3>1 DEF Addresses
  <2>2. CASE loan[u] # NoLoan
    BY <1>1, <1>2, <2>2 DEF CopyInv, Undamaged
  <2> QED
    BY <1>4, <2>1, <2>2
<1>9. PayloadIntact'
  BY <1>1, <1>2 DEF CopyInv, CopyTypes, Passed, Complete, PayloadIntact
<1> QED
  BY <1>5, <1>6, <1>7, <1>8, <1>9 DEF CopyInv

LEMMA CopyInvWrite ==
  ASSUME RingInv, WindowInv, CopyInv, NEW p \in Pubs, Write(p)
  PROVE  CopyInv'
<1> DEFINE m == pub[p]
           a == loan[m].off + written[m]
<1>1. /\ m \in Holders /\ loan[m] # NoLoan /\ written[m] < loan[m].size
      /\ mem' = [mem EXCEPT ![a] = m]
      /\ written' = [written EXCEPT ![m] = @ + 8]
      /\ late' = (late \/ ~Unlapped(loan[m]))
      /\ UNCHANGED <<head, loan, latest, pub, got, seen>>
  BY DEF Write, CopyInv, CopyTypes, Passed
<1>2. /\ loan[m].off \in Nat /\ loan[m].size \in Nat
      /\ loan[m].off + loan[m].size <= POOL_SIZE
      /\ loan[m].off % 8 = 0 /\ loan[m].size % 8 = 0
      /\ written[m] \in Nat /\ written[m] % 8 = 0
  BY <1>1, LoanFacts DEF CopyInv, CopyTypes, Progress
<1>3. a \in Nat /\ a % 8 = 0 /\ a < loan[m].off + loan[m].size
  BY <1>1, <1>2, Apart
<1>4. a \in Addresses
  BY <1>2, <1>3, PoolAssumption DEF Addresses
<1>5. written[m] + 8 <= loan[m].size /\ (written[m] + 8) % 8 = 0
  BY <1>1, <1>2, Apart
<1>6. \A u \in Holders : written'[u] = IF u = m THEN written[m] + 8 ELSE written[u]
  BY <1>1 DEF CopyInv, CopyTypes
<1> HIDE DEF a, m
<1>7. CopyTypes'
  BY <1>1, <1>2, <1>4 DEF CopyInv, CopyTypes
<1>8. Passed'
  <2>1. ASSUME NEW u \in Holders, Complete(u) PROVE u # m
    BY <1>1, <1>2, <2>1 DEF Complete
  <2> QED
    BY <1>1, <1>6, <2>1 DEF CopyInv, CopyTypes, Passed, Complete
<1>9. Progress'
  BY <1>1, <1>5, <1>6 DEF CopyInv, Progress
<1>10. Undamaged'
  <2> SUFFICES ASSUME ~late', NEW u \in Holders, loan[u] # NoLoan, Unlapped(loan[u]),
                      NEW b \in Addresses, loan[u].off <= b, b < loan[u].off + written'[u]
               PROVE  mem'[b] = u
    BY <1>1 DEF Undamaged, Unlapped
  <2>1. ~late /\ Unlapped(loan[m])
    BY <1>1
  <2>2. mem'[b] = IF b = a THEN m ELSE mem[b]
    BY <1>1, <1>4 DEF CopyInv, CopyTypes
  <2>3. CASE u = m
    <3>1. b = a \/ b < a
      <4>1. b < a + 8
        BY <2>3, <1>2, <1>6 DEF a, Addresses
      <4> QED
        BY <4>1, <1>3, Apart DEF Addresses
    <3>2. b < a => mem[b] = m
      BY <2>1, <2>3, <1>1, <1>2 DEF CopyInv, Undamaged, a
    <3> QED
      BY <2>2, <2>3, <3>1, <3>2
  <2>4. CASE u # m
    <3>1. written'[u] = written[u] /\ written[u] <= loan[u].size /\ written[u] \in Nat
      BY <2>4, <1>6 DEF CopyInv, CopyTypes, Progress
    <3>2. Disjoint(loan[u], loan[m])
      BY <2>1, <2>4, <1>1, RingInvDisjoint DEF LoansDisjoint
    <3>3. loan[u].off \in Nat /\ loan[u].size \in Nat
      BY LoanFacts
    <3>4. b # a
      BY <1>2, <1>3, <3>1, <3>2, <3>3 DEF Disjoint, Addresses, a
    <3> QED
      BY <2>1, <2>2, <3>1, <3>4 DEF CopyInv, Undamaged
  <2> QED
    BY <2>3, <2>4
<1>11. PayloadIntact'
  BY <1>1 DEF CopyInv, PayloadIntact, Unlapped
<1> QED
  BY <1>7, <1>8, <1>9, <1>10, <1>11 DEF CopyInv

LEMMA CopyInvPublish ==
  ASSUME CopyInv, NEW p \in Pubs, Publish(p) \/ Abandon(p)
  PROVE  CopyInv'
<1>1. /\ UNCHANGED <<head, loan, mem, written, got, seen, late>>
      /\ pub' = [pub EXCEPT ![p] = NoMessage]
      /\ latest'.body = latest.body \/ latest'.body = pub[p]
      /\ latest'.body = pub[p] => latest'.body = latest.body \/ written[pub[p]] = loan[pub[p]].size
  BY DEF Publish, Abandon, Topic!Publish
<1>2. pub[p] # NoMessage
  BY DEF Publish, Abandon
<1>3. CopyTypes'
  BY <1>1 DEF CopyInv, CopyTypes
<1>4. Passed'
  BY <1>1, <1>2 DEF CopyInv, CopyTypes, Passed, Complete
<1> QED
  BY <1>1, <1>3, <1>4 DEF CopyInv, Progress, Undamaged, PayloadIntact, Unlapped

LEMMA CopyInvSubscriber ==
  ASSUME CopyInv, NEW s \in Subs,
         Subscribe(s) \/ Receive(s) \/ Read(s) \/ Done(s) \/ Unsubscribe(s)
  PROVE  CopyInv'
<1>1. UNCHANGED <<head, loan, mem, written, pub, late, latest>>
  BY DEF Subscribe, Receive, Read, Done, Unsubscribe, Topic!Join, Topic!Take, Topic!Leave
<1>2. Progress' /\ Undamaged'
  BY <1>1 DEF CopyInv, Progress, Undamaged, Unlapped
<1>3. CASE UNCHANGED <<got, seen>>
  BY <1>1, <1>2, <1>3 DEF CopyInv, CopyTypes, Passed, Complete, PayloadIntact, Unlapped
<1>4. CASE Receive(s)
  <2>1. got' = [got EXCEPT ![s] = latest.body] /\ seen' = seen /\ got[s] = NoMessage
    BY <1>4 DEF Receive
  <2>2. CopyTypes' /\ Passed'
    BY <1>1, <2>1 DEF CopyInv, CopyTypes, Passed, Complete
  <2>3. PayloadIntact'
    BY <1>1, <2>1 DEF CopyInv, CopyTypes, Passed, PayloadIntact, Unlapped
  <2> QED
    BY <1>2, <2>2, <2>3 DEF CopyInv
<1>5. CASE Read(s)
  <2>1. PICK a \in Block(got[s]) : seen' = [seen EXCEPT ![s] = @ \cup {mem[a]}]
    BY <1>5 DEF Read
  <2>2. got' = got /\ got[s] \in Holders /\ Complete(got[s])
    BY <1>5 DEF Read, CopyInv, CopyTypes, Passed
  <2>3. a \in Addresses /\ loan[got[s]].off <= a /\ a < loan[got[s]].off + written[got[s]]
    BY <2>2 DEF Block, Complete
  <2>4. Unlapped(loan[got[s]]) /\ ~late => mem[a] = got[s]
    BY <2>2, <2>3 DEF CopyInv, Undamaged, Complete
  <2>5. CopyTypes' /\ Passed'
    <3>1. mem[a] \in Holders \cup {NoMessage}
      BY <2>3 DEF CopyInv, CopyTypes
    <3>2. seen' \in [Subs -> SUBSET (Holders \cup {NoMessage})]
      BY <2>1, <3>1 DEF CopyInv, CopyTypes
    <3>3. \A t \in Subs : t # s => seen'[t] = seen[t]
      BY <2>1 DEF CopyInv, CopyTypes
    <3>4. got[s] # NoMessage
      BY <2>2, CopyAssumption
    <3> QED
      BY <1>1, <2>2, <3>2, <3>3, <3>4 DEF CopyInv, CopyTypes, Passed, Complete
  <2>6. PayloadIntact'
    BY <1>1, <2>1, <2>2, <2>4 DEF CopyInv, CopyTypes, PayloadIntact, Unlapped
  <2> QED
    BY <1>2, <2>5, <2>6 DEF CopyInv
<1>6. CASE Done(s)
  <2>1. got' = [got EXCEPT ![s] = NoMessage] /\ seen' = [seen EXCEPT ![s] = {}]
    BY <1>6 DEF Done
  <2> QED
    BY <1>1, <1>2, <2>1 DEF CopyInv, CopyTypes, Passed, Complete, PayloadIntact, Unlapped
<1> QED
  BY <1>3, <1>4, <1>5, <1>6 DEF Subscribe, Unsubscribe

LEMMA CopyInvariant == CopySpec => [](RingInv /\ WindowInv /\ CopyInv)
<1>1. RingInv /\ WindowInv /\ CopyInv /\ [CopyNext]_CopyVars => CopyInv'
  <2>1. ASSUME CopyInv, UNCHANGED CopyVars PROVE CopyInv'
    BY <2>1 DEF CopyVars, CopyInv, CopyTypes, Passed, Complete, Progress, Undamaged,
                PayloadIntact, Unlapped
  <2> QED
    BY <2>1, CopyInvLoan, CopyInvWrite, CopyInvPublish, CopyInvSubscriber DEF CopyNext
<1> QED
  BY <1>1, CopyInvInit, WindowInit, WindowNext, CopyRing, RingInvariant, PTL
     DEF CopySpec

\* A subscriber finds nothing but its own message in the block for as long as
\* the ring has not come round to it, if no publisher was overtaken itself.
THEOREM ZeroCopyPayloadIntact == CopySpec => []PayloadIntact
<1>1. CopyInv => PayloadIntact
  BY DEF CopyInv
<1> QED
  BY <1>1, CopyInvariant, PTL
-----------------------------------------------------------------------------
\* The topic's numbers stay below SeqMod.
Numbering ==
  /\ latest = [seq |-> latest.seq, body |-> latest.body]
  /\ latest.seq \in Topic!Number
  /\ cursor \in [Subs -> Int]

LEMMA NumberingStep == Numbering /\ [CopyNext]_CopyVars => Numbering'
<1> SUFFICES ASSUME Numbering, [CopyNext]_CopyVars PROVE Numbering'
  OBVIOUS
<1>1. ASSUME UNCHANGED <<latest, cursor>> PROVE Numbering'
  BY <1>1 DEF Numbering
<1>2. ASSUME NEW p \in Pubs, Publish(p) PROVE Numbering'
  <2>1. latest' = [seq |-> (latest.seq + 1) % SeqMod, body |-> pub[p]] /\ cursor' = cursor
    BY <1>2 DEF Publish, Topic!Publish, Topic!Following
  <2>2. latest.seq \in Nat /\ SeqMod \in Nat \ {0}
    BY CopyAssumption DEF Numbering, Topic!Number
  <2>3. (latest.seq + 1) % SeqMod \in 0 .. SeqMod - 1
    BY <2>2
  <2> QED
    BY <2>1, <2>3 DEF Numbering, Topic!Number
<1>3. ASSUME NEW s \in Subs, Topic!Join(s) \/ Topic!Take(s) \/ Topic!Leave(s)
      PROVE  Numbering'
  <2>1. latest.seq \in Int
    BY CopyAssumption DEF Numbering, Topic!Number
  <2> QED
    BY <1>3, <2>1 DEF Topic!Join, Topic!Take, Topic!Leave, Numbering
<1> QED
  BY <1>1, <1>2, <1>3 DEF CopyNext, CopyVars, Loan, Write, Abandon, Subscribe, Receive,
                          Read, Done, Unsubscribe

\* The composed system keeps its types: nothing is written outside a block,
\* and the topic's numbers stay in range through every wrap.
THEOREM ZeroCopyTypeCorrect == CopySpec => []CopyTypeOK
<1>1. CopyInit => Numbering
  BY CopyAssumption DEF CopyInit, Topic!Init, Numbering, Topic!Number
<1>2. ASSUME RingInv, WindowInv, CopyInv, Numbering PROVE CopyTypeOK
  <2>1. written \in [Holders -> 0 .. POOL_SIZE]
    <3> SUFFICES ASSUME NEW m \in Holders PROVE written[m] \in 0 .. POOL_SIZE
      BY <1>2 DEF CopyInv, CopyTypes
    <3>1. written[m] \in Nat /\ POOL_SIZE \in Nat
      BY <1>2, PoolAssumption DEF CopyInv, CopyTypes
    <3>2. CASE loan[m] = NoLoan
      BY <1>2, <3>1, <3>2 DEF CopyInv, Progress
    <3>3. CASE loan[m] # NoLoan
      <4>1. loan[m].off \in Nat /\ loan[m].size \in Nat /\ loan[m].off + loan[m].size <= POOL_SIZE
        BY <1>2, <3>3, LoanFacts
      <4>2. written[m] <= loan[m].size
        BY <1>2, <3>3 DEF CopyInv, Progress
      <4> QED
        BY <3>1, <4>1, <4>2
    <3> QED
      BY <3>2, <3>3
  <2>2. latest \in Topic!Messages
    BY <1>2 DEF Numbering, CopyInv, CopyTypes, Topic!Messages
  <2> QED
    BY <1>2, <2>1, <2>2 DEF CopyTypeOK, RingInv, WindowInv, CopyInv, CopyTypes, Numbering
<1> QED
  BY <1>1, <1>2, NumberingStep, CopyInvariant, PTL DEF CopySpec
-----------------------------------------------------------------------------
(* The action.  Its types depend on the server's loop: the buffer holds a   *)
(* goal in "accept" only, the queue in "pick" only, and then just one; a    *)
(* topic with a number that can be taken has a message.                     *)

Filled(t) == t.seq # 0 => t.body # Nothing

LoopInv ==
  /\ Filled(goal) /\ Filled(feedback) /\ Filled(result)
  /\ goalCursor[Server] # -1 <=> pc # "down"
  /\ inbox # Nothing <=> pc = "accept"
  /\ job # Nothing <=> pc = "execute"
  /\ DOMAIN goal_queue # {} => pc = "pick" /\ \E g \in GoalIds : DOMAIN goal_queue = {g}

\* What the operations of a topic make of its message and its cursors.
LEMMA GoalTopicMoves ==
  ASSUME ActionTypeOK, Filled(goal)
  PROVE  /\ \A m \in Goals : GoalTopic!Publish(m) =>
               goal' \in GoalTopic!Messages /\ goal'.body = m /\ goalCursor' = goalCursor
         /\ \A r \in {Server} : GoalTopic!Take(r) \/ GoalTopic!Join(r) =>
               goalCursor' = [goalCursor EXCEPT ![r] = goal.seq] /\ goal.seq \in Cursors \ {-1} /\ goal' = goal
         /\ \A r \in {Server} : GoalTopic!Take(r) => goal.body \in Goals
         /\ \A r \in {Server} : GoalTopic!Leave(r) =>
               goalCursor' = [goalCursor EXCEPT ![r] = -1] /\ goal' = goal /\ -1 \in Cursors
<1> USE ActionAssumption DEF ActionTypeOK, Cursors
<1>1. goal.seq \in 0 .. MsgMod - 1 /\ goal.body \in Goals \cup {Nothing}
  BY DEF GoalTopic!Messages, GoalTopic!Number
<1>2. ASSUME NEW m \in Goals, GoalTopic!Publish(m)
      PROVE  goal' \in GoalTopic!Messages /\ goal'.body = m /\ goalCursor' = goalCursor
  BY <1>1, <1>2 DEF GoalTopic!Publish, GoalTopic!Following, GoalTopic!Messages, GoalTopic!Number
<1>3. ASSUME NEW r \in {Server}, GoalTopic!Take(r)
      PROVE  goal.body \in Goals
  <2>1. goalCursor[r] \in -1 .. MsgMod - 1 /\ goalCursor[r] # -1 /\ goalCursor[r] < goal.seq
    BY <1>3 DEF GoalTopic!Take
  <2> QED
    BY <1>1, <2>1 DEF Filled
<1> QED
  BY <1>1, <1>2, <1>3 DEF GoalTopic!Take, GoalTopic!Join, GoalTopic!Leave

LEMMA FeedbackTopicMoves ==
  ASSUME ActionTypeOK, Filled(feedback)
  PROVE  /\ \A m \in Goals : FeedbackTopic!Publish(m) =>
               feedback' \in FeedbackTopic!Messages /\ feedback'.body = m /\ feedbackCursor' = feedbackCursor
         /\ \A r \in Clients : FeedbackTopic!Take(r) \/ FeedbackTopic!Join(r) =>
               feedbackCursor' = [feedbackCursor EXCEPT ![r] = feedback.seq] /\ feedback.seq \in Cursors \ {-1} /\ feedback' = feedback
         /\ \A r \in Clients : FeedbackTopic!Take(r) => feedback.body \in Goals
         /\ \A r \in Clients : FeedbackTopic!Leave(r) =>
               feedbackCursor' = [feedbackCursor EXCEPT ![r] = -1] /\ feedback' = feedback /\ -1 \in Cursors
<1> USE ActionAssumption DEF ActionTypeOK, Cursors
<1>1. feedback.seq \in 0 .. MsgMod - 1 /\ feedback.body \in Goals \cup {Nothing}
  BY DEF FeedbackTopic!Messages, FeedbackTopic!Number
<1>2. ASSUME NEW m \in Goals, FeedbackTopic!Publish(m)
      PROVE  feedback' \in FeedbackTopic!Messages /\ feedback'.body = m /\ feedbackCursor' = feedbackCursor
  BY <1>1, <1>2 DEF FeedbackTopic!Publish, FeedbackTopic!Following, FeedbackTopic!Messages, FeedbackTopic!Number
<1>3. ASSUME NEW r \in Clients, FeedbackTopic!Take(r)
      PROVE  feedback.body \in Goals
  <2>1. feedbackCursor[r] \in -1 .. MsgMod - 1 /\ feedbackCursor[r] # -1 /\ feedbackCursor[r] < feedback.seq
    BY <1>3 DEF FeedbackTopic!Take
  <2> QED
    BY <1>1, <2>1 DEF Filled
<1> QED
  BY <1>1, <1>2, <1>3 DEF FeedbackTopic!Take, FeedbackTopic!Join, FeedbackTopic!Leave

LEMMA ResultTopicMoves ==
  ASSUME ActionTypeOK, Filled(result)
  PROVE  /\ \A m \in Goals : ResultTopic!Publish(m) =>
               result' \in ResultTopic!Messages /\ result'.body = m /\ resultCursor' = resultCursor
         /\ \A r \in Clients : ResultTopic!Take(r) \/ ResultTopic!Join(r) =>
               resultCursor' = [resultCursor EXCEPT ![r] = result.seq] /\ result.seq \in Cursors \ {-1} /\ result' = result
         /\ \A r \in Clients : ResultTopic!Take(r) => result.body \in Goals
         /\ \A r \in Clients : ResultTopic!Leave(r) =>
               resultCursor' = [resultCursor EXCEPT ![r] = -1] /\ result' = result /\ -1 \in Cursors
<1> USE ActionAssumption DEF ActionTypeOK, Cursors
<1>1. result.seq \in 0 .. MsgMod - 1 /\ result.body \in Goals \cup {Nothing}
  BY DEF ResultTopic!Messages, ResultTopic!Number
<1>2. ASSUME NEW m \in Goals, ResultTopic!Publish(m)
      PROVE  result' \in ResultTopic!Messages /\ result'.body = m /\ resultCursor' = resultCursor
  BY <1>1, <1>2 DEF ResultTopic!Publish, ResultTopic!Following, ResultTopic!Messages, ResultTopic!Number
<1>3. ASSUME NEW r \in Clients, ResultTopic!Take(r)
      PROVE  result.body \in Goals
  <2>1. resultCursor[r] \in -1 .. MsgMod - 1 /\ resultCursor[r] # -1 /\ resultCursor[r] < result.seq
    BY <1>3 DEF ResultTopic!Take
  <2> QED
    BY <1>1, <2>1 DEF Filled
<1> QED
  BY <1>1, <1>2, <1>3 DEF ResultTopic!Take, ResultTopic!Join, ResultTopic!Leave

LEMMA ActionTypeInit == ActionInit => ActionTypeOK /\ LoopInv
<1> SUFFICES ASSUME ActionInit PROVE ActionTypeOK /\ LoopInv
  OBVIOUS
<1> USE ActionAssumption
<1>1. /\ goal \in GoalTopic!Messages /\ feedback \in FeedbackTopic!Messages
      /\ result \in ResultTopic!Messages
      /\ Filled(goal) /\ Filled(feedback) /\ Filled(result)
  BY DEF ActionInit, GoalTopic!Init, FeedbackTopic!Init, ResultTopic!Init, GoalTopic!Messages,
     FeedbackTopic!Messages, ResultTopic!Messages, GoalTopic!Number, FeedbackTopic!Number,
     ResultTopic!Number, Filled
<1>2. /\ goalCursor \in [{Server} -> Cursors] /\ goalCursor[Server] = -1
      /\ feedbackCursor \in [Clients -> Cursors] /\ resultCursor \in [Clients -> Cursors]
  BY DEF ActionInit, GoalTopic!Init, FeedbackTopic!Init, ResultTopic!Init, Cursors
<1>3. DOMAIN goal_queue = {}
  BY DEF ActionInit
<1>4. /\ next_goal_id \in [Clients -> 0 .. MaxGoals] /\ starts \in 0 .. MaxStarts
      /\ feedbacks \in [Clients -> [GoalIds -> Goals \cup {Nothing}]]
      /\ results \in [Clients -> [GoalIds -> Goals \cup {Nothing}]]
      /\ executed \in [Goals -> Nat] /\ life \in [Clients -> {"absent", "here", "gone"}]
  BY DEF ActionInit
<1>5. pc = "down" /\ running = FALSE /\ inbox = Nothing /\ job = Nothing
  BY DEF ActionInit
<1> QED
  BY <1>1, <1>2, <1>3, <1>4, <1>5 DEF ActionTypeOK, LoopInv

\* The queue is empty, or holds one goal; the smallest number is that of it.
LEMMA QueuePick ==
  ASSUME ActionTypeOK, LoopInv, DOMAIN goal_queue # {}
  PROVE  LET g == CHOOSE i \in DOMAIN goal_queue : \A j \in DOMAIN goal_queue : i <= j
         IN  /\ DOMAIN goal_queue = {g} /\ g \in GoalIds /\ goal_queue[g] \in Goals
             /\ DOMAIN Restrict(goal_queue, DOMAIN goal_queue \ {g}) = {}
<1>1. PICK h \in GoalIds : DOMAIN goal_queue = {h}
  BY DEF LoopInv
<1>2. h <= h
  BY ActionAssumption DEF GoalIds
<1> DEFINE g == CHOOSE i \in DOMAIN goal_queue : \A j \in DOMAIN goal_queue : i <= j
<1>3. g = h
  BY <1>1, <1>2
<1> HIDE DEF g
<1>4. DOMAIN Restrict(goal_queue, DOMAIN goal_queue \ {g}) = DOMAIN goal_queue \ {g}
  BY DEF Restrict
<1> QED
  BY <1>1, <1>3, <1>4 DEF g, ActionTypeOK

LEMMA ActionTypeServer ==
  ASSUME ActionTypeOK, LoopInv, Start \/ ProcessLoop \/ Shutdown \/ Crash
  PROVE  ActionTypeOK' /\ LoopInv'
<1> USE ActionAssumption
<1>0. Server \in {Server} /\ -1 \in Cursors
  BY DEF Cursors
<1>1. CASE Start
  <2>1. /\ goalCursor' = [goalCursor EXCEPT ![Server] = goal.seq]
        /\ goal.seq \in Cursors \ {-1} /\ goal' = goal
    BY <1>0, <1>1, GoalTopicMoves DEF Start, LoopInv
  <2> QED
    BY <1>1, <2>1 DEF Start, ActionTypeOK, LoopInv, client, Filled
<1>2. CASE ReceiveGoal
  <2>1. /\ goalCursor' = [goalCursor EXCEPT ![Server] = goal.seq]
        /\ goal.seq \in Cursors \ {-1} /\ goal' = goal /\ goal.body \in Goals
    BY <1>0, <1>2, GoalTopicMoves DEF ReceiveGoal, LoopInv
  <2> QED
    BY <1>2, <2>1 DEF ReceiveGoal, ActionTypeOK, LoopInv, client, Filled
<1>3. CASE Loop \/ ReceiveNothing
  BY <1>3 DEF Loop, ReceiveNothing, ActionTypeOK, LoopInv, topics, client, Filled
<1>4. CASE Accept
  <2>1. inbox \in Goals /\ inbox.id \in GoalIds /\ DOMAIN goal_queue = {}
    BY <1>4 DEF Accept, ActionTypeOK, LoopInv, Goals
  <2>2. DOMAIN goal_queue' = {inbox.id} /\ goal_queue'[inbox.id] = inbox
    BY <1>4, <2>1 DEF Accept
  <2> QED
    BY <1>4, <2>1, <2>2 DEF Accept, ActionTypeOK, LoopInv, topics, client, Filled
<1>5. CASE Pick
  <2>1. CASE DOMAIN goal_queue = {}
    BY <1>5, <2>1 DEF Pick, ActionTypeOK, LoopInv, topics, client, Filled
  <2>2. CASE DOMAIN goal_queue # {}
    <3> DEFINE g == CHOOSE i \in DOMAIN goal_queue : \A j \in DOMAIN goal_queue : i <= j
    <3>1. /\ goal_queue[g] \in Goals
          /\ DOMAIN Restrict(goal_queue, DOMAIN goal_queue \ {g}) = {}
      BY <2>2, QueuePick
    <3>2. /\ job' = goal_queue[g] /\ pc' = "execute"
          /\ goal_queue' = Restrict(goal_queue, DOMAIN goal_queue \ {g})
          /\ executed' = [executed EXCEPT ![goal_queue[g]] = @ + 1]
          /\ UNCHANGED <<topics, running, inbox, starts, client>>
          /\ pc = "pick"
      BY <1>5, <2>2 DEF Pick
    <3> HIDE DEF g
    <3>3. DOMAIN goal_queue' = {}
      BY <3>1, <3>2
    <3>4. executed' \in [Goals -> Nat]
      BY <3>1, <3>2 DEF ActionTypeOK
    <3> QED
      BY <3>1, <3>2, <3>3, <3>4 DEF ActionTypeOK, LoopInv, topics, client, Filled
  <2> QED
    BY <2>1, <2>2
<1>6. CASE PublishFeedback
  <2>1. job \in Goals
    BY <1>6 DEF PublishFeedback, ActionTypeOK, LoopInv
  <2>2. /\ feedback' \in FeedbackTopic!Messages /\ feedback'.body = job
        /\ feedbackCursor' = feedbackCursor
    BY <1>6, <2>1, FeedbackTopicMoves DEF PublishFeedback, LoopInv
  <2> QED
    BY <1>6, <2>1, <2>2 DEF PublishFeedback, ActionTypeOK, LoopInv, server, client, Filled
<1>7. CASE PublishResult
  <2>1. job \in Goals
    BY <1>7 DEF PublishResult, ActionTypeOK, LoopInv
  <2>2. /\ result' \in ResultTopic!Messages /\ result'.body = job /\ resultCursor' = resultCursor
    BY <1>7, <2>1, ResultTopicMoves DEF PublishResult, LoopInv
  <2> QED
    BY <1>7, <2>1, <2>2 DEF PublishResult, ActionTypeOK, LoopInv, client, Filled
<1>8. CASE Shutdown
  BY <1>8 DEF Shutdown, ActionTypeOK, LoopInv, topics, client, Filled
<1>9. CASE Exit
  <2>1. goalCursor' = [goalCursor EXCEPT ![Server] = -1] /\ goal' = goal
    BY <1>0, <1>9, GoalTopicMoves DEF Exit, LoopInv
  <2>2. DOMAIN goal_queue' = {}
    BY <1>9 DEF Exit
  <2> QED
    BY <1>0, <1>9, <2>1, <2>2 DEF Exit, ActionTypeOK, LoopInv, client, Filled
<1>10. CASE Crash
  <2>1. DOMAIN goal_queue' = {}
    BY <1>10 DEF Crash
  <2> QED
    BY <1>0, <1>10, <2>1 DEF Crash, ActionTypeOK, LoopInv, client, Filled
<1> QED
  BY <1>1, <1>2, <1>3, <1>4, <1>5, <1>6, <1>7, <1>8, <1>9, <1>10 DEF ProcessLoop

LEMMA ActionTypeClient ==
  ASSUME ActionTypeOK, LoopInv, NEW c \in Clients,
         \/ Construct(c) \/ sendGoal(c) \/ Destroy(c) \/ HearFeedback(c) \/ HearResult(c)
         \/ \E g \in GoalIds : getResult(c, g) \/ getFeedback(c, g)
  PROVE  ActionTypeOK' /\ LoopInv'
<1> USE ActionAssumption
<1>1. CASE Construct(c)
  <2>1. /\ feedbackCursor' = [feedbackCursor EXCEPT ![c] = feedback.seq]
        /\ feedback.seq \in Cursors /\ feedback' = feedback
    BY <1>1, FeedbackTopicMoves DEF Construct, LoopInv
  <2>2. /\ resultCursor' = [resultCursor EXCEPT ![c] = result.seq]
        /\ result.seq \in Cursors /\ result' = result
    BY <1>1, ResultTopicMoves DEF Construct, LoopInv
  <2> QED
    BY <1>1, <2>1, <2>2 DEF Construct, ActionTypeOK, LoopInv, server, Filled
<1>2. CASE sendGoal(c)
  <2> DEFINE m == [from |-> c, id |-> next_goal_id[c]]
  <2>1. m \in Goals /\ next_goal_id[c] + 1 \in 0 .. MaxGoals
    BY <1>2 DEF sendGoal, ActionTypeOK, Goals, GoalIds
  <2>2. goal' \in GoalTopic!Messages /\ goal'.body = m /\ goalCursor' = goalCursor
    BY <1>2, <2>1, GoalTopicMoves DEF sendGoal, LoopInv
  <2> HIDE DEF m
  <2> QED
    BY <1>2, <2>1, <2>2 DEF sendGoal, ActionTypeOK, LoopInv, server, Filled
<1>3. CASE Destroy(c)
  <2>1. /\ feedbackCursor' = [feedbackCursor EXCEPT ![c] = -1] /\ feedback' = feedback
        /\ resultCursor' = [resultCursor EXCEPT ![c] = -1] /\ result' = result
        /\ -1 \in Cursors
    BY <1>3, FeedbackTopicMoves, ResultTopicMoves DEF Destroy, LoopInv
  <2> QED
    BY <1>3, <2>1 DEF Destroy, ActionTypeOK, LoopInv, server, Filled
<1>4. CASE HearFeedback(c)
  <2>1. /\ feedbackCursor' = [feedbackCursor EXCEPT ![c] = feedback.seq]
        /\ feedback.seq \in Cursors /\ feedback' = feedback /\ feedback.body \in Goals
    BY <1>4, FeedbackTopicMoves DEF HearFeedback, LoopInv
  <2> QED
    BY <1>4, <2>1 DEF HearFeedback, ActionTypeOK, LoopInv, server, Filled
<1>5. CASE HearResult(c)
  <2>1. /\ resultCursor' = [resultCursor EXCEPT ![c] = result.seq]
        /\ result.seq \in Cursors /\ result' = result /\ result.body \in Goals
    BY <1>5, ResultTopicMoves DEF HearResult, LoopInv
  <2> QED
    BY <1>5, <2>1 DEF HearResult, ActionTypeOK, LoopInv, server, Filled
<1>6. ASSUME NEW g \in GoalIds, getResult(c, g) PROVE ActionTypeOK' /\ LoopInv'
  BY <1>6 DEF getResult, ActionTypeOK, LoopInv, topics, server, Filled
<1>7. ASSUME NEW g \in GoalIds, getFeedback(c, g) PROVE ActionTypeOK' /\ LoopInv'
  BY <1>7 DEF getFeedback, ActionTypeOK, LoopInv, topics, server, Filled
<1> QED
  BY <1>1, <1>2, <1>3, <1>4, <1>5, <1>6, <1>7

LEMMA ActionTypeInvariant == ActionSpec => [](ActionTypeOK /\ LoopInv)
<1>1. ActionTypeOK /\ LoopInv /\ [ActionNext]_ActionVars => (ActionTypeOK /\ LoopInv)'
  <2> SUFFICES ASSUME ActionTypeOK, LoopInv, [ActionNext]_ActionVars PROVE (ActionTypeOK /\ LoopInv)'
    OBVIOUS
  <2>1. CASE ActionNext
    BY <2>1, ActionTypeServer, ActionTypeClient DEF ActionNext
  <2>2. CASE UNCHANGED ActionVars
    BY <2>2 DEF ActionVars, topics, server, client, ActionTypeOK, LoopInv, Filled
  <2> QED
    BY <2>1, <2>2
<1> QED
  BY <1>1, ActionTypeInit, PTL DEF ActionSpec

\* The server's loop, its clients and their three topics keep their types.
THEOREM ActionTypeCorrect == ActionSpec => []ActionTypeOK
BY ActionTypeInvariant, PTL

\* goal_queue_ never holds two goals: the loop looks for a new one only when
\* it has taken out the last.
THEOREM ActionQueueOfOne == ActionSpec => []QueueOfOne
<1>1. LoopInv => QueueOfOne
  <2> SUFFICES ASSUME LoopInv PROVE Cardinality(DOMAIN goal_queue) <= 1
    BY DEF QueueOfOne
  <2>1. CASE DOMAIN goal_queue = {}
    BY <2>1, FS_EmptySet
  <2>2. ASSUME NEW g, DOMAIN goal_queue = {g} PROVE Cardinality(DOMAIN goal_queue) <= 1
    BY <2>2, FS_Singleton
  <2> QED
    BY <2>1, <2>2 DEF LoopInv
<1> QED
  BY <1>1, ActionTypeInvariant, PTL

-----------------------------------------------------------------------------
(* Wherever a goal is met - in a topic, with the server, in a dictionary -  *)
(* it has been sent, and it is filed under its own number.                  *)

GoalSent(m) == m.id < next_goal_id[m.from]

Known(x) == x # Nothing => GoalSent(x)

Filed(table) ==
  \A c \in Clients, g \in GoalIds :
     table[c][g] # Nothing => table[c][g].id = g /\ GoalSent(table[c][g])

SentInv ==
  /\ Known(goal.body) /\ Known(feedback.body) /\ Known(result.body)
  /\ Known(inbox) /\ Known(job)
  /\ \A g \in DOMAIN goal_queue : goal_queue[g].id = g /\ GoalSent(goal_queue[g])
  /\ Filed(results) /\ Filed(feedbacks)

LEMMA SentStays ==
  ASSUME ActionTypeOK, NEW c \in Clients, next_goal_id' = [next_goal_id EXCEPT ![c] = @ + 1],
         NEW k \in Goals, GoalSent(k)
  PROVE  GoalSent(k)'
<1>1. /\ k.from \in Clients /\ k.id \in Nat
      /\ next_goal_id[k.from] \in Nat /\ next_goal_id[c] \in Nat
  BY ActionAssumption DEF Goals, GoalIds, ActionTypeOK
<1>2. next_goal_id'[k.from] >= next_goal_id[k.from] /\ next_goal_id'[k.from] \in Nat
  BY <1>1 DEF ActionTypeOK
<1> QED
  BY <1>1, <1>2 DEF GoalSent

LEMMA SentServer ==
  ASSUME ActionTypeOK, LoopInv, SentInv, Start \/ ProcessLoop \/ Shutdown \/ Crash
  PROVE  SentInv'
<1>0. /\ UNCHANGED <<next_goal_id, results, feedbacks>>
      /\ \A m : GoalSent(m)' <=> GoalSent(m)
  <2>1. UNCHANGED <<next_goal_id, results, feedbacks>>
    BY DEF Start, ProcessLoop, Shutdown, Crash, Loop, ReceiveGoal, ReceiveNothing, Accept, Pick,
       PublishFeedback, PublishResult, Exit, client
  <2> QED
    BY <2>1 DEF GoalSent
<1>1. Filed(results)' /\ Filed(feedbacks)'
  BY <1>0 DEF SentInv, Filed
<1>2. Server \in {Server}
  OBVIOUS
<1>3. CASE Start
  BY <1>0, <1>1, <1>2, <1>3, GoalTopicMoves DEF Start, SentInv, Known, LoopInv
<1>4. CASE ReceiveGoal
  BY <1>0, <1>1, <1>2, <1>4, GoalTopicMoves DEF ReceiveGoal, SentInv, Known, LoopInv
<1>5. CASE Loop \/ ReceiveNothing \/ Shutdown
  BY <1>0, <1>1, <1>5 DEF Loop, ReceiveNothing, Shutdown, SentInv, Known, topics
<1>6. CASE Accept
  <2>1. inbox # Nothing /\ GoalSent(inbox)
    BY <1>6 DEF Accept, LoopInv, SentInv, Known
  <2>2. \A g \in DOMAIN goal_queue' : goal_queue'[g].id = g /\ GoalSent(goal_queue'[g])
    BY <1>6, <2>1 DEF Accept, SentInv
  <2> QED
    BY <1>0, <1>1, <1>6, <2>2 DEF Accept, SentInv, Known, topics
<1>7. CASE Pick
  <2>1. CASE DOMAIN goal_queue = {}
    BY <1>0, <1>1, <1>7, <2>1 DEF Pick, SentInv, Known, topics
  <2>2. CASE DOMAIN goal_queue # {}
    <3> DEFINE g == CHOOSE i \in DOMAIN goal_queue : \A j \in DOMAIN goal_queue : i <= j
    <3>1. /\ DOMAIN goal_queue = {g}
          /\ DOMAIN Restrict(goal_queue, DOMAIN goal_queue \ {g}) = {}
      BY <2>2, QueuePick
    <3>2. /\ job' = goal_queue[g] /\ inbox' = inbox
          /\ goal_queue' = Restrict(goal_queue, DOMAIN goal_queue \ {g})
          /\ UNCHANGED topics
      BY <1>7, <2>2 DEF Pick
    <3> HIDE DEF g
    <3>3. GoalSent(goal_queue[g])
      BY <3>1 DEF SentInv
    <3>4. DOMAIN goal_queue' = {}
      BY <3>1, <3>2
    <3> QED
      BY <1>0, <1>1, <3>2, <3>3, <3>4 DEF SentInv, Known, topics
  <2> QED
    BY <2>1, <2>2
<1>8. CASE PublishFeedback
  <2>1. job \in Goals
    BY <1>8 DEF PublishFeedback, ActionTypeOK, LoopInv
  <2>2. feedback'.body = job
    BY <1>8, <2>1, FeedbackTopicMoves DEF PublishFeedback, LoopInv
  <2> QED
    BY <1>0, <1>1, <1>8, <2>2 DEF PublishFeedback, SentInv, Known, server
<1>9. CASE PublishResult
  <2>1. job \in Goals
    BY <1>9 DEF PublishResult, ActionTypeOK, LoopInv
  <2>2. result'.body = job
    BY <1>9, <2>1, ResultTopicMoves DEF PublishResult, LoopInv
  <2> QED
    BY <1>0, <1>1, <1>9, <2>2 DEF PublishResult, SentInv, Known
<1>10. CASE Exit
  <2>1. DOMAIN goal_queue' = {} /\ goal' = goal
    BY <1>2, <1>10, GoalTopicMoves DEF Exit, LoopInv
  <2> QED
    BY <1>0, <1>1, <1>10, <2>1 DEF Exit, SentInv, Known
<1>11. CASE Crash
  <2>1. DOMAIN goal_queue' = {}
    BY <1>11 DEF Crash
  <2> QED
    BY <1>0, <1>1, <1>11, <2>1 DEF Crash, SentInv, Known
<1> QED
  BY <1>3, <1>4, <1>5, <1>6, <1>7, <1>8, <1>9, <1>10, <1>11 DEF ProcessLoop

LEMMA SentClient ==
  ASSUME ActionTypeOK, LoopInv, SentInv, NEW c \in Clients,
         \/ Construct(c) \/ sendGoal(c) \/ Destroy(c) \/ HearFeedback(c) \/ HearResult(c)
         \/ \E g \in GoalIds : getResult(c, g) \/ getFeedback(c, g)
  PROVE  SentInv'
<1>1. CASE Construct(c)
  BY <1>1, FeedbackTopicMoves, ResultTopicMoves
  DEF Construct, SentInv, LoopInv, Known, Filed, GoalSent, server
<1>2. CASE sendGoal(c)
  <2> DEFINE m == [from |-> c, id |-> next_goal_id[c]]
  <2>1. m \in Goals
    BY <1>2, ActionAssumption DEF sendGoal, ActionTypeOK, Goals, GoalIds
  <2>2. goal'.body = m
    BY <1>2, <2>1, GoalTopicMoves DEF sendGoal, LoopInv
  <2>3. /\ next_goal_id' = [next_goal_id EXCEPT ![c] = @ + 1]
        /\ UNCHANGED <<feedback, result, inbox, job, goal_queue, results, feedbacks>>
    BY <1>2 DEF sendGoal, server
  <2>4. \A k \in Goals : GoalSent(k) => GoalSent(k)'
    BY <2>3, SentStays
  <2>5. m.id < next_goal_id'[m.from]
    <3>1. next_goal_id[c] \in Nat /\ next_goal_id'[c] = next_goal_id[c] + 1
      BY <2>3, ActionAssumption DEF ActionTypeOK
    <3> QED
      BY <3>1
  <2> HIDE DEF m
  <2>6. \A x \in Goals \cup {Nothing} : Known(x) => Known(x)'
    BY <2>4 DEF Known
  <2>7. Known(goal.body)'
    BY <2>2, <2>5 DEF Known, GoalSent
  <2>8. Known(inbox)' /\ Known(job)'
    <3>1. \A x \in Goals \cup {Nothing} : Known(x) => (x # Nothing => x.id < next_goal_id'[x.from])
      BY <2>6 DEF Known, GoalSent
    <3> QED
      BY <2>3, <3>1 DEF SentInv, ActionTypeOK, Known, GoalSent
  <2>9. Known(feedback.body)' /\ Known(result.body)'
    BY <2>3, <2>6 DEF SentInv, ActionTypeOK, FeedbackTopic!Messages, ResultTopic!Messages
  <2>10. \A g \in DOMAIN goal_queue' : goal_queue'[g].id = g /\ GoalSent(goal_queue[g])'
    BY <2>3, <2>4 DEF SentInv, ActionTypeOK
  <2>11. Filed(results)' /\ Filed(feedbacks)'
    BY <2>3, <2>4 DEF SentInv, ActionTypeOK, Filed
  <2> QED
    BY <2>3, <2>7, <2>8, <2>9, <2>10, <2>11 DEF SentInv
<1>3. ASSUME UNCHANGED <<topics, server, next_goal_id>>
             \/ UNCHANGED <<goal, feedback, result, server, next_goal_id>>,
             Filed(results)', Filed(feedbacks)'
      PROVE  SentInv'
  BY <1>3 DEF SentInv, Known, GoalSent, topics, server
<1>4. ASSUME UNCHANGED next_goal_id PROVE \A m : GoalSent(m)' <=> GoalSent(m)
  BY <1>4 DEF GoalSent
<1>5. CASE Destroy(c)
  <2>1. /\ UNCHANGED <<goal, feedback, result, server, next_goal_id>>
        /\ results' = [results EXCEPT ![c] = [g \in GoalIds |-> Nothing]]
        /\ feedbacks' = [feedbacks EXCEPT ![c] = [g \in GoalIds |-> Nothing]]
    BY <1>5, FeedbackTopicMoves, ResultTopicMoves DEF Destroy, LoopInv
  <2>2. Filed(results)'
    BY <1>4, <2>1 DEF SentInv, Filed, ActionTypeOK
  <2>3. Filed(feedbacks)'
    BY <1>4, <2>1 DEF SentInv, Filed, ActionTypeOK
  <2> QED
    BY <1>3, <2>1, <2>2, <2>3
<1>6. CASE HearFeedback(c)
  <2> DEFINE m == feedback.body
  <2>1. m \in Goals /\ m.id \in GoalIds /\ m # Nothing /\ feedback' = feedback
    BY <1>6, FeedbackTopicMoves, ActionAssumption DEF HearFeedback, LoopInv, Goals
  <2>2. /\ feedbacks' = [feedbacks EXCEPT ![c][m.id] = m]
        /\ UNCHANGED <<goal, feedback, result, server, next_goal_id, results>>
    BY <1>6, <2>1 DEF HearFeedback
  <2>3. GoalSent(m)
    BY <2>1 DEF SentInv, Known
  <2> HIDE DEF m
  <2>4. Filed(feedbacks)'
    BY <1>4, <2>1, <2>2, <2>3 DEF SentInv, Filed, ActionTypeOK
  <2>5. Filed(results)'
    BY <1>4, <2>2 DEF SentInv, Filed
  <2> QED
    BY <1>3, <2>2, <2>4, <2>5
<1>7. CASE HearResult(c)
  <2> DEFINE m == result.body
  <2>1. m \in Goals /\ m.id \in GoalIds /\ m # Nothing /\ result' = result
    BY <1>7, ResultTopicMoves, ActionAssumption DEF HearResult, LoopInv, Goals
  <2>2. /\ results' = [results EXCEPT ![c][m.id] = m]
        /\ UNCHANGED <<goal, feedback, result, server, next_goal_id, feedbacks>>
    BY <1>7, <2>1 DEF HearResult
  <2>3. GoalSent(m)
    BY <2>1 DEF SentInv, Known
  <2> HIDE DEF m
  <2>4. Filed(results)'
    BY <1>4, <2>1, <2>2, <2>3 DEF SentInv, Filed, ActionTypeOK
  <2>5. Filed(feedbacks)'
    BY <1>4, <2>2 DEF SentInv, Filed
  <2> QED
    BY <1>3, <2>2, <2>4, <2>5
<1>8. ASSUME NEW g \in GoalIds, getResult(c, g) PROVE SentInv'
  <2>1. Filed(results)' /\ Filed(feedbacks)'
    BY <1>4, <1>8 DEF getResult, SentInv, Filed, ActionTypeOK
  <2> QED
    BY <1>3, <1>8, <2>1 DEF getResult
<1>9. ASSUME NEW g \in GoalIds, getFeedback(c, g) PROVE SentInv'
  <2>1. Filed(results)' /\ Filed(feedbacks)'
    BY <1>4, <1>9 DEF getFeedback, SentInv, Filed, ActionTypeOK
  <2> QED
    BY <1>3, <1>9, <2>1 DEF getFeedback
<1> QED
  BY <1>1, <1>2, <1>5, <1>6, <1>7, <1>8, <1>9

LEMMA SentInvariant == ActionSpec => [](ActionTypeOK /\ SentInv)
<1>1. ActionInit => SentInv
  <2> SUFFICES ASSUME ActionInit PROVE SentInv
    OBVIOUS
  <2>1. DOMAIN goal_queue = {} /\ inbox = Nothing /\ job = Nothing
    BY DEF ActionInit
  <2>2. goal.body = Nothing /\ feedback.body = Nothing /\ result.body = Nothing
    BY DEF ActionInit, GoalTopic!Init, FeedbackTopic!Init, ResultTopic!Init
  <2>3. Filed(results) /\ Filed(feedbacks)
    BY DEF ActionInit, Filed
  <2> QED
    BY <2>1, <2>2, <2>3 DEF SentInv, Known
<1>2. ActionTypeOK /\ LoopInv /\ SentInv /\ [ActionNext]_ActionVars => SentInv'
  <2> SUFFICES ASSUME ActionTypeOK, LoopInv, SentInv, [ActionNext]_ActionVars PROVE SentInv'
    OBVIOUS
  <2>1. CASE ActionNext
    BY <2>1, SentServer, SentClient DEF ActionNext
  <2>2. CASE UNCHANGED ActionVars
    BY <2>2 DEF ActionVars, topics, server, client, SentInv, Known, Filed, GoalSent
  <2> QED
    BY <2>1, <2>2
<1> QED
  BY <1>1, <1>2, ActionTypeInvariant, PTL DEF ActionSpec

\* A number that no other client has reached is as good as an identity: what a
\* client finds under it is the answer to its own goal.
THEOREM ActionOwnAnswers == ActionSpec => []OwnAnswers
<1>1. ActionTypeOK /\ SentInv => OwnAnswers
  <2> SUFFICES ASSUME ActionTypeOK, SentInv, NEW c \in Clients, NEW g \in GoalIds,
                      \A d \in Clients \ {c} : next_goal_id[d] <= g
               PROVE  /\ results[c][g] \in {Nothing, [from |-> c, id |-> g]}
                      /\ feedbacks[c][g] \in {Nothing, [from |-> c, id |-> g]}
                      /\ results[c][g] # Nothing => g < next_goal_id[c]
    BY DEF OwnAnswers
  <2>1. ASSUME NEW m \in Goals, m.id = g, GoalSent(m)
        PROVE  m = [from |-> c, id |-> g] /\ g < next_goal_id[c]
    <3>1. m.from \in Clients /\ m.id < next_goal_id[m.from] /\ g \in Nat
      BY <2>1, ActionAssumption DEF Goals, GoalIds, GoalSent
    <3>2. next_goal_id[m.from] \in Nat
      BY <3>1, ActionAssumption DEF ActionTypeOK
    <3>3. m.from = c
      BY <2>1, <3>1, <3>2
    <3> QED
      BY <2>1, <3>1, <3>3 DEF Goals
  <2>2. results[c][g] \in Goals \cup {Nothing} /\ feedbacks[c][g] \in Goals \cup {Nothing}
    BY DEF ActionTypeOK
  <2> QED
    BY <2>1, <2>2 DEF SentInv, Filed
<1> QED
  BY <1>1, SentInvariant, PTL

-----------------------------------------------------------------------------
(* A goal on its way to the server has not been executed, and the one in    *)
(* the topic is not on its way a second time: a server that can take it has *)
(* not taken it, and one that starts aligns itself with the topic.          *)

Fresh(m) == executed[m] = 0

FreshInv ==
  /\ \A m \in Goals : executed[m] <= 1 /\ (executed[m] # 0 => GoalSent(m))
  /\ inbox # Nothing => Fresh(inbox)
  /\ \A g \in DOMAIN goal_queue : Fresh(goal_queue[g])
  /\ pc # "down" /\ goalCursor[Server] < goal.seq =>
       /\ Fresh(goal.body) /\ inbox # goal.body
       /\ \A g \in DOMAIN goal_queue : goal_queue[g] # goal.body

LEMMA FreshServer ==
  ASSUME ActionTypeOK, LoopInv, SentInv, FreshInv, Start \/ ProcessLoop \/ Shutdown \/ Crash
  PROVE  FreshInv'
<1>1. \A m : GoalSent(m)' <=> GoalSent(m)
  <2>1. UNCHANGED next_goal_id
    BY DEF Start, ProcessLoop, Shutdown, Crash, Loop, ReceiveGoal, ReceiveNothing, Accept, Pick,
       PublishFeedback, PublishResult, Exit, client
  <2> QED
    BY <2>1 DEF GoalSent
<1>2. Server \in {Server} /\ goal.seq \in Int
  BY ActionAssumption DEF ActionTypeOK, GoalTopic!Messages, GoalTopic!Number
<1>3. ASSUME Start \/ ReceiveGoal
      PROVE  /\ UNCHANGED <<executed, goal_queue>> /\ goal' = goal
             /\ goalCursor'[Server] = goal.seq
  <2>1. GoalTopic!Take(Server) \/ GoalTopic!Join(Server)
    BY <1>3 DEF Start, ReceiveGoal
  <2>2. goalCursor' = [goalCursor EXCEPT ![Server] = goal.seq] /\ goal' = goal
    BY <1>2, <2>1, GoalTopicMoves DEF LoopInv
  <2> QED
    BY <1>3, <2>2 DEF Start, ReceiveGoal, ActionTypeOK
<1>4. CASE Start
  <2>1. inbox' = inbox
    BY <1>4 DEF Start
  <2> QED
    BY <1>1, <1>2, <1>3, <1>4, <2>1 DEF FreshInv, Fresh
<1>5. CASE ReceiveGoal
  <2>1. pc # "down" /\ goalCursor[Server] < goal.seq /\ inbox' = goal.body
    BY <1>5 DEF ReceiveGoal, GoalTopic!Take
  <2> QED
    BY <1>1, <1>2, <1>3, <1>5, <2>1 DEF FreshInv, Fresh
<1>6. CASE Loop \/ ReceiveNothing \/ Shutdown
  BY <1>1, <1>6 DEF Loop, ReceiveNothing, Shutdown, FreshInv, Fresh, topics
<1>7. CASE Accept
  <2>1. /\ inbox # Nothing /\ DOMAIN goal_queue = {} /\ pc = "accept"
        /\ DOMAIN goal_queue' = {inbox.id} /\ goal_queue'[inbox.id] = inbox
    BY <1>7 DEF Accept, LoopInv
  <2>2. UNCHANGED <<topics, executed>> /\ inbox' = Nothing /\ pc' = "pick"
    BY <1>7 DEF Accept
  <2>3. pc' # "down" /\ goalCursor'[Server] < goal'.seq => goal.body # Nothing
    BY <1>2, <2>1, <2>2 DEF LoopInv, Filled, topics, ActionTypeOK, Cursors
  <2> QED
    BY <1>1, <2>1, <2>2, <2>3 DEF FreshInv, Fresh, topics
<1>8. CASE Pick
  <2>1. CASE DOMAIN goal_queue = {}
    BY <1>1, <1>8, <2>1 DEF Pick, FreshInv, Fresh, topics
  <2>2. CASE DOMAIN goal_queue # {}
    <3> DEFINE g == CHOOSE i \in DOMAIN goal_queue : \A j \in DOMAIN goal_queue : i <= j
               m == goal_queue[g]
    <3>1. /\ DOMAIN goal_queue = {g} /\ m \in Goals
          /\ DOMAIN Restrict(goal_queue, DOMAIN goal_queue \ {g}) = {}
      BY <2>2, QueuePick
    <3>2. /\ goal_queue' = Restrict(goal_queue, DOMAIN goal_queue \ {g})
          /\ executed' = [executed EXCEPT ![m] = @ + 1]
          /\ UNCHANGED <<topics, inbox>> /\ pc = "pick"
      BY <1>8, <2>2 DEF Pick
    <3> HIDE DEF g
    <3>3. DOMAIN goal_queue' = {}
      BY <3>1, <3>2
    <3>4. GoalSent(m) /\ Fresh(m) /\ inbox = Nothing
      BY <3>1, <3>2 DEF SentInv, FreshInv, LoopInv
    <3>5. goalCursor[Server] < goal.seq => goal.body # m
      BY <3>1, <3>2 DEF FreshInv
    <3> HIDE DEF m
    <3>6. \A k \in Goals : executed'[k] = IF k = m THEN 1 ELSE executed[k]
      BY <3>1, <3>2, <3>4 DEF ActionTypeOK, Fresh
    <3>7. \A k \in Goals : executed'[k] <= 1 /\ (executed'[k] # 0 => GoalSent(k))
      BY <3>4, <3>6 DEF FreshInv
    <3>8. goalCursor[Server] < goal.seq => Fresh(goal.body)'
      <4>1. goalCursor[Server] < goal.seq => goal.body \in Goals
        BY <1>2, <3>2 DEF LoopInv, Filled, ActionTypeOK, GoalTopic!Messages, Cursors
      <4> QED
        BY <3>2, <3>5, <3>6, <4>1 DEF FreshInv, Fresh, topics
    <3>9. goalCursor[Server] < goal.seq => inbox # goal.body
      BY <3>2 DEF FreshInv
    <3> QED
      BY <1>1, <3>2, <3>3, <3>4, <3>7, <3>8, <3>9 DEF FreshInv, topics
  <2> QED
    BY <2>1, <2>2
<1>9. CASE PublishFeedback
  BY <1>1, <1>9 DEF PublishFeedback, FreshInv, Fresh, server
<1>10. CASE PublishResult
  BY <1>1, <1>10 DEF PublishResult, FreshInv, Fresh
<1>11. ASSUME Exit \/ Crash
       PROVE  pc' = "down" /\ UNCHANGED executed /\ DOMAIN goal_queue' = {} /\ inbox' \in {inbox, Nothing}
  BY <1>11 DEF Exit, Crash
<1>12. CASE Exit \/ Crash
  BY <1>1, <1>11, <1>12 DEF FreshInv, Fresh
<1> QED
  BY <1>4, <1>5, <1>6, <1>7, <1>8, <1>9, <1>10, <1>12 DEF ProcessLoop

LEMMA FreshClient ==
  ASSUME ActionTypeOK, LoopInv, SentInv, FreshInv, NEW c \in Clients,
         \/ Construct(c) \/ sendGoal(c) \/ Destroy(c) \/ HearFeedback(c) \/ HearResult(c)
         \/ \E g \in GoalIds : getResult(c, g) \/ getFeedback(c, g)
  PROVE  FreshInv'
<1>1. CASE sendGoal(c)
  <2> DEFINE m == [from |-> c, id |-> next_goal_id[c]]
  <2>1. m \in Goals /\ next_goal_id[c] \in Nat
    BY <1>1, ActionAssumption DEF sendGoal, ActionTypeOK, Goals, GoalIds
  <2>2. goal'.body = m
    BY <1>1, <2>1, GoalTopicMoves DEF sendGoal, LoopInv
  <2>3. /\ next_goal_id' = [next_goal_id EXCEPT ![c] = @ + 1]
        /\ UNCHANGED <<inbox, goal_queue, executed>>
    BY <1>1 DEF sendGoal, server
  <2>4. ~GoalSent(m)
    BY <2>1 DEF GoalSent
  <2> HIDE DEF m
  <2>5. executed[m] = 0 /\ m # Nothing
    BY <2>1, <2>4, ActionAssumption DEF FreshInv
  <2>6. inbox # m /\ \A g \in DOMAIN goal_queue : goal_queue[g] # m
    BY <2>4, <2>5 DEF SentInv, Known
  <2>7. \A k \in Goals : GoalSent(k) => GoalSent(k)'
    BY <2>3, SentStays
  <2>8. \A k \in Goals : executed'[k] <= 1 /\ (executed'[k] # 0 => GoalSent(k)')
    BY <2>3, <2>7 DEF FreshInv
  <2>9. Fresh(goal.body)' /\ inbox' # goal'.body /\ \A g \in DOMAIN goal_queue' : goal_queue'[g] # goal'.body
    BY <2>2, <2>3, <2>5, <2>6 DEF Fresh
  <2>10. (inbox' # Nothing => Fresh(inbox)') /\ \A g \in DOMAIN goal_queue' : Fresh(goal_queue[g])'
    BY <2>3 DEF FreshInv, Fresh
  <2> QED
    BY <2>8, <2>9, <2>10 DEF FreshInv
<1>2. CASE Construct(c) \/ Destroy(c) \/ HearFeedback(c) \/ HearResult(c)
           \/ \E g \in GoalIds : getResult(c, g) \/ getFeedback(c, g)
  <2>1. UNCHANGED <<goal, goalCursor, server, next_goal_id>>
    BY <1>2 DEF Construct, Destroy, HearFeedback, HearResult, getResult, getFeedback, topics
  <2> QED
    BY <2>1 DEF FreshInv, Fresh, GoalSent, server
<1> QED
  BY <1>1, <1>2

\* However the server is shut down, killed and started again, and whatever the
\* numbers of the topic do, no goal is executed twice.
THEOREM ActionGoalOnce == ActionSpec => []GoalOnce
<1>1. ActionInit => FreshInv
  <2> SUFFICES ASSUME ActionInit PROVE FreshInv
    OBVIOUS
  <2>1. DOMAIN goal_queue = {} /\ inbox = Nothing /\ pc = "down" /\ \A m \in Goals : executed[m] = 0
    BY DEF ActionInit
  <2> QED
    BY <2>1 DEF FreshInv
<1>2. ActionTypeOK /\ LoopInv /\ SentInv /\ FreshInv /\ [ActionNext]_ActionVars => FreshInv'
  <2> SUFFICES ASSUME ActionTypeOK, LoopInv, SentInv, FreshInv, [ActionNext]_ActionVars
               PROVE  FreshInv'
    OBVIOUS
  <2>1. CASE ActionNext
    BY <2>1, FreshServer, FreshClient DEF ActionNext
  <2>2. CASE UNCHANGED ActionVars
    BY <2>2 DEF ActionVars, topics, server, client, FreshInv, Fresh, GoalSent
  <2> QED
    BY <2>1, <2>2
<1>3. FreshInv => GoalOnce
  BY DEF FreshInv, GoalOnce
<1> QED
  BY <1>1, <1>2, <1>3, ActionTypeInvariant, SentInvariant, PTL DEF ActionSpec
=============================================================================
