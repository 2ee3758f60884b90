------------------------------ MODULE ZeroCopy ------------------------------
(***************************************************************************)
(* A message from the publisher that asks the pool for a block, through    *)
(* the topic that passes its header on, to the subscriber that looks at    *)
(* the block: publishRaw, loanRaw and publishLoaned of publisher.cpp,      *)
(* receiveRaw and receiveLoaned of subscriber.cpp after the unlock.        *)
(*                                                                         *)
(* The pool is RingAllocator and the topic LatestTopic, which MemoryPool   *)
(* and TopicChannel implement.  What is new here is the content of the     *)
(* pool.  Nobody tells the ring that a block is still being written or     *)
(* read, so publishers write and subscribers read one word at a time while *)
(* the ring goes on; Holders are the messages, each with its own block.    *)
(***************************************************************************)
EXTENDS RingAllocator

CONSTANTS Pubs, Subs,   \* one thread per Publisher / Subscriber object
          SizeOf,       \* SizeOf[m] : the bytes of message m
          Largest,      \* no block is larger than this
          SeqMod,       \* messages are numbered modulo this (2^32)
          NoMessage

ASSUME CopyAssumption ==
  /\ SizeOf \in [Holders -> Requests]
  /\ Largest \in Nat /\ \A m \in Holders : AlignUp(SizeOf[m]) <= Largest
  /\ NoMessage \notin Holders
  /\ SeqMod \in Nat \ {0, 1}

VARIABLES mem,          \* mem[a] : the message last written to the word at a
          written,      \* written[m] : how much of m is in its block, in bytes
          latest,       \* the topic's newest message
          cursor,       \* the subscribers' last_seq_
          pub,          \* pub[p] : the message p is busy with
          got,          \* got[s] : the message s is looking at
          seen,         \* seen[s] : what it has found in the block
          since,        \* history: bytes lent since m's block was
          late          \* history: somebody wrote to a block lent again

Topic == INSTANCE LatestTopic
         WITH Readers <- Subs, Contents <- Holders, NoContent <- NoMessage,
              Numbers <- SeqMod, Away <- -1

CopyVars == <<head, loan, mem, written, latest, cursor, pub, got, seen, since, late>>

Addresses == {a \in 0 .. POOL_SIZE - 1 : a % 8 = 0}
Block(m) == {a \in Addresses : loan[m].off <= a /\ a < loan[m].off + loan[m].size}

CopyInit ==
  /\ Init /\ Topic!Init
  /\ mem = [a \in Addresses |-> NoMessage]
  /\ written = [m \in Holders |-> 0]
  /\ pub = [p \in Pubs |-> NoMessage]
  /\ got = [s \in Subs |-> NoMessage]
  /\ seen = [s \in Subs |-> {}]
  /\ since = [m \in Holders |-> 0]
  /\ late = FALSE
-----------------------------------------------------------------------------
(* The publisher. *)

\* MemoryPool::allocate, called from publishRaw and from loanRaw.
Loan(p, m) ==
  /\ pub[p] = NoMessage
  /\ Alloc(m, SizeOf[m])
  /\ pub' = [pub EXCEPT ![p] = m]
  /\ since' = [k \in Holders |-> IF k = m \/ loan[k] = NoLoan THEN 0
                                 ELSE since[k] + AlignUp(SizeOf[m])]
  /\ UNCHANGED <<mem, written, latest, cursor, got, seen, late>>

\* One word of the memcpy, or of what the borrower writes itself.
Write(p) ==
  LET m == pub[p]
      a == loan[m].off + written[m]
  IN  /\ m # NoMessage /\ written[m] < loan[m].size
      /\ mem' = [mem EXCEPT ![a] = m]
      /\ written' = [written EXCEPT ![m] = @ + 8]
      /\ late' = (late \/ ~Unlapped(loan[m]))
      /\ UNCHANGED <<head, loan, latest, cursor, pub, got, seen, since>>

\* Mutant: the header is queued first and the payload copied after it.
BugPublish(p) ==
  LET m == pub[p]
  IN  /\ m # NoMessage
      /\ written[m] < loan[m].size => latest.body # m
      /\ IF latest.body = m THEN UNCHANGED <<latest, cursor>> ELSE Topic!Publish(m)
      /\ pub' = IF written[m] < loan[m].size THEN pub ELSE [pub EXCEPT ![p] = NoMessage]
      /\ UNCHANGED <<head, loan, mem, written, got, seen, since, late>>

\* The rest of publishRaw, and publishLoaned.
Publish(p) ==
  LET m == pub[p]
  IN  /\ m # NoMessage /\ written[m] = loan[m].size
      /\ Topic!Publish(m)
      /\ pub' = [pub EXCEPT ![p] = NoMessage]
      /\ UNCHANGED <<head, loan, mem, written, got, seen, since, late>>

\* The message is never published: the borrower changed its mind, was killed
\* or shut down, or getOffset refused an empty block at the end of the pool.
\* The block stays where it is until the ring comes round.
Abandon(p) ==
  /\ pub[p] # NoMessage
  /\ pub' = [pub EXCEPT ![p] = NoMessage]
  /\ UNCHANGED <<head, loan, mem, written, latest, cursor, got, seen, since, late>>
-----------------------------------------------------------------------------
(* The subscriber. *)

Subscribe(s) ==
  /\ Topic!Join(s)
  /\ UNCHANGED <<head, loan, mem, written, pub, got, seen, since, late>>

\* receiveRaw and receiveLoaned up to the unlock: the header is copied, the
\* block is not looked at yet.
Receive(s) ==
  /\ got[s] = NoMessage
  /\ Topic!Take(s)
  /\ got' = [got EXCEPT ![s] = latest.body]
  /\ UNCHANGED <<head, loan, mem, written, pub, seen, since, late>>

\* One word of receiveRaw's memcpy, or one look of a callback at loaned data.
Read(s) ==
  /\ got[s] # NoMessage
  /\ \E a \in Block(got[s]) : seen' = [seen EXCEPT ![s] = @ \cup {mem[a]}]
  /\ UNCHANGED <<head, loan, mem, written, latest, cursor, pub, got, since, late>>

Done(s) ==
  /\ got[s] # NoMessage
  /\ got' = [got EXCEPT ![s] = NoMessage]
  /\ seen' = [seen EXCEPT ![s] = {}]
  /\ UNCHANGED <<head, loan, mem, written, latest, cursor, pub, since, late>>

Unsubscribe(s) ==
  /\ got[s] = NoMessage
  /\ Topic!Leave(s)
  /\ UNCHANGED <<head, loan, mem, written, pub, got, seen, since, late>>

CopyNext ==
  \/ \E p \in Pubs : Write(p) \/ Publish(p) \/ Abandon(p) \/ \E m \in Holders : Loan(p, m)
  \/ \E s \in Subs : Subscribe(s) \/ Receive(s) \/ Read(s) \/ Done(s) \/ Unsubscribe(s)

CopySpec == CopyInit /\ [][CopyNext]_CopyVars
-----------------------------------------------------------------------------
CopyTypeOK ==
  /\ TypeOK
  /\ mem \in [Addresses -> Holders \cup {NoMessage}]
  /\ written \in [Holders -> 0 .. POOL_SIZE]
  /\ latest \in Topic!Messages
  /\ cursor \in [Subs -> Int]
  /\ pub \in [Pubs -> Holders \cup {NoMessage}]
  /\ got \in [Subs -> Holders \cup {NoMessage}]
  /\ seen \in [Subs -> SUBSET (Holders \cup {NoMessage})]
  /\ since \in [Holders -> Nat]
  /\ late \in BOOLEAN

\* A subscriber finds nothing but its own message in the block, however
\* publishers, ring and subscribers overtake each other, as long as the ring
\* has not come round to the block - and no publisher was so slow that the
\* ring had come round to the block it was still writing.
PayloadIntact ==
  \A s \in Subs :
     (got[s] # NoMessage /\ Unlapped(loan[got[s]]) /\ ~late) => seen[s] \subseteq {got[s]}

\* How long that is: the ring does not come round to a block before nearly a
\* whole pool has been lent after it - all but the block itself and what one
\* block too large for the end of the pool can leave unused there.
SafeWindow ==
  \A m \in Holders :
     (loan[m] # NoLoan /\ since[m] + loan[m].size + Largest - 8 <= POOL_SIZE)
        => Unlapped(loan[m])
=============================================================================
