------------------------------ MODULE UdpTopic ------------------------------
(***************************************************************************)
(* A topic over UDP: UDPPublisher and UDPSubscriber of udp_node.cpp, with  *)
(* a network that loses, duplicates and reorders datagrams.  All senders   *)
(* to the address and port of a subscriber reach it; the subscriber keeps  *)
(* one sequence number for all of them.  Payloads play no role, the number *)
(* n tells datagrams apart.                                                *)
(***************************************************************************)
EXTENDS Integers, Sequences, FiniteSets

CONSTANTS Pubs, Subs,     \* UDPPublisher and UDPSubscriber objects
          SeqMod,         \* seq_id is counted modulo this (2^32)
          MaxSent,        \* bound: datagrams sent
          MaxRestarts     \* bound: how often a publisher is started again

ASSUME UdpAssumption ==
  /\ SeqMod \in Nat \ {0, 1}
  /\ MaxSent \in Nat /\ MaxRestarts \in Nat

VARIABLES
  current_seq,      \* UDPPublisher::current_seq_
  published,        \* the datagrams under way, or seen and possibly repeated
  last_valid_seq,   \* UDPSubscriber::last_valid_seq_
  sent,             \* history: number of datagrams sent
  life,             \* life[p] : how often p has been started again
  delivered,        \* history: what receive() returned, in order
  dropped           \* history: what receive() turned into ""

TopicVars == <<current_seq, published, last_valid_seq, sent, life, delivered, dropped>>

Counter == 0 .. SeqMod - 1
TopicDatagrams == [from : Pubs, life : 0 .. MaxRestarts, seq_id : Counter, n : 1 .. MaxSent]

TopicInit ==
  /\ current_seq = [p \in Pubs |-> 0]
  /\ published = {}
  /\ last_valid_seq = [s \in Subs |-> 0]
  /\ sent = 0
  /\ life = [p \in Pubs |-> 0]
  /\ delivered = [s \in Subs |-> <<>>]
  /\ dropped = [s \in Subs |-> {}]

\* sendto: a failure is a loss, the number is used up all the same.
publish(p) ==
  /\ sent < MaxSent
  /\ sent' = sent + 1
  /\ current_seq' = [current_seq EXCEPT ![p] = (@ + 1) % SeqMod]
  /\ published' = published \cup {[from |-> p, life |-> life[p], seq_id |-> current_seq'[p], n |-> sent']}
  /\ UNCHANGED <<last_valid_seq, life, delivered, dropped>>

\* The publisher's process ends and is started again.
RestartPublisher(p) ==
  /\ life[p] < MaxRestarts
  /\ life' = [life EXCEPT ![p] = @ + 1]
  /\ current_seq' = [current_seq EXCEPT ![p] = 0]
  /\ UNCHANGED <<published, last_valid_seq, sent, delivered, dropped>>

\* Mutant: a duplicate of the last datagram passes.
BugRepeated(s, d) == last_valid_seq[s] # 0 /\ d.seq_id < last_valid_seq[s]
\* Mutant: only the next number passes.
BugGapless(s, d) == last_valid_seq[s] # 0 /\ d.seq_id # last_valid_seq[s] + 1
\* 0 stands for "nothing received yet".
IsStale(s, d) == last_valid_seq[s] # 0 /\ d.seq_id <= last_valid_seq[s]

\* recvfrom returns some datagram, which may come again: the network forgets
\* none, and what is never received was lost.
receive(s) ==
  \E d \in published :
    /\ IF IsStale(s, d)
       THEN /\ dropped' = [dropped EXCEPT ![s] = @ \cup {d}]
            /\ UNCHANGED <<last_valid_seq, delivered>>
       ELSE /\ last_valid_seq' = [last_valid_seq EXCEPT ![s] = d.seq_id]
            /\ delivered' = [delivered EXCEPT ![s] = Append(@, d)]
            /\ UNCHANGED dropped
    /\ UNCHANGED <<current_seq, published, sent, life>>

\* A new UDPSubscriber takes the place of s.
Subscribe(s) ==
  /\ last_valid_seq' = [last_valid_seq EXCEPT ![s] = 0]
  /\ delivered' = [delivered EXCEPT ![s] = <<>>]
  /\ dropped' = [dropped EXCEPT ![s] = {}]
  /\ UNCHANGED <<current_seq, published, sent, life>>

TopicNext ==
  \/ \E p \in Pubs : publish(p) \/ RestartPublisher(p)
  \/ \E s \in Subs : receive(s) \/ Subscribe(s)

TopicSpec == TopicInit /\ [][TopicNext]_TopicVars
-----------------------------------------------------------------------------
\* The types; the sequence numbers stay within the 32 bits of the header.
TopicTypeOK ==
  /\ current_seq \in [Pubs -> Counter]
  /\ published \subseteq TopicDatagrams
  /\ last_valid_seq \in [Subs -> Counter]
  /\ sent \in 0..MaxSent
  /\ life \in [Pubs -> 0..MaxRestarts]
  /\ delivered \in [Subs -> Seq(TopicDatagrams)]
  /\ dropped \in [Subs -> SUBSET TopicDatagrams]

\* What receive() hands over of one sender, from one start of it to the next,
\* is in the order of sending, and nothing comes twice, though the network
\* reorders and repeats and other senders and restarts share the subscriber's
\* one number (the filter of udp_node.cpp:101).  Unless seq_id wraps: 0 is let
\* through again and again.
InOrderNoDuplicates ==
  \A s \in Subs : \A i, j \in DOMAIN delivered[s] :
     LET d == delivered[s][i]
         e == delivered[s][j]
     IN i < j /\ d.from = e.from /\ d.life = e.life => d.n < e.n

\* What the comment in receive says of the datagrams it drops, that they are
\* expired: of each, the subscriber has had the same or a later one of its
\* sender.  Not after a restart of the sender.
OnlyGhostsDropped ==
  \A s \in Subs : \A d \in dropped[s] : \E i \in DOMAIN delivered[s] :
     delivered[s][i].from = d.from /\ d.n <= delivered[s][i].n

\* The filter turns away old datagrams only: of every one it drops, the
\* subscriber has had the same or a later one of that sender.  True of a
\* sender that is alone on the port, for what it sent before its first restart:
\* after one, its new datagrams are dropped until their numbers have caught up,
\* and so are those of a second sender.
OnlyStaleDropped ==
  \A s \in Subs : \A d \in dropped[s] :
     d.life = 0 /\ (\A e \in published : e.from = d.from) => \E i \in DOMAIN delivered[s] :
        delivered[s][i].from = d.from /\ d.n <= delivered[s][i].n
=============================================================================
