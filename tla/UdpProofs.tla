------------------------------ MODULE UdpProofs ------------------------------
(***************************************************************************)
(* What udp_node.cpp makes of a network that loses, repeats and reorders:  *)
(* a topic keeps the order of sending, hands over nothing twice and drops  *)
(* only what is old, for any number of senders, subscribers and restarts,  *)
(* as long as seq_id does not wrap; and a call returns its own answer, for *)
(* any number of clients and calls, whatever the network and the server do.*)
(***************************************************************************)
EXTENDS UdpTopic, UdpService, TLAPS

\* UdpTopic keeps its types; seq_id stays within its 32 bits, also when it wraps.
THEOREM UdpTypeCorrect == TopicSpec => []TopicTypeOK
<1>1. TopicInit => TopicTypeOK
  BY UdpAssumption DEF TopicInit, TopicTypeOK, Counter
<1>2. TopicTypeOK /\ [TopicNext]_TopicVars => TopicTypeOK'
  <2> SUFFICES ASSUME TopicTypeOK, [TopicNext]_TopicVars PROVE TopicTypeOK'
    OBVIOUS
  <2> USE UdpAssumption DEF TopicTypeOK
  <2>1. ASSUME NEW p \in Pubs, publish(p) PROVE TopicTypeOK'
    <3>1. sent + 1 \in 1..MaxSent /\ (current_seq[p] + 1) % SeqMod \in Counter
      BY <2>1 DEF publish, Counter
    <3>2. current_seq' \in [Pubs -> Counter] /\ current_seq'[p] \in Counter
      BY <2>1, <3>1 DEF publish
    <3>3. [from |-> p, life |-> life[p], seq_id |-> current_seq'[p], n |-> sent'] \in TopicDatagrams
      BY <2>1, <3>1, <3>2 DEF publish, TopicDatagrams
    <3> QED
      BY <2>1, <3>1, <3>2, <3>3 DEF publish
  <2>2. ASSUME NEW p \in Pubs, RestartPublisher(p) PROVE TopicTypeOK'
    <3>1. life[p] + 1 \in 0..MaxRestarts /\ 0 \in Counter
      BY <2>2 DEF RestartPublisher, Counter
    <3> QED
      BY <2>2, <3>1 DEF RestartPublisher
  <2>3. ASSUME NEW s \in Subs, receive(s) PROVE TopicTypeOK'
    <3>1. PICK d \in published : receive(s)!(d)
      BY <2>3 DEF receive
    <3>2. d \in TopicDatagrams /\ d.seq_id \in Counter
      BY DEF TopicDatagrams
    <3>3. CASE IsStale(s, d)
      BY <3>1, <3>2, <3>3
    <3>4. CASE ~IsStale(s, d)
      <4>1. Append(delivered[s], d) \in Seq(TopicDatagrams)
        BY <3>2
      <4>2. delivered' \in [Subs -> Seq(TopicDatagrams)]
        BY <3>1, <3>4, <4>1
      <4> QED
        BY <3>1, <3>2, <3>4, <4>2
    <3> QED
      BY <3>3, <3>4
  <2>4. ASSUME NEW s \in Subs, Subscribe(s) PROVE TopicTypeOK'
    BY <2>4 DEF Subscribe, Counter
  <2>5. CASE UNCHANGED TopicVars
    BY <2>5 DEF TopicVars
  <2> QED
    BY <2>1, <2>2, <2>3, <2>4, <2>5 DEF TopicNext
<1> QED
  BY <1>1, <1>2, PTL DEF TopicSpec

-----------------------------------------------------------------------------
(* The inductive invariant.  A sender numbers its datagrams as it sends     *)
(* them, so within one life of it seq_id and the order of sending agree;    *)
(* and a subscriber's number is that of the last datagram it handed over,   *)
(* larger than all before.                                                  *)

\* No more datagrams than numbers, so that seq_id does not wrap.
NoWrap == MaxSent < SeqMod

SentSoFar ==
  /\ \A p \in Pubs : current_seq[p] <= sent
  /\ \A d \in published :
        /\ d.n <= sent /\ 0 < d.seq_id /\ d.life <= life[d.from]
        /\ d.life = life[d.from] => d.seq_id <= current_seq[d.from]

SeqFollowsSending ==
  \A d, e \in published :
     d.from = e.from =>
        /\ d.life = e.life /\ d.seq_id < e.seq_id => d.n < e.n
        /\ d.life = e.life /\ d.seq_id = e.seq_id => d.n = e.n
        /\ d.life < e.life => d.n < e.n

Ascending ==
  \A s \in Subs :
     /\ \A i \in DOMAIN delivered[s] :
           delivered[s][i] \in published /\ delivered[s][i].seq_id <= last_valid_seq[s]
     /\ \A i, j \in DOMAIN delivered[s] :
           i < j => delivered[s][i].seq_id < delivered[s][j].seq_id

\* Whatever was dropped, there is a datagram handed over that it was older than.
Covered ==
  \A s \in Subs :
     /\ last_valid_seq[s] # 0 =>
          \E i \in DOMAIN delivered[s] : delivered[s][i].seq_id = last_valid_seq[s]
     /\ \A d \in dropped[s] :
          /\ d \in published
          /\ \E i \in DOMAIN delivered[s] : d.seq_id <= delivered[s][i].seq_id

UdpInv == TopicTypeOK /\ SentSoFar /\ SeqFollowsSending /\ Ascending /\ Covered

LEMMA UdpInvInit == TopicInit => UdpInv
BY UdpAssumption DEF TopicInit, UdpInv, TopicTypeOK, Counter, SentSoFar, SeqFollowsSending, Ascending, Covered

LEMMA UdpInvPublish ==
  ASSUME NoWrap, UdpInv, TopicTypeOK', NEW p \in Pubs, publish(p)
  PROVE  UdpInv'
<1> DEFINE new == [from |-> p, life |-> life[p], seq_id |-> current_seq[p] + 1, n |-> sent + 1]
<1>1. /\ sent \in Nat /\ sent + 1 <= MaxSent
      /\ current_seq[p] \in Nat /\ current_seq[p] <= sent
      /\ life \in [Pubs -> 0..MaxRestarts]
  BY UdpAssumption DEF UdpInv, TopicTypeOK, SentSoFar, publish, Counter
<1>2. (current_seq[p] + 1) % SeqMod = current_seq[p] + 1
  BY <1>1, UdpAssumption DEF NoWrap
<1>3. /\ current_seq' = [current_seq EXCEPT ![p] = current_seq[p] + 1]
      /\ sent' = sent + 1 /\ life' = life
      /\ last_valid_seq' = last_valid_seq /\ delivered' = delivered
  BY <1>2 DEF publish
<1>4. current_seq'[p] = current_seq[p] + 1 /\ published' = published \cup {new}
  BY <1>2, <1>3 DEF publish, UdpInv, TopicTypeOK
<1>5. ASSUME NEW d \in published
      PROVE  /\ d.n \in Nat /\ d.seq_id \in Nat /\ d.life \in Nat /\ d.from \in Pubs
             /\ d.n <= sent /\ 0 < d.seq_id /\ d.life <= life[d.from]
             /\ d.life = life[d.from] => d.seq_id <= current_seq[d.from]
  BY UdpAssumption DEF UdpInv, TopicTypeOK, TopicDatagrams, Counter, SentSoFar
<1>6. SentSoFar'
  <2>1. ASSUME NEW q \in Pubs PROVE current_seq'[q] <= sent' /\ current_seq'[q] >= current_seq[q]
    BY <1>1, <1>3, UdpAssumption DEF UdpInv, TopicTypeOK, SentSoFar, Counter
  <2>2. ASSUME NEW q \in Pubs PROVE current_seq[q] \in Nat /\ current_seq'[q] \in Nat
    BY <1>1, <1>3, UdpAssumption DEF UdpInv, TopicTypeOK, Counter
  <2>3. ASSUME NEW d \in published
        PROVE  /\ d.n <= sent' /\ 0 < d.seq_id /\ d.life <= life'[d.from]
               /\ d.life = life'[d.from] => d.seq_id <= current_seq'[d.from]
    BY <1>1, <1>3, <1>5, <2>1, <2>2
  <2>4. /\ new.n <= sent' /\ 0 < new.seq_id /\ new.life <= life'[new.from]
        /\ new.seq_id <= current_seq'[new.from]
    BY <1>1, <1>3, <1>4
  <2> QED
    BY <1>4, <2>1, <2>3, <2>4 DEF SentSoFar
<1>7. SeqFollowsSending'
  <2>1. ASSUME NEW d \in published PROVE d.n < new.n
    BY <1>1, <1>5
  <2>2. ASSUME NEW d \in published, d.from = p
        PROVE  /\ d.life = new.life => d.seq_id < new.seq_id
               /\ ~(new.life < d.life)
    BY <1>1, <1>5, <2>2
  <2>3. ~(new.seq_id < new.seq_id) /\ ~(new.life < new.life)
    BY <1>1
  <2>4. ASSUME NEW d \in published, d.from = p PROVE ~(new.seq_id < d.seq_id /\ d.life = new.life)
    BY <1>1, <1>5, <2>2, <2>4
  <2>5. ASSUME NEW d \in published, d.from = p
        PROVE ~(d.life = new.life /\ d.seq_id = new.seq_id)
    BY <1>1, <1>5, <2>2, <2>5
  <2> HIDE DEF new
  <2>6. new.from = p
    BY DEF new
  <2> QED
    BY <1>4, <2>1, <2>2, <2>3, <2>4, <2>5, <2>6 DEF SeqFollowsSending, UdpInv
<1>8. Ascending' /\ Covered'
  BY <1>3, <1>4 DEF UdpInv, Ascending, Covered, publish
<1> QED
  BY <1>6, <1>7, <1>8 DEF UdpInv

LEMMA UdpInvRestart ==
  ASSUME UdpInv, TopicTypeOK', NEW p \in Pubs, RestartPublisher(p)
  PROVE  UdpInv'
<1>1. /\ life' = [life EXCEPT ![p] = @ + 1] /\ current_seq' = [current_seq EXCEPT ![p] = 0]
      /\ UNCHANGED <<published, last_valid_seq, sent, delivered, dropped>>
      /\ life \in [Pubs -> 0..MaxRestarts] /\ current_seq \in [Pubs -> Nat] /\ sent \in Nat
  BY UdpAssumption DEF RestartPublisher, UdpInv, TopicTypeOK, Counter
<1>2. ASSUME NEW d \in published
      PROVE  d.life \in Nat /\ d.from \in Pubs
  BY DEF UdpInv, TopicTypeOK, TopicDatagrams
<1>3. SentSoFar'
  <2>1. \A q \in Pubs : current_seq'[q] <= sent'
    BY <1>1 DEF UdpInv, SentSoFar
  <2>2. ASSUME NEW d \in published
        PROVE  /\ d.n <= sent' /\ 0 < d.seq_id /\ d.life <= life'[d.from]
               /\ d.life = life'[d.from] => d.seq_id <= current_seq'[d.from]
    <3>1. CASE d.from = p
      BY <1>1, <1>2, <3>1, UdpAssumption DEF UdpInv, SentSoFar
    <3>2. CASE d.from # p
      BY <1>1, <1>2, <3>2 DEF UdpInv, SentSoFar
    <3> QED
      BY <3>1, <3>2
  <2> QED
    BY <1>1, <2>1, <2>2 DEF SentSoFar
<1> QED
  BY <1>1, <1>3 DEF UdpInv, SeqFollowsSending, Ascending, Covered

LEMMA UdpInvReceive ==
  ASSUME UdpInv, TopicTypeOK', NEW s \in Subs, receive(s)
  PROVE  UdpInv'
<1>1. PICK d \in published : receive(s)!(d)
  BY DEF receive
<1>2. UNCHANGED <<current_seq, published, sent, life>>
  BY <1>1
<1>3. SentSoFar' /\ SeqFollowsSending'
  BY <1>2 DEF UdpInv, SentSoFar, SeqFollowsSending
<1>4. Ascending'
  <2>1. CASE IsStale(s, d)
    BY <1>1, <1>2, <2>1 DEF UdpInv, Ascending
  <2>2. CASE ~IsStale(s, d)
    <3>1. /\ last_valid_seq' = [last_valid_seq EXCEPT ![s] = d.seq_id]
          /\ delivered' = [delivered EXCEPT ![s] = Append(@, d)]
      BY <1>1, <2>2
    <3>2. /\ delivered[s] \in Seq(TopicDatagrams) /\ d \in TopicDatagrams
          /\ d.seq_id \in Nat /\ 0 < d.seq_id /\ last_valid_seq[s] \in Nat
      <4>1. Counter \subseteq Nat
        BY UdpAssumption DEF Counter
      <4>2. delivered[s] \in Seq(TopicDatagrams) /\ d \in TopicDatagrams /\ last_valid_seq[s] \in Counter
        BY DEF UdpInv, TopicTypeOK
      <4>3. d.seq_id \in Counter
        BY <4>2 DEF TopicDatagrams
      <4>4. 0 < d.seq_id
        BY DEF UdpInv, SentSoFar
      <4> QED
        BY <4>1, <4>2, <4>3, <4>4
    <3>3. last_valid_seq[s] < d.seq_id
      BY <2>2, <3>2 DEF IsStale
    <3>4. ASSUME NEW i \in DOMAIN delivered[s]
          PROVE  /\ delivered[s][i] \in published /\ delivered[s][i].seq_id \in Nat
                 /\ delivered[s][i].seq_id < d.seq_id
      <4>1. delivered[s][i] \in published /\ delivered[s][i].seq_id <= last_valid_seq[s]
        BY DEF UdpInv, Ascending
      <4>2. delivered[s][i].seq_id \in Counter
        BY <4>1 DEF UdpInv, TopicTypeOK, TopicDatagrams
      <4>3. delivered[s][i].seq_id \in Nat
        BY <4>2, UdpAssumption DEF Counter
      <4> QED
        BY <3>2, <3>3, <4>1, <4>3
    <3> DEFINE old == delivered[s]
               all == Append(old, d)
    <3>5. /\ DOMAIN all = 1 .. Len(old) + 1 /\ DOMAIN old = 1 .. Len(old) /\ Len(old) \in Nat
          /\ \A i \in DOMAIN old : all[i] = old[i]
          /\ all[Len(old) + 1] = d
      BY <3>2
    <3>6. delivered'[s] = all /\ last_valid_seq'[s] = d.seq_id
          /\ \A r \in Subs \ {s} : delivered'[r] = delivered[r] /\ last_valid_seq'[r] = last_valid_seq[r]
      BY <3>1 DEF UdpInv, TopicTypeOK
    <3>7. \A i \in DOMAIN all : all[i] \in published /\ all[i].seq_id <= d.seq_id
      <4> SUFFICES ASSUME NEW i \in DOMAIN all
                   PROVE  all[i] \in published /\ all[i].seq_id <= d.seq_id
        OBVIOUS
      <4> HIDE DEF all
      <4>1. CASE i \in DOMAIN old
        BY <3>2, <3>4, <3>5, <4>1
      <4>2. CASE i = Len(old) + 1
        BY <3>2, <3>5, <4>2
      <4> QED
        BY <3>5, <4>1, <4>2
    <3>8. \A i, j \in DOMAIN all : i < j => all[i].seq_id < all[j].seq_id
      <4> SUFFICES ASSUME NEW i \in DOMAIN all, NEW j \in DOMAIN all, i < j
                   PROVE  all[i].seq_id < all[j].seq_id
        OBVIOUS
      <4> HIDE DEF all
      <4>1. i \in DOMAIN old
        BY <3>5
      <4>2. CASE j \in DOMAIN old
        BY <3>5, <4>1, <4>2 DEF UdpInv, Ascending
      <4>3. CASE j = Len(old) + 1
        BY <3>4, <3>5, <4>1, <4>3
      <4> QED
        BY <3>5, <4>2, <4>3
    <3> HIDE DEF all, old
    <3>9. ASSUME NEW r \in Subs
          PROVE  /\ \A i \in DOMAIN delivered'[r] :
                      delivered'[r][i] \in published' /\ delivered'[r][i].seq_id <= last_valid_seq'[r]
                 /\ \A i, j \in DOMAIN delivered'[r] :
                      i < j => delivered'[r][i].seq_id < delivered'[r][j].seq_id
      <4>1. CASE r = s
        BY <1>2, <3>6, <3>7, <3>8, <4>1
      <4>2. CASE r # s
        BY <1>2, <3>6, <4>2 DEF UdpInv, Ascending
      <4> QED
        BY <4>1, <4>2
    <3> QED
      BY <3>9 DEF Ascending
  <2> QED
    BY <2>1, <2>2
<1>5. Covered'
  <2>1. Counter \subseteq Nat /\ d.seq_id \in Counter /\ last_valid_seq[s] \in Counter
    BY UdpAssumption DEF UdpInv, TopicTypeOK, TopicDatagrams, Counter
  <2>2. CASE IsStale(s, d)
    <3>1. /\ dropped' = [dropped EXCEPT ![s] = @ \cup {d}]
          /\ UNCHANGED <<last_valid_seq, delivered>>
      BY <1>1, <2>2
    <3>2. \E i \in DOMAIN delivered[s] : d.seq_id <= delivered[s][i].seq_id
      BY <2>2 DEF IsStale, UdpInv, Covered
    <3> QED
      BY <1>2, <3>1, <3>2 DEF UdpInv, Covered, TopicTypeOK
  <2>3. CASE ~IsStale(s, d)
    <3> DEFINE old == delivered[s]
               all == Append(old, d)
    <3>1. /\ last_valid_seq' = [last_valid_seq EXCEPT ![s] = d.seq_id]
          /\ delivered' = [delivered EXCEPT ![s] = all]
          /\ dropped' = dropped
      BY <1>1, <2>3
    <3>2. old \in Seq(TopicDatagrams) /\ d \in TopicDatagrams
      BY DEF UdpInv, TopicTypeOK
    <3>3. /\ \A i \in DOMAIN old : i \in DOMAIN all /\ all[i] = old[i]
          /\ Len(old) + 1 \in DOMAIN all /\ all[Len(old) + 1] = d
      BY <3>2
    <3>4. /\ delivered'[s] = all /\ last_valid_seq'[s] = d.seq_id
          /\ \A r \in Subs \ {s} : delivered'[r] = delivered[r] /\ last_valid_seq'[r] = last_valid_seq[r]
      BY <3>1 DEF UdpInv, TopicTypeOK
    <3> HIDE DEF old, all
    <3>5. /\ \E i \in DOMAIN all : all[i].seq_id = d.seq_id
          /\ \A b \in dropped[s] :
               b \in published /\ \E i \in DOMAIN all : b.seq_id <= all[i].seq_id
      BY <3>3 DEF UdpInv, Covered, old
    <3> QED
      BY <1>2, <3>1, <3>4, <3>5 DEF UdpInv, Covered
  <2> QED
    BY <2>2, <2>3
<1> QED
  BY <1>3, <1>4, <1>5 DEF UdpInv

LEMMA UdpInvSubscribe ==
  ASSUME UdpInv, TopicTypeOK', NEW s \in Subs, Subscribe(s)
  PROVE  UdpInv'
<1>1. /\ delivered' = [delivered EXCEPT ![s] = <<>>]
      /\ last_valid_seq' = [last_valid_seq EXCEPT ![s] = 0]
      /\ dropped' = [dropped EXCEPT ![s] = {}]
      /\ UNCHANGED <<current_seq, published, sent, life>>
  BY DEF Subscribe
<1>2. /\ delivered'[s] = <<>> /\ last_valid_seq'[s] = 0 /\ dropped'[s] = {}
      /\ \A r \in Subs \ {s} : /\ delivered'[r] = delivered[r] /\ last_valid_seq'[r] = last_valid_seq[r]
                              /\ dropped'[r] = dropped[r]
  BY <1>1 DEF UdpInv, TopicTypeOK
<1>3. Ascending' /\ Covered'
  BY <1>1, <1>2 DEF UdpInv, Ascending, Covered
<1> QED
  BY <1>1, <1>3 DEF UdpInv, SentSoFar, SeqFollowsSending

\* The invariant is enough: numbers ascend, and numbers follow the sending.
LEMMA UdpInvOrder == UdpInv => InOrderNoDuplicates
BY DEF UdpInv, Ascending, SeqFollowsSending, InOrderNoDuplicates

\* What is dropped is older than something handed over of the same sender: by
\* its number within one life, and in a later life all is newer.
LEMMA UdpInvStale == UdpInv => OnlyStaleDropped
<1> SUFFICES ASSUME UdpInv, NEW s \in Subs, NEW d \in dropped[s],
                    d.life = 0, \A e \in published : e.from = d.from
             PROVE  \E i \in DOMAIN delivered[s] :
                       delivered[s][i].from = d.from /\ d.n <= delivered[s][i].n
  BY DEF OnlyStaleDropped
<1>1. d \in published
  BY DEF UdpInv, Covered
<1>2. PICK i \in DOMAIN delivered[s] : d.seq_id <= delivered[s][i].seq_id
  BY DEF UdpInv, Covered
<1> DEFINE e == delivered[s][i]
<1>3. e \in published /\ e.from = d.from
  BY DEF UdpInv, Ascending
<1>4. ASSUME NEW b \in published PROVE b.n \in Nat /\ b.seq_id \in Nat /\ b.life \in Nat
  <2>1. b \in TopicDatagrams
    BY DEF UdpInv, TopicTypeOK
  <2> QED
    BY <2>1, UdpAssumption DEF TopicDatagrams, Counter
<1> HIDE DEF e
<1>5. d.n <= e.n
  <2>1. CASE e.life = 0
    BY <1>1, <1>2, <1>3, <1>4, <2>1 DEF UdpInv, SeqFollowsSending, e
  <2>2. CASE e.life > 0
    BY <1>1, <1>3, <1>4, <2>2 DEF UdpInv, SeqFollowsSending
  <2> QED
    BY <1>3, <1>4, <2>1, <2>2
<1> QED
  BY <1>3, <1>5 DEF e

LEMMA UdpInvariant ==
  ASSUME NoWrap
  PROVE  TopicSpec => []UdpInv
<1>1. TopicTypeOK' /\ UdpInv /\ [TopicNext]_TopicVars => UdpInv'
  <2> SUFFICES ASSUME TopicTypeOK', UdpInv, [TopicNext]_TopicVars PROVE UdpInv'
    OBVIOUS
  <2>1. CASE UNCHANGED TopicVars
    BY <2>1 DEF TopicVars, UdpInv, SentSoFar, SeqFollowsSending, Ascending, Covered
  <2>2. CASE TopicNext
    BY <2>2, UdpInvPublish, UdpInvRestart, UdpInvReceive, UdpInvSubscribe DEF TopicNext
  <2> QED
    BY <2>1, <2>2
<1> QED
  BY <1>1, UdpTypeCorrect, UdpInvInit, PTL DEF TopicSpec

\* While seq_id does not wrap, a subscriber hands over what it receives of a
\* sender, from one start to the next, in the order of sending and once:
\* whatever the network loses, repeats and reorders, and however many other
\* senders use the same port.
THEOREM UdpInOrderNoDuplicates ==
  ASSUME NoWrap
  PROVE  TopicSpec => []InOrderNoDuplicates
BY UdpInvariant, UdpInvOrder, PTL

\* And of a sender that is alone on the port, what the filter turns away of
\* its first life is never newer than all that the subscriber has had.
THEOREM UdpOnlyStaleDropped ==
  ASSUME NoWrap
  PROVE  TopicSpec => []OnlyStaleDropped
BY UdpInvariant, UdpInvStale, PTL

-----------------------------------------------------------------------------
(* The call.                                                                *)

LEMMA ServiceTypeInit == Init => TypeOK
BY UdpServiceAssumption DEF Init, TypeOK, Ids, ClientPCs, Datagrams

\* Copies of a datagram of a kind are of that kind.
LEMMA SentTypes ==
  ASSUME network \subseteq Datagrams, NEW d \in Requests \cup Responses, NEW k \in 0 .. MaxCopies
  PROVE  Sent(d, k) \subseteq Datagrams
<1> SUFFICES ASSUME NEW i \in 1 .. k PROVE [d EXCEPT !.copy = i] \in Datagrams
  BY DEF Sent
<1>1. i \in Copy
  BY UdpServiceAssumption DEF Copy
<1>2. CASE d \in Requests
  BY <1>1, <1>2 DEF Requests, Datagrams
<1>3. CASE d \in Responses
  BY <1>1, <1>3 DEF Responses, Datagrams
<1> QED
  BY <1>2, <1>3

LEMMA ServiceTypeNext == TypeOK /\ [Next]_vars => TypeOK'
<1> SUFFICES ASSUME TypeOK, [Next]_vars PROVE TypeOK'
  OBVIOUS
<1> USE UdpServiceAssumption DEF ClientPCs
<1>1. ASSUME NEW c \in Clients, NEW wait \in {"timed", "forever"}, NEW k \in 0 .. MaxCopies,
             Call(c, wait, k)
      PROVE  TypeOK'
  <2> DEFINE id   == (current_request_id[c] + 1) % IdMod
             this == [client |-> c, n |-> calls[c] + 1]
             d    == [type |-> 1, dest |-> "server", port |-> PortOf[c],
                      seq_id |-> id, of |-> this, copy |-> 1]
  <2>1. id \in Ids /\ calls[c] + 1 \in 1 .. MaxCalls
    BY <1>1 DEF Call, TypeOK, Ids
  <2>2. d \in Requests
    BY <2>1 DEF Requests, Calls, Ports, Copy
  <2>3. network' \subseteq Datagrams
    BY <1>1, <2>2, SentTypes DEF Call, TypeOK
  <2> QED
    BY <1>1, <2>1, <2>3 DEF Call, TypeOK
<1>2. ASSUME NEW c \in Clients, Open(c) \/ Ignore(c) \/ Timeout(c) \/ Close(c) PROVE TypeOK'
  BY <1>2 DEF Open, Ignore, Timeout, Close, Arrived, TypeOK
<1>3. ASSUME NEW c \in Clients, Accept(c) PROVE TypeOK'
  <2>1. PICK d \in network : /\ For(c, d) /\ Matches(c, d)
                             /\ network' = Arrived(d)
                             /\ answer' = [answer EXCEPT ![c] = d.of]
    BY <1>3 DEF Accept
  <2>2. d.of \in Calls
    BY <2>1 DEF TypeOK, Datagrams, Requests, Responses, Foreign, Matches
  <2> QED
    BY <1>3, <2>1, <2>2 DEF Accept, Arrived, TypeOK
<1>4. CASE ReceiveRequest
  <2>1. PICK d \in network :
          /\ d.dest = "server" /\ network' = Arrived(d)
          /\ IF d.type = 1 THEN srv' = "execute" /\ client_info' = d
                           ELSE UNCHANGED <<srv, client_info>>
    BY <1>4 DEF ReceiveRequest
  <2>2. d.type = 1 => d \in Requests
    BY <2>1 DEF TypeOK, Datagrams, Requests, Responses, Foreign
  <2>3. d.type = 1 => d # Nothing
    BY <2>2
  <2> QED
    BY <1>4, <2>1, <2>2, <2>3 DEF ReceiveRequest, Arrived, TypeOK
<1>5. CASE Execute
  <2>1. client_info.of \in Calls
    BY <1>5 DEF Execute, TypeOK, Requests
  <2> QED
    BY <1>5, <2>1 DEF Execute, TypeOK
<1>6. ASSUME NEW k \in 0 .. MaxCopies, SendResponse(k) PROVE TypeOK'
  <2> DEFINE d == [type |-> 2, dest |-> "client", port |-> client_info.port,
                   seq_id |-> client_info.seq_id, of |-> client_info.of, copy |-> 1]
  <2>1. client_info \in Requests
    BY <1>6 DEF SendResponse, TypeOK
  <2>2. d \in Responses
    BY <2>1 DEF Requests, Responses, Copy
  <2>3. network' \subseteq Datagrams
    BY <1>6, <2>2, SentTypes DEF SendResponse, TypeOK
  <2> QED
    BY <1>6, <2>3 DEF SendResponse, TypeOK
<1>7. CASE Crash \/ Restart
  BY <1>7 DEF Crash, Restart, TypeOK
<1>8. CASE Noise
  BY <1>8 DEF Noise, TypeOK, Datagrams
<1>9. CASE UNCHANGED vars
  BY <1>9 DEF vars, TypeOK
<1> QED
  BY <1>1, <1>2, <1>3, <1>4, <1>5, <1>6, <1>7, <1>8, <1>9 DEF Next

\* UdpService keeps its types.
THEOREM UdpServiceTypeCorrect == Spec => []TypeOK
BY ServiceTypeInit, ServiceTypeNext, PTL DEF Spec
-----------------------------------------------------------------------------
(* The inductive invariant.  Whatever is under way with the id of a call was *)
(* sent from or to its client's port and carries the number of that call, so *)
(* that until ids come round port and id together identify it; and nothing   *)
(* is answered before it is executed.                                        *)

\* The id of a client's n-th call, before ids come round.
IdOf(n) == IF n = IdMod THEN 0 ELSE n

Genuine(d) ==
  /\ d.of \in Calls
  /\ d.port = PortOf[d.of.client]
  /\ d.of.n <= IdMod => d.seq_id = IdOf(d.of.n)
  /\ d.of.n <= calls[d.of.client]

ServiceInv ==
  /\ \A c \in Clients : calls[c] <= IdMod => current_request_id[c] = IdOf(calls[c])
  /\ \A d \in network : d.type \in {1, 2} => Genuine(d)
  /\ \A d \in network : d.type = 2 => executed[d.of] > 0
  /\ client_info # Nothing => Genuine(client_info)
  /\ srv = "respond" => executed[client_info.of] > 0
  /\ OwnReply

LEMMA ServiceInvInit == Init => ServiceInv
<1> SUFFICES ASSUME Init PROVE ServiceInv
  OBVIOUS
<1>1. IdOf(0) = 0
  BY DEF IdOf
<1> QED
  BY <1>1 DEF Init, ServiceInv, OwnReply

\* A step that sends nothing, executes nothing and returns no answer.
LEMMA ServiceInvQuiet ==
  ASSUME TypeOK, ServiceInv, network' \subseteq network,
         UNCHANGED <<current_request_id, calls, answer, executed>>,
         srv' = "respond" => srv = "respond",
         client_info' \in {client_info, Nothing} \/ (client_info' \in network /\ client_info'.type = 1),
         srv' = "respond" => client_info' = client_info
  PROVE  ServiceInv'
BY DEF ServiceInv, Genuine, OwnReply

LEMMA ServiceInvCall ==
  ASSUME TypeOK, ServiceInv, NEW c \in Clients, NEW wait \in {"timed", "forever"},
         NEW k \in 0 .. MaxCopies, Call(c, wait, k)
  PROVE  ServiceInv'
<1> DEFINE id   == (current_request_id[c] + 1) % IdMod
           this == [client |-> c, n |-> calls[c] + 1]
           new  == [type |-> 1, dest |-> "server", port |-> PortOf[c],
                    seq_id |-> id, of |-> this, copy |-> 1]
<1>1. /\ current_request_id' = [current_request_id EXCEPT ![c] = id]
      /\ calls' = [calls EXCEPT ![c] = calls[c] + 1]
      /\ answer' = [answer EXCEPT ![c] = Nothing]
      /\ network' = Sent(new, k)
      /\ UNCHANGED <<srv, client_info, executed>>
  BY DEF Call
<1>2. calls[c] \in Nat /\ calls[c] + 1 \in 1 .. MaxCalls
  BY UdpServiceAssumption DEF Call, TypeOK
<1>3. calls[c] + 1 <= IdMod => id = IdOf(calls[c] + 1)
  <2> SUFFICES ASSUME calls[c] + 1 <= IdMod PROVE id = IdOf(calls[c] + 1)
    OBVIOUS
  <2>1. current_request_id[c] = calls[c]
    BY <1>2, UdpServiceAssumption DEF ServiceInv, IdOf
  <2>2. CASE calls[c] + 1 = IdMod
    <3>1. IdMod % IdMod = 0
      BY UdpServiceAssumption
    <3> QED
      BY <2>1, <2>2, <3>1 DEF IdOf
  <2>3. CASE calls[c] + 1 < IdMod
    BY <1>2, <2>1, <2>3, UdpServiceAssumption DEF IdOf
  <2> QED
    BY <1>2, <2>2, <2>3, UdpServiceAssumption
<1>4. \A d \in Clients : /\ calls[d] \in Nat /\ calls'[d] \in Nat /\ calls[d] <= calls'[d]
                         /\ d # c => calls'[d] = calls[d]
  BY <1>1, <1>2, UdpServiceAssumption DEF TypeOK
<1>5. calls'[c] = calls[c] + 1 /\ this \in Calls
  BY <1>1, <1>2 DEF TypeOK, Calls
<1>6. ASSUME NEW d, Genuine(d) PROVE Genuine(d)'
  BY <1>4, <1>6 DEF Genuine, Calls
<1>7. ASSUME NEW d \in network', d \notin network
      PROVE  d.type = 1 /\ Genuine(d)'
  <2>1. PICK i \in 1 .. k : d = [new EXCEPT !.copy = i]
    BY <1>1, <1>7 DEF Sent
  <2>2. d.type = 1 /\ d.of = this /\ d.port = PortOf[c] /\ d.seq_id = id
    BY <2>1
  <2> QED
    BY <1>2, <1>3, <1>5, <2>2 DEF Genuine
<1>8. \A d \in Clients : calls'[d] <= IdMod => current_request_id'[d] = IdOf(calls'[d])
  BY <1>1, <1>3, <1>4, <1>5 DEF TypeOK, ServiceInv
<1>9. OwnReply'
  <2> SUFFICES ASSUME NEW e \in Clients, answer'[e] # Nothing, calls'[e] <= IdMod,
                      \A d \in Clients \ {e} : PortOf[d] = PortOf[e] => calls'[d] = 0
               PROVE  answer'[e] = [client |-> e, n |-> calls'[e]] /\ executed'[answer'[e]] > 0
    BY DEF OwnReply
  <2>1. e # c /\ answer'[e] = answer[e] /\ calls'[e] = calls[e]
    BY <1>1, <1>4 DEF TypeOK
  <2>2. \A d \in Clients \ {e} : PortOf[d] = PortOf[e] => calls[d] = 0
    BY <1>4
  <2> QED
    BY <1>1, <2>1, <2>2 DEF ServiceInv, OwnReply
<1> QED
  BY <1>1, <1>6, <1>7, <1>8, <1>9 DEF ServiceInv

LEMMA ServiceInvAccept ==
  ASSUME TypeOK, ServiceInv, NEW c \in Clients, Accept(c)
  PROVE  ServiceInv'
<1>1. PICK d \in network : /\ For(c, d) /\ Matches(c, d)
                           /\ network' = Arrived(d)
                           /\ answer' = [answer EXCEPT ![c] = d.of]
  BY DEF Accept
<1>2. UNCHANGED <<current_request_id, calls, srv, client_info, executed>>
  BY DEF Accept
<1>3. d.type = 2 /\ Genuine(d) /\ executed[d.of] > 0
      /\ d.port = PortOf[c] /\ d.seq_id = current_request_id[c]
  BY <1>1 DEF ServiceInv, Matches, For
<1>4. OwnReply'
  <2> SUFFICES ASSUME NEW e \in Clients, answer'[e] # Nothing, calls[e] <= IdMod,
                      \A f \in Clients \ {e} : PortOf[f] = PortOf[e] => calls[f] = 0
               PROVE  answer'[e] = [client |-> e, n |-> calls[e]] /\ executed[answer'[e]] > 0
    BY <1>2 DEF OwnReply
  <2>1. CASE e # c
    <3>1. answer'[e] = answer[e]
      BY <1>1, <2>1 DEF TypeOK
    <3> QED
      BY <3>1 DEF ServiceInv, OwnReply
  <2>2. CASE e = c
    <3>1. answer'[c] = d.of
      BY <1>1 DEF TypeOK
    <3>2. /\ d.of = [client |-> d.of.client, n |-> d.of.n] /\ d.of.client \in Clients
          /\ d.of.n \in Nat \ {0} /\ PortOf[d.of.client] = PortOf[c]
          /\ d.of.n <= calls[d.of.client]
      BY <1>3, UdpServiceAssumption DEF Genuine, Calls
    <3>3. d.of.client = c
      BY <2>2, <3>2
    <3>4. calls[c] \in Nat /\ d.of.n <= calls[c] /\ IdOf(d.of.n) = IdOf(calls[c])
      BY <1>3, <2>2, <3>2, <3>3, UdpServiceAssumption DEF TypeOK, Genuine, ServiceInv
    <3>5. d.of.n = calls[c]
      BY <2>2, <3>2, <3>4, UdpServiceAssumption DEF IdOf
    <3> QED
      BY <1>3, <2>2, <3>1, <3>2, <3>3, <3>5
  <2> QED
    BY <2>1, <2>2
<1> QED
  BY <1>1, <1>2, <1>4 DEF ServiceInv, Genuine, Arrived

LEMMA ServiceInvServer ==
  ASSUME TypeOK, ServiceInv, ReceiveRequest \/ Execute \/ \E k \in 0 .. MaxCopies : SendResponse(k)
  PROVE  ServiceInv'
<1>1. CASE ReceiveRequest
  <2>1. PICK d \in network :
          /\ network' = Arrived(d)
          /\ IF d.type = 1 THEN srv' = "execute" /\ client_info' = d
                           ELSE UNCHANGED <<srv, client_info>>
    BY <1>1 DEF ReceiveRequest
  <2> QED
    BY <1>1, <2>1, ServiceInvQuiet DEF ReceiveRequest, Arrived
<1>2. CASE Execute
  <2>1. client_info.of \in Calls /\ client_info # Nothing
    BY <1>2 DEF Execute, TypeOK, Requests
  <2>2. \A m \in Calls : executed'[m] \in Nat /\ executed'[m] >= executed[m]
    BY <1>2, <2>1 DEF Execute, TypeOK
  <2>3. executed'[client_info.of] > 0
    BY <1>2, <2>1 DEF Execute, TypeOK
  <2>4. \A d \in network : d.type = 2 => executed'[d.of] > 0
    BY <2>2 DEF ServiceInv, Genuine, TypeOK
  <2>5. \A c \in Clients : answer[c] # Nothing => answer[c] \in Calls
    BY DEF TypeOK
  <2>6. OwnReply'
    <3> SUFFICES ASSUME NEW c \in Clients, answer[c] # Nothing, calls[c] <= IdMod,
                        \A d \in Clients \ {c} : PortOf[d] = PortOf[c] => calls[d] = 0
                 PROVE  answer[c] = [client |-> c, n |-> calls[c]] /\ executed'[answer[c]] > 0
      BY <1>2 DEF Execute, OwnReply
    <3>1. answer[c] = [client |-> c, n |-> calls[c]] /\ executed[answer[c]] > 0
      BY DEF ServiceInv, OwnReply
    <3> QED
      BY <2>2, <2>5, <3>1 DEF TypeOK
  <2> QED
    BY <1>2, <2>3, <2>4, <2>6 DEF Execute, ServiceInv, Genuine
<1>3. ASSUME NEW k \in 0 .. MaxCopies, SendResponse(k) PROVE ServiceInv'
  <2> DEFINE new == [type |-> 2, dest |-> "client", port |-> client_info.port,
                     seq_id |-> client_info.seq_id, of |-> client_info.of, copy |-> 1]
  <2>1. /\ network' = Sent(new, k) /\ srv' = "receive" /\ client_info' = Nothing
        /\ UNCHANGED <<current_request_id, calls, answer, executed>>
    BY <1>3 DEF SendResponse
  <2>2. Genuine(client_info) /\ executed[client_info.of] > 0
    BY <1>3 DEF SendResponse, ServiceInv, TypeOK
  <2>3. ASSUME NEW d \in network', d \notin network
        PROVE  d.type = 2 /\ Genuine(d) /\ executed[d.of] > 0
    <3>1. PICK i \in 1 .. k : d = [new EXCEPT !.copy = i]
      BY <2>1, <2>3 DEF Sent
    <3>2. /\ d.type = 2 /\ d.of = client_info.of
          /\ d.port = client_info.port /\ d.seq_id = client_info.seq_id
      BY <3>1
    <3> QED
      BY <2>2, <3>2 DEF Genuine
  <2> QED
    BY <2>1, <2>3 DEF ServiceInv, Genuine, OwnReply
<1> QED
  BY <1>1, <1>2, <1>3

LEMMA ServiceInvNext == TypeOK /\ ServiceInv /\ [Next]_vars => ServiceInv'
<1> SUFFICES ASSUME TypeOK, ServiceInv, [Next]_vars PROVE ServiceInv'
  OBVIOUS
<1>1. ASSUME NEW c \in Clients, Open(c) \/ Ignore(c) \/ Timeout(c) \/ Close(c) PROVE ServiceInv'
  BY <1>1, ServiceInvQuiet DEF Open, Ignore, Timeout, Close, Arrived
<1>2. CASE Crash \/ Restart
  BY <1>2, ServiceInvQuiet DEF Crash, Restart
<1>3. CASE Noise
  <2>1. \A d \in network' : d \in network \/ d.type = 0
    BY <1>3, UdpServiceAssumption DEF Noise, Foreign
  <2> QED
    BY <1>3, <2>1 DEF Noise, ServiceInv, Genuine, OwnReply
<1>4. CASE UNCHANGED vars
  BY <1>4, ServiceInvQuiet DEF vars
<1> QED
  BY <1>1, <1>2, <1>3, <1>4, ServiceInvCall, ServiceInvAccept, ServiceInvServer DEF Next

\* A call over UDP returns the answer to itself, and that has been executed: on
\* a port no other client has called from, until request ids come round.
THEOREM UdpServiceOwnReply == Spec => []OwnReply
<1>1. ServiceInv => OwnReply
  BY DEF ServiceInv
<1> QED
  BY <1>1, ServiceTypeInit, ServiceTypeNext, ServiceInvInit, ServiceInvNext, PTL DEF Spec
=============================================================================
