---------------------------- MODULE TopicChannel ----------------------------
(***************************************************************************)
(* One topic: the TopicShm segment, the Publishers that enqueue headers    *)
(* into it (publisher.cpp) and the Subscribers that attach to it, wait on  *)
(* its condition variable, take the newest header and detach               *)
(* (subscriber.cpp, and the subscriber half of createOrGetTopic).          *)
(*                                                                         *)
(* Every thread runs in a process of its own.  One step is one access to   *)
(* the segment, so a process can be killed, or another one scheduled,      *)
(* between any two of them.  A message is what the header refers to (pool  *)
(* offset, size and type together); the pool itself is MemoryPool's.       *)
(***************************************************************************)
EXTENDS Integers, FiniteSets, RobustMutex

CONSTANTS Pubs, Subs,    \* one thread per Publisher / Subscriber object
          Mortal,        \* the threads whose process may be killed
          Signalled,     \* the threads whose process may get SIGINT
          BUFFER_SIZE,   \* slots of the ring
          SeqMod,        \* seq and write_index are counted modulo this (2^32)
          StopAt,        \* bound: no publish call starts once seq has reached it
          Payloads,      \* the messages
          Oversized,     \* those that do not fit receiveRaw's buffer
          NoPayload,     \* the body of a slot nobody has written
          Forms, Waits   \* the receive calls made, see Receive

Procs == Pubs \cup Subs

ASSUME ChannelAssumption ==
  /\ Pubs \cap Subs = {}
  /\ NoOne \notin Procs
  /\ Mortal \subseteq Procs /\ Signalled \subseteq Procs
  /\ Oversized \subseteq Payloads
  /\ NoPayload \notin Payloads
  /\ Forms # {} /\ Forms \subseteq {"raw", "loaned"}
  /\ Waits # {} /\ Waits \subseteq {"poll", "timed", "block"}

\* 2^32 and 20 in the code: (2^32 - 1) % 20 = 15.  Were it 0, the slot read
\* after write_index has wrapped would be the slot written next.
ASSUME RingAssumption ==
  /\ BUFFER_SIZE \in Nat \ {0, 1}
  /\ SeqMod \in Nat \ {0, 1}
  /\ (SeqMod - 1) % BUFFER_SIZE # 0

VARIABLES
  mutex, seq, write_index, buffer,   \* TopicShm
  active_subscribers,                \* TopicShm
  newest,      \* history: the header of the last publish that was committed
  pc,          \* where each thread is
  msg,         \* msg[p] : the argument of p's publish call
  call,        \* call[s] : the form and timeout of s's receive call
  hdr,         \* hdr[s] : temp_header, the copy s took under the mutex
  last_seq,    \* Subscriber::last_seq_
  down         \* down[t] : g_shutdown_requested in t's process

shm == <<mutex, seq, write_index, buffer, active_subscribers, newest>>
vars == <<shm, pc, msg, call, hdr, last_seq, down>>

Counter == 0 .. SeqMod - 1
Slots == 0 .. BUFFER_SIZE - 1
Bodies == Payloads \cup {NoPayload}
Headers == [seq : Counter, body : Bodies]
ZeroHeader == [seq |-> 0, body |-> NoPayload]
Calls == [form : Forms, wait : Waits]

Succ(n) == (n + 1) % SeqMod
WriteSlot(w) == w % BUFFER_SIZE
\* Mutant: the slot that is written next.
BugNewestSlot(w) == w % BUFFER_SIZE
\* (write_index - 1) % BUFFER_SIZE, the subtraction being unsigned
NewestSlot(w) == ((w - 1) % SeqMod) % BUFFER_SIZE

\* What follows lockRobust, and what follows the unlock, in each operation.
Locked == [enqueue |-> "stamp", attach |-> "count", align |-> "sync",
           enter |-> "check", detach |-> "uncount"]
Released == [published |-> "idle", attached |-> "align", aligned |-> "ready",
             taken |-> "copy", giveup |-> "ready", detached |-> "absent"]

PubHolding == {"stamp", "fill", "commit", "broadcast", "published"}
SubHolding == {"count", "attached", "sync", "aligned", "check", "taken",
               "giveup", "uncount", "detached"}
PubPCs == PubHolding \cup {"idle", "enqueue", "failed", "dead"}
SubPCs == SubHolding \cup {"absent", "attach", "align", "ready", "enter",
             "waiting", "relock", "expired", "copy", "detach", "failed", "dead"}

goto(t, l) == pc' = [pc EXCEPT ![t] = l]

\* The segment as createOrGetTopic leaves it, no subscriber attached yet.
Init ==
  /\ mutex = initRobustMutex
  /\ seq = 0 /\ write_index = 0 /\ active_subscribers = 0
  /\ buffer = [i \in Slots |-> ZeroHeader]
  /\ newest = ZeroHeader
  /\ pc = [t \in Procs |-> IF t \in Pubs THEN "idle" ELSE "absent"]
  /\ msg = [p \in Pubs |-> NoPayload]
  /\ call = [s \in Subs |-> CHOOSE c \in Calls : TRUE]
  /\ hdr = [s \in Subs |-> ZeroHeader]
  /\ last_seq = [s \in Subs |-> 0]
  /\ down = [t \in Procs |-> FALSE]
-----------------------------------------------------------------------------
(* The mutex, the same for every operation. *)

Lock(t) ==
  /\ pc[t] \in DOMAIN Locked
  /\ mutex.owner = NoOne /\ Recoverable(mutex)
  /\ mutex' = lockRobust(mutex, t)
  /\ goto(t, Locked[pc[t]])
  /\ UNCHANGED <<seq, write_index, buffer, active_subscribers, newest,
                 msg, call, hdr, last_seq, down>>

\* lockRobust throws; the operation is over and nothing was changed.
Throw(t) ==
  /\ pc[t] \in DOMAIN Locked
  /\ mutex.owner = NoOne /\ ~Recoverable(mutex)
  /\ goto(t, "failed")
  /\ UNCHANGED <<shm, msg, call, hdr, last_seq, down>>

\* Mutant: the return taken when there is nothing to receive forgets the unlock.
BugRelease(t) ==
  /\ pc[t] \in DOMAIN Released
  /\ mutex' = IF pc[t] = "giveup" THEN mutex ELSE UnlockedBy(mutex, t)
  /\ goto(t, Released[pc[t]])
  /\ UNCHANGED <<seq, write_index, buffer, active_subscribers, newest,
                 msg, call, hdr, last_seq, down>>

Release(t) ==
  /\ pc[t] \in DOMAIN Released
  /\ mutex' = UnlockedBy(mutex, t)
  /\ goto(t, Released[pc[t]])
  /\ UNCHANGED <<seq, write_index, buffer, active_subscribers, newest,
                 msg, call, hdr, last_seq, down>>
-----------------------------------------------------------------------------
(* Publisher::publishRaw and publishLoaned.  The two differ in how the      *)
(* message got into the pool, before the mutex is taken.                    *)

publish(p, d) ==
  /\ pc[p] = "idle" /\ ~down[p]
  /\ seq < StopAt
  /\ msg' = [msg EXCEPT ![p] = d]
  /\ goto(p, "enqueue")
  /\ UNCHANGED <<shm, call, hdr, last_seq, down>>

\* Mutant: seq++ for ++seq.
BugStamp(p) ==
  /\ pc[p] = "stamp"
  /\ seq' = Succ(seq)
  /\ buffer' = [buffer EXCEPT ![WriteSlot(write_index)].seq = seq]
  /\ goto(p, "fill")
  /\ UNCHANGED <<mutex, write_index, active_subscribers, newest,
                 msg, call, hdr, last_seq, down>>

\* buffer[slot].header.seq = ++seq
Stamp(p) ==
  /\ pc[p] = "stamp"
  /\ seq' = Succ(seq)
  /\ buffer' = [buffer EXCEPT ![WriteSlot(write_index)].seq = Succ(seq)]
  /\ goto(p, "fill")
  /\ UNCHANGED <<mutex, write_index, active_subscribers, newest,
                 msg, call, hdr, last_seq, down>>

FillHeader(p) ==
  /\ pc[p] = "fill"
  /\ buffer' = [buffer EXCEPT ![WriteSlot(write_index)].body = msg[p]]
  /\ goto(p, "commit")
  /\ UNCHANGED <<mutex, seq, write_index, active_subscribers, newest,
                 msg, call, hdr, last_seq, down>>

\* write_index++ : from here on a subscriber can find the message.
Commit(p) ==
  /\ pc[p] = "commit"
  /\ write_index' = Succ(write_index)
  /\ newest' = buffer[WriteSlot(write_index)]
  /\ goto(p, "broadcast")
  /\ UNCHANGED <<mutex, seq, buffer, active_subscribers,
                 msg, call, hdr, last_seq, down>>

\* Mutant: pthread_cond_signal, which wakes one waiting thread.
BugBroadcast(p) ==
  /\ pc[p] = "broadcast"
  /\ LET waiting == {t \in Procs : pc[t] = "waiting"}
     IN \/ waiting = {} /\ goto(p, "published")
        \/ \E w \in waiting : pc' = [pc EXCEPT ![p] = "published", ![w] = "relock"]
  /\ UNCHANGED <<shm, msg, call, hdr, last_seq, down>>

\* pthread_cond_broadcast: whoever waits goes for the mutex again.
Broadcast(p) ==
  /\ pc[p] = "broadcast"
  /\ pc' = [t \in Procs |-> CASE t = p -> "published"
                              [] pc[t] = "waiting" -> "relock"
                              [] OTHER -> pc[t]]
  /\ UNCHANGED <<shm, msg, call, hdr, last_seq, down>>
-----------------------------------------------------------------------------
(* Subscriber: construction (createOrGetTopic counts it in one critical     *)
(* section, the constructor aligns its cursor in another) and destruction.  *)

Subscribe(s) ==
  /\ pc[s] = "absent" /\ ~down[s]
  /\ last_seq' = [last_seq EXCEPT ![s] = 0]
  /\ goto(s, "attach")
  /\ UNCHANGED <<shm, msg, call, hdr, down>>

Count(s) ==
  /\ pc[s] = "count"
  /\ active_subscribers' = active_subscribers + 1
  /\ goto(s, "attached")
  /\ UNCHANGED <<mutex, seq, write_index, buffer, newest,
                 msg, call, hdr, last_seq, down>>

\* Mutant: a new subscriber starts from the beginning of the topic.
BugSync(s) ==
  /\ pc[s] = "sync"
  /\ goto(s, "aligned")
  /\ UNCHANGED <<shm, msg, call, hdr, last_seq, down>>

Sync(s) ==
  /\ pc[s] = "sync"
  /\ last_seq' = [last_seq EXCEPT ![s] = seq]
  /\ goto(s, "aligned")
  /\ UNCHANGED <<shm, msg, call, hdr, down>>

Unsubscribe(s) ==
  /\ pc[s] = "ready"
  /\ goto(s, "detach")
  /\ UNCHANGED <<shm, msg, call, hdr, last_seq, down>>

\* Mutant: the destructor leaves the count alone.
BugUncount(s) ==
  /\ pc[s] = "uncount"
  /\ goto(s, "detached")
  /\ UNCHANGED <<shm, msg, call, hdr, last_seq, down>>

Uncount(s) ==
  /\ pc[s] = "uncount"
  /\ active_subscribers' = IF active_subscribers > 0
                           THEN active_subscribers - 1 ELSE active_subscribers
  /\ goto(s, "detached")
  /\ UNCHANGED <<mutex, seq, write_index, buffer, newest,
                 msg, call, hdr, last_seq, down>>
-----------------------------------------------------------------------------
(* Subscriber::receiveRaw and receiveLoaned, also called from asyncLoop.    *)

\* form: into a buffer of limited size, or as a pointer into the pool.
\* wait: timeout_ms = 0, > 0 or < 0.
Receive(s, c) ==
  /\ pc[s] = "ready" /\ ~down[s]
  /\ call' = [call EXCEPT ![s] = c]
  /\ goto(s, "enter")
  /\ UNCHANGED <<shm, msg, hdr, last_seq, down>>

\* The loop condition and what follows it.  A thread whose cond_wait failed
\* to re-lock the mutex comes here without it: the next cond_wait then fails
\* with EPERM, and the thread spins (no step).
Check(s) ==
  /\ pc[s] = "check"
  /\ \/ /\ down[s]
        /\ goto(s, "giveup") /\ UNCHANGED <<mutex, hdr>>
     \/ /\ ~down[s] /\ last_seq[s] < seq
        /\ hdr' = [hdr EXCEPT ![s] = buffer[NewestSlot(write_index)]]
        /\ goto(s, "taken") /\ UNCHANGED mutex
     \/ /\ ~down[s] /\ last_seq[s] >= seq /\ call[s].wait = "poll"
        /\ goto(s, "giveup") /\ UNCHANGED <<mutex, hdr>>
     \/ /\ ~down[s] /\ last_seq[s] >= seq /\ call[s].wait # "poll"
        /\ mutex.owner = s
        /\ mutex' = UnlockedBy(mutex, s)
        /\ goto(s, "waiting") /\ UNCHANGED hdr
  /\ UNCHANGED <<seq, write_index, buffer, active_subscribers, newest,
                 msg, call, last_seq, down>>

\* A spurious wakeup.
Wake(s) ==
  /\ pc[s] = "waiting"
  /\ goto(s, "relock")
  /\ UNCHANGED <<shm, msg, call, hdr, last_seq, down>>

Timeout(s) ==
  /\ pc[s] = "waiting" /\ call[s].wait = "timed"
  /\ goto(s, "expired")
  /\ UNCHANGED <<shm, msg, call, hdr, last_seq, down>>

\* Mutant: ETIMEDOUT is not told apart from a wakeup.
BugReacquire(s) ==
  /\ pc[s] \in {"relock", "expired"}
  /\ mutex.owner = NoOne
  /\ mutex' = LockedBy(mutex, s)
  /\ goto(s, "check")
  /\ UNCHANGED <<seq, write_index, buffer, active_subscribers, newest,
                 msg, call, hdr, last_seq, down>>

\* The end of cond_wait.  Its result is the mutex's, if that is an error, and
\* only ETIMEDOUT is looked at: EOWNERDEAD is not answered with
\* pthread_mutex_consistent, ENOTRECOVERABLE leaves s without the mutex.
Reacquire(s) ==
  /\ pc[s] \in {"relock", "expired"}
  /\ mutex.owner = NoOne
  /\ mutex' = LockedBy(mutex, s)
  /\ goto(s, IF pc[s] = "expired" /\ mutex.state = "consistent"
             THEN "giveup" ELSE "check")
  /\ UNCHANGED <<seq, write_index, buffer, active_subscribers, newest,
                 msg, call, hdr, last_seq, down>>

\* Mutant: the cursor is not moved.
BugDeliver(s) ==
  /\ pc[s] = "copy"
  /\ hdr' = [hdr EXCEPT ![s] = ZeroHeader]
  /\ goto(s, "ready")
  /\ UNCHANGED <<shm, msg, call, last_seq, down>>

\* After the unlock: a message too large for the buffer is not copied, and
\* the cursor stays where it is.  temp_header goes out of scope.
Deliver(s) ==
  /\ pc[s] = "copy"
  /\ last_seq' = IF call[s].form = "raw" /\ hdr[s].body \in Oversized
                 THEN last_seq ELSE [last_seq EXCEPT ![s] = hdr[s].seq]
  /\ hdr' = [hdr EXCEPT ![s] = ZeroHeader]
  /\ goto(s, "ready")
  /\ UNCHANGED <<shm, msg, call, down>>
-----------------------------------------------------------------------------
(* The environment. *)

\* SIGINT: the handler sets g_shutdown_requested.
Shutdown(t) ==
  /\ t \in Signalled /\ ~down[t] /\ pc[t] # "dead"
  /\ down' = [down EXCEPT ![t] = TRUE]
  /\ UNCHANGED <<shm, pc, msg, call, hdr, last_seq>>

\* The process is killed wherever it is.
Crash(t) ==
  /\ t \in Mortal /\ pc[t] # "dead"
  /\ goto(t, "dead")
  /\ mutex' = AfterDeathOf(mutex, t)
  /\ UNCHANGED <<seq, write_index, buffer, active_subscribers, newest,
                 msg, call, hdr, last_seq, down>>

PubStep(p) == Stamp(p) \/ FillHeader(p) \/ Commit(p) \/ Broadcast(p)
SubStep(s) == Count(s) \/ Sync(s) \/ Uncount(s) \/ Check(s) \/ Deliver(s)

Next ==
  \/ \E t \in Procs : Lock(t) \/ Throw(t) \/ Release(t) \/ Shutdown(t) \/ Crash(t)
  \/ \E p \in Pubs : PubStep(p) \/ \E d \in Payloads : publish(p, d)
  \/ \E s \in Subs :
        \/ SubStep(s) \/ Subscribe(s) \/ Unsubscribe(s)
        \/ Wake(s) \/ Timeout(s) \/ Reacquire(s)
        \/ \E c \in Calls : Receive(s, c)

Spec == Init /\ [][Next]_vars

\* A thread inside an operation keeps running.  Critical sections are short
\* and a waiting subscriber leaves the mutex alone for as long as it waits,
\* so a thread that keeps asking for it gets it; the timer of a timed wait
\* goes off unless wakeups always come first.
Fairness ==
  /\ \A p \in Pubs :
        /\ WF_vars(PubStep(p) \/ Release(p) \/ Throw(p))
        /\ SF_vars(Lock(p))
  /\ \A s \in Subs :
        /\ WF_vars(SubStep(s) \/ Release(s) \/ Throw(s))
        /\ SF_vars(Lock(s) \/ Reacquire(s))
        /\ SF_vars(Timeout(s))

\* Subscribers that registered a callback: asyncLoop calls receiveLoaned again
\* and again until it is told to stop.
AsyncLoop == \A s \in Subs : WF_vars(\E c \in Calls : Receive(s, c))

FairSpec == Spec /\ Fairness /\ AsyncLoop
-----------------------------------------------------------------------------
(* What the topic promises, seen through its state.  A subscriber has       *)
(* joined between the alignment of its cursor and its destruction, and has  *)
(* taken a message when it has copied the header, if it will hand it over.  *)

Joined == {"aligned", "ready", "enter", "check", "waiting", "relock", "expired",
           "giveup", "taken", "copy"}
HandsOver(s) ==
  pc[s] \in {"taken", "copy"} /\ ~(call[s].form = "raw" /\ hdr[s].body \in Oversized)
Cursor(s) ==
  IF pc[s] \notin Joined THEN -1
  ELSE IF HandsOver(s) THEN hdr[s].seq ELSE last_seq[s]

Latest == INSTANCE LatestTopic
          WITH Readers <- Subs, Contents <- Payloads, NoContent <- NoPayload,
               Numbers <- SeqMod, Away <- -1,
               latest <- newest, cursor <- [s \in Subs |-> Cursor(s)]
-----------------------------------------------------------------------------
TypeOK ==
  /\ mutex \in Mutexes(Procs)
  /\ seq \in Counter /\ write_index \in Counter
  /\ buffer \in [Slots -> Headers] /\ newest \in Headers
  /\ active_subscribers \in Nat
  /\ pc \in [Procs -> PubPCs \cup SubPCs]
  /\ \A p \in Pubs : pc[p] \in PubPCs
  /\ \A s \in Subs : pc[s] \in SubPCs
  /\ msg \in [Pubs -> Bodies]
  /\ call \in [Subs -> Calls]
  /\ hdr \in [Subs -> Headers]
  /\ last_seq \in [Subs -> Counter]
  /\ down \in [Procs -> BOOLEAN]

\* At most one thread works on the segment: a thread between its lock and its
\* unlock owns the mutex - or the mutex is beyond recovery, and then only
\* subscribers whose cond_wait could not re-lock it still look at the segment.
LockInv ==
  /\ \A t \in Procs : mutex.owner = t => pc[t] \in PubHolding \cup SubHolding
  /\ \A t \in Procs : pc[t] \in PubHolding \cup SubHolding =>
        \/ mutex.owner = t
        \/ ~Recoverable(mutex) /\ pc[t] \in {"check", "taken", "giveup"}
  /\ mutex.state = "inconsistent" => mutex.owner \in Subs \cup {NoOne}

\* A receive takes the header of the last publish that ran to its commit:
\* never a slot that is being filled or that a killed publisher left half
\* filled, also when write_index wraps to 0.  Where no publish has, because the
\* first one was killed after ++seq, that is the zero header the segment was
\* made with, and the subscriber is handed it as a message.
NewestHeader == \A s \in Subs : pc[s] = "taken" => hdr[s] = newest

\* What a receive is about to hand over is newer than all it has handed over
\* before (the comment "there must be new data here").
DeliveryIsNew ==
  \A s \in Subs : pc[s] \in {"taken", "copy"} => last_seq[s] < hdr[s].seq

\* active_subscribers counts every subscriber that is attached, so it never
\* falls short of them; it is exact while no subscriber was killed.
Attached == {s \in Subs : pc[s] \notin {"absent", "attach", "count", "detached", "failed", "dead"}}
SubscribersCounted ==
  /\ Cardinality(Attached) <= active_subscribers
  /\ (\A s \in Subs : pc[s] \notin {"failed", "dead"})
        => active_subscribers = Cardinality(Attached)

\* The mutex of a topic survives the death of its owner.
NeverStuck == Recoverable(mutex)

\* A subscriber that sleeps while a newer message is in the buffer is woken.
NoLostWakeup ==
  \A s \in Subs : (pc[s] = "waiting" /\ last_seq[s] < seq) ~> pc[s] # "waiting"

\* A receive with a timeout returns, message or not.
TimedReceiveReturns ==
  \A s \in Subs : (pc[s] = "enter" /\ call[s].wait # "block") ~> pc[s] = "ready"

\* A subscriber that keeps receiving gets to the last message published,
\* unless it is told to stop.
CatchesUp ==
  \A s \in Subs : (pc[s] = "ready" /\ last_seq[s] < seq)
                      ~> (last_seq[s] = seq \/ down[s] \/ pc[s] = "detach")

\* The topic implements LatestTopic: whatever the interleaving of publishers
\* and subscribers, messages are numbered one by one in the order in which they
\* can be found, and a receive takes the newest one there is, once.
ImplementsLatest == Latest!Spec

=============================================================================
