--------------------------- MODULE TopicRegistry ---------------------------
(***************************************************************************)
(* SystemManager::createOrGetTopic: the table of topics in the manager's   *)
(* segment, the files under /dev/shm, and the publishers and subscribers   *)
(* that look for a topic's segment, make it, or make it anew over a file   *)
(* that the table does not know.  A segment is told apart from an earlier  *)
(* one of the same file by its number; what happens inside it is           *)
(* TopicChannel's.                                                         *)
(***************************************************************************)
EXTENDS Integers, FiniteSets, RobustMutex

CONSTANTS Pubs, Subs,    \* one process per Publisher / Subscriber object
          Mortal,        \* those that may be killed (and started again)
          Names,         \* topic names
          FileOf,        \* FileOf[n] : the file of topic n, '/' replaced by '_'
          Stored,        \* Stored[n] : what the 64 bytes of an entry keep of n
          Unnamed,       \* the name in an entry nobody has written
          MAX_TOPICS,    \* entries of the table
          MaxSegments    \* bound: no Publisher is constructed once so many are made

Procs == Pubs \cup Subs
Files == {FileOf[n] : n \in Names}
StoredNames == {Stored[n] : n \in Names}

ASSUME RegistryAssumption ==
  /\ NoOne \notin Procs /\ Pubs \cap Subs = {} /\ Mortal \subseteq Procs
  /\ DOMAIN FileOf = Names /\ DOMAIN Stored = Names
  /\ Unnamed \notin Names \cup StoredNames
  /\ MAX_TOPICS \in Nat \ {0} /\ MaxSegments \in Nat

VARIABLES
  mutex, topic_count, topics,   \* SystemManagerShm
  file,       \* file[f] : the segment of that name in /dev/shm, or 0
  ready,      \* the segments whose mutex and counters were initialised
  made,       \* number of segments made so far
  pc,         \* where each process is
  name,       \* name[t] : the topic t wants
  seg         \* seg[t] : the segment t has mapped, or 0

shm == <<mutex, topic_count, topics>>
vars == <<shm, file, ready, made, pc, name, seg>>

Segments == Nat \ {0}
Slots == 0 .. MAX_TOPICS - 1
Entry == [name : StoredNames \cup {Unnamed}, active : BOOLEAN]

Holding == {"search", "create", "init", "count", "name", "activate",
            "found", "absent", "refused", "registered"}
PCs == Holding \cup {"idle", "enter", "open", "attached"}
Released == [found |-> "open", absent |-> "enter", refused |-> "idle",
             registered |-> "attached"]

goto(t, l) == pc' = [pc EXCEPT ![t] = l]

Init ==
  /\ mutex = initRobustMutex
  /\ topic_count = 0
  /\ topics = [i \in Slots |-> [name |-> Unnamed, active |-> FALSE]]
  /\ file = [f \in Files |-> 0]
  /\ ready = {} /\ made = 0
  /\ pc = [t \in Procs |-> "idle"]
  /\ name \in {[t \in Procs |-> n] : n \in Names}
  /\ seg = [t \in Procs |-> 0]
-----------------------------------------------------------------------------
\* The constructor of a Publisher or Subscriber.
createOrGetTopic(t, n) ==
  /\ pc[t] = "idle"
  /\ t \in Pubs => made < MaxSegments
  /\ name' = [name EXCEPT ![t] = n]
  /\ goto(t, "enter")
  /\ UNCHANGED <<shm, file, ready, made, seg>>

Lock(t) ==
  /\ pc[t] = "enter"
  /\ mutex.owner = NoOne /\ Recoverable(mutex)
  /\ mutex' = lockRobust(mutex, t)
  /\ goto(t, "search")
  /\ UNCHANGED <<topic_count, topics, file, ready, made, name, seg>>

\* Mutant: an entry without the flag ends the search.
BugFound(n) ==
  \E i \in Slots : /\ i < topic_count /\ topics[i] = [name |-> n, active |-> TRUE]
                   /\ \A j \in 0 .. i - 1 : topics[j].active
\* strncmp with 64 bytes: a name of 64 or more is longer than any stored one.
Found(n) ==
  \E i \in Slots : i < topic_count /\ topics[i] = [name |-> n, active |-> TRUE]

\* A topic that is there is opened after the unlock; only publishers make one.
Search(t) ==
  /\ pc[t] = "search"
  /\ \/ Found(name[t]) /\ goto(t, "found")
     \/ ~Found(name[t]) /\ t \in Subs /\ goto(t, "absent")
     \/ ~Found(name[t]) /\ t \in Pubs
          /\ goto(t, IF topic_count < MAX_TOPICS THEN "create" ELSE "refused")
  /\ UNCHANGED <<shm, file, ready, made, name, seg>>

\* O_EXCL finds a file: an orphan, it is taken to be.  It is unlinked, and
\* those who have it mapped keep it.
Reclaim(t) ==
  /\ pc[t] = "create" /\ file[FileOf[name[t]]] # 0
  /\ file' = [file EXCEPT ![FileOf[name[t]]] = 0]
  /\ UNCHANGED <<shm, ready, made, pc, name, seg>>

Create(t) ==
  /\ pc[t] = "create" /\ file[FileOf[name[t]]] = 0
  /\ made' = made + 1
  /\ file' = [file EXCEPT ![FileOf[name[t]]] = made']
  /\ goto(t, "init")
  /\ UNCHANGED <<shm, ready, name, seg>>

\* The file cannot be made for some other reason, before or after the unlink.
CreateFails(t) ==
  /\ pc[t] = "create"
  /\ goto(t, "refused")
  /\ UNCHANGED <<shm, file, ready, made, name, seg>>

\* ftruncate and mmap, and then the segment's mutex and counters.  One of the
\* two may fail; the file stays.
InitSegment(t) ==
  /\ pc[t] = "init"
  /\ \/ /\ ready' = ready \cup {made}
        /\ seg' = [seg EXCEPT ![t] = made]
        /\ goto(t, "count")
     \/ goto(t, "refused") /\ UNCHANGED <<ready, seg>>
  /\ UNCHANGED <<shm, file, made, name>>

\* topic_count++ : one more entry is looked at, before it says anything.
Count(t) ==
  /\ pc[t] = "count"
  /\ topic_count' = topic_count + 1
  /\ goto(t, "name")
  /\ UNCHANGED <<mutex, topics, file, ready, made, name, seg>>

Name(t) ==
  /\ pc[t] = "name"
  /\ topics' = [topics EXCEPT ![topic_count - 1].name = Stored[name[t]]]
  /\ goto(t, "activate")
  /\ UNCHANGED <<mutex, topic_count, file, ready, made, name, seg>>

Activate(t) ==
  /\ pc[t] = "activate"
  /\ topics' = [topics EXCEPT ![topic_count - 1].active = TRUE]
  /\ goto(t, "registered")
  /\ UNCHANGED <<mutex, topic_count, file, ready, made, name, seg>>

\* Mutant: the early return of a publisher forgets the unlock.
BugUnlock(t) ==
  /\ pc[t] \in DOMAIN Released
  /\ mutex' = IF pc[t] = "refused" THEN mutex ELSE UnlockedBy(mutex, t)
  /\ goto(t, Released[pc[t]])
  /\ UNCHANGED <<topic_count, topics, file, ready, made, name, seg>>

\* A subscriber that found nothing asks again 100 ms later; a publisher that
\* got nullptr throws.
Unlock(t) ==
  /\ pc[t] \in DOMAIN Released
  /\ mutex' = UnlockedBy(mutex, t)
  /\ goto(t, Released[pc[t]])
  /\ UNCHANGED <<topic_count, topics, file, ready, made, name, seg>>

\* shm_open and mmap of a topic found in the table, without the manager's mutex.
Open(t) ==
  /\ pc[t] = "open" /\ file[FileOf[name[t]]] # 0
  /\ seg' = [seg EXCEPT ![t] = file[FileOf[name[t]]]]
  /\ goto(t, "attached")
  /\ UNCHANGED <<shm, file, ready, made, name>>

\* The file is gone, or one of the two calls fails all the same.
OpenFails(t) ==
  /\ pc[t] = "open"
  /\ goto(t, IF t \in Subs THEN "enter" ELSE "idle")
  /\ UNCHANGED <<shm, file, ready, made, name, seg>>

\* The destructor: munmap.  Nothing is ever unregistered.
Close(t) ==
  /\ pc[t] = "attached"
  /\ seg' = [seg EXCEPT ![t] = 0]
  /\ goto(t, "idle")
  /\ UNCHANGED <<shm, file, ready, made, name>>

\* The process is killed wherever it is; it may be started again.
Crash(t) ==
  /\ t \in Mortal /\ pc[t] # "idle"
  /\ mutex' = AfterDeathOf(mutex, t)
  /\ seg' = [seg EXCEPT ![t] = 0]
  /\ goto(t, "idle")
  /\ UNCHANGED <<topic_count, topics, file, ready, made, name>>

Step(t) ==
  \/ Search(t) \/ Reclaim(t) \/ Create(t) \/ CreateFails(t) \/ InitSegment(t)
  \/ Count(t) \/ Name(t) \/ Activate(t) \/ Unlock(t) \/ Open(t) \/ OpenFails(t)

Next ==
  \E t \in Procs :
     \/ \E n \in Names : createOrGetTopic(t, n)
     \/ Lock(t) \/ Step(t) \/ Close(t) \/ Crash(t)

Spec == Init /\ [][Next]_vars

\* A process inside createOrGetTopic keeps running; whoever has the manager's
\* mutex gives it back after a few steps, so one that keeps asking gets it.  A
\* subscriber, which tries again, can open and map a file that is there some time.
Fairness ==
  /\ \A t \in Procs : WF_vars(Step(t)) /\ SF_vars(Lock(t))
  /\ \A s \in Subs : SF_vars(Open(s))

FairSpec == Spec /\ Fairness
-----------------------------------------------------------------------------
TypeOK ==
  /\ mutex \in Mutexes(Procs)
  /\ topic_count \in 0..MAX_TOPICS
  /\ topics \in [Slots -> Entry]
  /\ file \in [Files -> Segments \cup {0}]
  /\ ready \subseteq Segments /\ made \in Nat
  /\ pc \in [Procs -> PCs]
  /\ name \in [Procs -> Names]
  /\ seg \in [Procs -> Segments \cup {0}]

\* The manager's mutex belongs to whoever works on the table, and every death
\* in between leaves it fit to be locked again.
LockInv ==
  /\ Recoverable(mutex)
  /\ \A t \in Procs : mutex.owner = t <=> pc[t] \in Holding

\* No topic is registered twice: createOrGetTopic looks it up and registers
\* it in one critical section.
RegisteredOnce ==
  \A i, j \in Slots :
     topics[i].active /\ topics[j].active /\ topics[i].name = topics[j].name => i = j

\* Only orphans are reclaimed: createOrGetTopic takes a file away when, as its
\* comment says, the manager has no record of it, so a registered topic keeps
\* the segment it was registered with.  Not where two names share a file.
RegisteredKept ==
  [][\A n \in Names : Found(n) => file'[FileOf[n]] = file[FileOf[n]]]_vars

\* All who have a topic open, publishers and subscribers, share one segment,
\* initialised before anybody else could find it: whoever was killed while it
\* made the topic, and however often objects come and go.
OneSegmentPerTopic ==
  \A s, t \in Procs :
     pc[s] = "attached" /\ pc[t] = "attached" /\ name[s] = name[t]
       => seg[s] = seg[t] /\ seg[s] \in ready

\* A subscriber that waits for a topic gets it once it is registered.
SubscriberAttaches ==
  \A s \in Subs :
     (pc[s] = "enter" /\ Found(name[s])) ~> (pc[s] \in {"attached", "idle"})
=============================================================================
