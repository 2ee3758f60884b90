# com_ipc in TLA+

com_ipc is a small robotics middleware in C++: processes on one machine exchange
messages (topics), call each other (services) and run long tasks (actions)
through POSIX shared memory; a UDP layer carries topics and calls between
machines. What makes it hard is that there is no server process. The state lives
in segments that every process writes, guarded by robust mutexes; any process may
be killed at any instruction; and the survivors are supposed to go on.

This directory holds TLA+ models of that code, the TLC runs that check them on
small instances, and theorems proved with TLAPS for every value of the constants.
Line numbers refer to the sources as they are beside this directory
(`src/src/*.cpp`, `src/inc/*.h`).

## 1. The system

| Part | State | Operations | Talks to |
|---|---|---|---|
| Robust mutex (`system_manager.cpp:11-46`) | owner, consistent / inconsistent / unrecoverable | `initRobustMutex`, `lockRobust`, unlock | first field of every segment |
| Registry (`system_manager.cpp:48-380`) | tables of topics, services, nodes; files in `/dev/shm` | `createOrGetTopic`, `createOrGetService`, `registerNode`, `unregisterNode`, the boot of the first process | constructors of all the rest |
| `MemoryPool` | 100 MB and the offset of the next free byte | `allocate`, `getPointer`, `getOffset` | publishers, subscribers |
| `Publisher` | none of its own | `publishRaw`, `loanRaw` + `publishLoaned` | pool, then the topic's segment |
| `Subscriber` | `last_seq_`, a thread | constructor, `receiveRaw`, `receiveLoaned`, `asyncLoop`, destructor | topic's segment, then the pool |
| Topic segment (`TopicShm`) | `seq`, `write_index`, 20 headers, `active_subscribers`, condition variable | written under its mutex | |
| `ServiceServer` | `running_`, the copy of the request | `serviceLoop`, `spinOnce`, `shutdown` | service segment |
| `ServiceClient` | `next_req_id_` | `call` | service segment |
| Service segment (`ServiceShm`) | one request, one response, a flag each, two condition variables | written under its mutex | |
| `ActionServer`, `ActionClient` | goals, preempted goals, callbacks; threads | send, cancel, feedback, result | three topics and a service |
| `Node` | its publishers, subscribers, number | constructor, destructor | registry |
| `UDPPublisher`, `UDPSubscriber` | `current_seq_`, `last_valid_seq_` | `publish`, `receive` | the network |
| `UDPServiceClient`, `UDPServiceServer` | request id | `call`, `receive_request`, `send_response` | the network |
| `com_router`, `com_bag`, other tools, Python bindings | sockets, files | forward, record, replay, print | topics |

What must hold, and is hard to test:

- **Mutex**: a death inside a critical section costs nobody the mutex. `lockRobust`
  repairs it; the other way to get it, coming out of a condition wait, does so only
  in the service code.
- **Pool**: blocks given out since the ring last came round never overlap, lie in
  the pool, and are accepted back.
- **Topic**: a receive gets a whole, committed header, the newest; nothing twice,
  nothing backwards; no wakeup is lost; the counters wrap.
- **Service**: a request is executed once; an answer is the answer to this call;
  a call returns.
- **Payload**: what a subscriber reads from the pool is its own message, for a
  known number of later allocations.
- **Registry, boot, nodes**: all who have a topic open share one initialised
  segment; each topic is registered once; clients reach the server that started
  last; a node's entry is its own, and only the killed leave entries behind; two
  processes are in the manager's lock together only if one overtook its creator.
- **Action**: a goal is executed once, the last one sent is answered, to the
  client that asked.
- **UDP**: in order and without repetition over a network with neither; only old
  datagrams are dropped; an answer taken is the answer to this call.

PROJECT.json lists each hazard at its line with the properties aimed at it.

## 2. The modules

Each component is one module; `MC…` modules only supply TLC with symmetry sets and
the values of function-valued constants; `…Proofs` modules hold theorems. `UdpProofs` is
about both UDP modules, `LatestTopicProofs` about the two modules composed from
`LatestTopic`, `ZeroCopy` and `Action`. Their steps are conjunctions of the abstract
modules' own actions, so that ring and topics keep their promises there by construction;
the theorems are about what the composition adds.

| Module | Models | Builds on |
|---|---|---|
| `RobustMutex` | the mutex as a value, `lockRobust` | external: glibc and kernel |
| `RingAllocator` | what the pool promises: allocation in one step | |
| `MemoryPool` | `allocate`, `publishLoaned`'s check, step by step with crashes | `RobustMutex`; implements `RingAllocator` |
| `LatestTopic` | what a topic promises: the newest message and a cursor per subscriber | |
| `TopicChannel` | `TopicShm`, `Publisher`, `Subscriber` | `RobustMutex`; implements `LatestTopic` |
| `ZeroCopy` | the payload, from the loan to the reader | composes `RingAllocator` and `LatestTopic` |
| `ServiceChannel` | `ServiceShm`, `ServiceClient::call`, `serviceLoop`, `spinOnce` | `RobustMutex` |
| `TopicRegistry` | `createOrGetTopic` and the files it makes | `RobustMutex` |
| `Manager` | `SystemManager`'s constructor, the node table, `createOrGetService` | `RobustMutex` |
| `Action` | `ActionServer`, `ActionClient` | composes three `LatestTopic`s |
| `UdpTopic` | UDP publisher, subscriber and network | |
| `UdpService` | UDP client, server and network | |

**Grain.** In the shared-memory modules a step is one access to shared memory:
another process may run, or this one may be killed, between any two. Inside a
critical section that matters only for crashes, and that is why the steps are kept
apart: `++seq`, filling the header, `write_index++` and the broadcast are four
steps of `TopicChannel`. A program counter `pc[t]` names the place; lock and
unlock are written once per module, with tables (`Locked`, `Released`) saying
what follows in each operation. Every thread runs in a process of its own, so
the death of a process is the death of its one modelled thread. A dead
publisher, client or allocator stays dead; a process started again in its
place is one more element of the constant set (so in `Manager`, where a server's successor
is another process of the same names), except in `TopicRegistry`, `Action` and the
UDP modules, where a restart is an action. `Action`, `ZeroCopy` and the UDP modules
have larger steps: a whole publish or receive, which the modules below them take
apart.

**Data.** A message body is a model value. A topic header is a sequence number and
a body; pool offset, size, type and timestamp of a message stand and fall with
the body. A service request is the caller and its number. Sizes that do not match
the caller's type are left out; a message too large for `receiveRaw`'s buffer is
in (`Oversized`; the runs have none, the theorems hold for any set of them).

**RobustMutex.** `LockedBy`, `UnlockedBy`, `AfterDeathOf` are the contract of the
robust futex: a dead owner's mutex becomes *inconsistent*, the next locker is told
so and must call `pthread_mutex_consistent`, and unlocking without having done so
makes it *unrecoverable*. `lockRobust` is that call followed by the repair.

**RingAllocator, MemoryPool.** Sizes are rounded up to 8, a block that would not
fit before the end goes to 0. A loan counts how often
the ring has wrapped since (`Lent`, `Aged`); until the head has passed its block again
(`Unlapped`) nobody else is given a byte of it. `MemoryPool` splits `allocate` into entry (capacity check), lock, place,
bump, unlock; the abstract `Alloc` happens at the bump.

**TopicChannel.** `publish`, `Stamp`, `FillHeader`, `Commit`, `Broadcast` are
`publishRaw` and the second half of `publishLoaned`, which share them. The
constructor of a subscriber takes the topic's mutex twice (`Count`, `Sync`);
`Receive` is `receiveRaw` or `receiveLoaned` with timeout 0, > 0 or < 0; `Check`
is the loop with its exits; `Wake`, `Timeout`, `Reacquire` are the parts of
`pthread_cond_wait` and `_timedwait`; `Deliver` is what happens after the unlock.
`newest` is a history variable: the header as it was when it was committed.
`(write_index - 1) % BUFFER_SIZE` is computed in unsigned arithmetic, so
`NewestSlot` reduces modulo `SeqMod` first; with 2^32 and 20 this is right because
`(2^32 - 1) % 20` is not 0, the assumption `RingAssumption`.

**ServiceChannel.** `AwaitChannel` to `Collect` are `call`; `Serve` to `Announce`
are the server, with `mode` telling `serviceLoop` from `spinOnce`; `WipeRequest`
and `WipeResponse` are the two assignments of every error path, which both sides
share. `executed` is the history of requests the callback ran for.

**TopicRegistry.** The search is one step (the manager's mutex is held);
everything that outlives a crash is a step: unlinking an orphan, making the file,
initialising it, counting, naming and activating the entry. `CreateFails`,
`InitSegment` and `OpenFails` are the failures of `shm_open`, `ftruncate` and `mmap`, at
any time. Segments are numbered
so that the new file of an old name is a different segment. `FileOf` and `Stored`
say which file a name leads to and what an entry keeps of it.

**LatestTopic, ZeroCopy.** `LatestTopic` knows no mutex and no waiting. `TopicChannel`
maps to it so: the commit (`write_index++`) is `Publish`, a reader joins when its cursor
is aligned (`Sync`) and takes when it copies a header that it will hand over (`Check`).
The mapping holds while no publisher is killed. `ZeroCopy` adds to ring and topic what neither has, the content of the
pool: `mem` says which message was last written to each word. `Write` and `Read` are one
word each, so that publishers, the ring and readers overtake each other at every
word. `late` remembers that a publisher wrote to a block lent again in the meantime,
`since` how many bytes were lent after a block.

**Manager.** A process is one run of a `main()`: `Construct`…`InitCounts` are the
constructor of `SystemManager` (the creator's `shm_open`, `ftruncate` and
initialisation are separate steps, and others may come between); `Slot`…`Deactivate`
are `Node`'s constructor and destructor; `Search`…`OpenFails` are `createOrGetService` for
a server that makes or wipes the segment and for a client that waits. `idx = service_count++`
is a read (`Index`) and a write (`Count`). `early` remembers who took
the mutex before its creator had initialised everything. What such processes do is followed to the
end: two of them may register more services than there is room for, as the test for a full table
(`system_manager.cpp:282`) is far above the entry, and `Register` then writes behind the table, over
`node_count` and the first nodes (`Overwritten`); a search that goes through that memory may find
what is there (`MayFind`). The properties about tables are stated for orderly starts.
`node_count` itself is left out because nobody reads it.

**Action.** A goal is who sent it and the number it got. The server's loop is `Loop` (the test of `running_`), `ReceiveGoal`
or `ReceiveNothing`, which come after it even if the server is shut down meanwhile, `Accept`, `Pick`, the callback with `PublishFeedback` and `PublishResult`; each client has its two loops and
dictionaries. Three sets of numbers (`pending_goals_`, `active_goals_`, `preempted_goals_`) are
left out: the first is never read, the others only by the cancel callback, which nobody
runs, and by `isPreempted`, which is therefore always false.

**UdpTopic, UdpService.** In `UdpTopic` the network is the set of all datagrams sent;
receiving takes none out. That is loss (never received), duplication (received twice)
and reordering. In `UdpService` a datagram is taken out when it arrives, and a
send puts in 0, 1 or 2 copies: there it matters that an answer under way will arrive.
`Noise` is a datagram of anybody else, at any time; the client ignores it, and its timer starts anew.

## 3. The runs

Each run finishes in about two minutes or less with two workers. `CHECK_DEADLOCK
FALSE` is set wherever the system may stop (processes end, are killed, or reach the
bound on calls); where it must not stop, a liveness property says so.

| Run | Question | Bounds |
|---|---|---|
| `pool` | is `MemoryPool`, interleaved and with deaths, a `RingAllocator`; which of its pointers are refused; does `allocate` return | 2 threads, 1 mortal; pool of 32 bytes; requests of 0, 3, 8, 16, 33 bytes |
| `zerocopy` | what does a subscriber find in a block, and for how long | 2 publishers, 1 subscriber; 5 messages, two of 8 and three of 16 bytes; pool of 32 bytes |
| `topic_crash` | lock discipline, header taken = header committed, subscriber count | 2 publishers, 1 subscriber, all mortal and signalled; 3 slots, counters modulo 5 that wrap |
| `topic_live` | is it a `LatestTopic`; nothing twice, nothing backwards, no lost wakeup; timed receives return; subscribers catch up | 1 publisher, 2 asynchronous subscribers, 2 messages, 2 slots |
| `topic_stuck` | violated: the topic survives a death while someone is in `cond_wait` | 1 publisher, 1 subscriber |
| `service` | lock discipline, at most once, a call returns whatever the server does | 2 clients of 1 call, server in both modes; a client and the server mortal, the other client signalled |
| `service_mixup` | violated: an answer taken is the answer to this call | 2 clients of 1 call, nobody killed |
| `registry` | one entry, one segment per topic; a subscriber gets a registered topic | 2 publishers, 1 of them mortal and started again, 1 subscriber; 2 names, 3 entries, 3 segments |
| `manager` | who is in the lock together, and how many; is the table of services overrun; are nodes found and only the killed left; do clients reach the last server | 2 servers of one service and one node name, 1 of them mortal, 1 client; 2 nodes, 1 service |
| `action` | is a goal executed once, answered, and to whom; how long does the queue get | 2 clients, 2 goals in all; 2 servers, one after the other, stopped or killed |
| `udp` | order, no repetition; of a sender that is alone and has not restarted only old datagrams are dropped | 2 senders with 1 restart each, 2 subscribers, 4 datagrams |
| `udp_service` | is an answer taken the right one, is it found | 2 clients on one port, 2 calls in all, ids modulo 2, up to 2 copies of each datagram, 1 foreign datagram for either side, 1 crash of the server |

Why the bounds suffice. The ring of 3 slots and counters modulo 5 wrap at different
times, as 20 and 2^32 do, and `(5 - 1) % 3` is not 0, as the code needs. Two
publishers are enough for any order of two critical sections. The requests to the
pool include those that end exactly at its end, fill it, and exceed it, and an empty one, which
is refused at the end and nowhere else. The five
messages of `zerocopy` go round the ring twice and leave a gap at its end. In the
registry three entries and a death are enough for a hole, an orphan and a second
creation of the same name. In `manager` three processes fill a table of two nodes, two servers
wipe each other, and a creator can be overtaken by two others. The one entry for a service is used up
by a server killed before it sets the flag, so that its successor meets a full table without
an active entry; and two early servers together write behind it. A larger table, where the successor
takes the next entry, is left to the theorems. `service` gives each client one call: the late answer
to one client then meets the pending request of the other, which is the case two
calls of one client add to it; at-most-once and the lock discipline are theorems
for any number of calls. Two goals are enough for one to displace the other on its
topic, and for two clients to use the same number. Sequence numbers do not wrap in `udp` (4 datagrams, 8
numbers): after a wrap the filter compares numbers of different rounds, see
section 6. Request ids come round to 0 in `udp_service`, and `OwnReply` holds for any modulus by proof.

The runs of the modules with a type correctness theorem do not check the type
invariant again.

Liveness properties are stated under the fairness of `Fairness` in each module:
weak fairness for a thread in the middle of an operation; strong fairness for
getting a mutex that others get too (critical sections are a few instructions
without calls that block; a waiting subscriber or client leaves the mutex free
for most of its timeout), and for the timer of a timed wait, which is computed
anew after every wakeup and so goes off only if wakeups do not always come first.
None is assumed of `publish`, `call` or a service callback: nobody has to publish,
call or finish. The asynchronous subscribers of `topic_live` are fair in calling
`receiveLoaned` again, because `asyncLoop` does nothing else.
`Manager`: a process inside a call goes on, and a client that keeps asking gets the
mutex and can, one of the times it tries, open and map a file that is there; a subscriber in
`TopicRegistry`, which tries again as well, likewise. A server may wait for it forever, none has to be started or to stop.
`Action`: the loops of server and clients go on, callbacks return; nobody has to send, start or ask for
a result. `UdpService`: a waiting client takes what arrives; its timer goes off, or it throws
datagrams away for ever, each of which starts the timer anew; the server owes nothing.

Each property of a passing run has a mutant in PROJECT.json: a definition of the
model with a plausible programming error (an unlock forgotten on an early return,
`seq++` for `++seq`, `signal` for `broadcast`, a flag left up, the end of the pool
off by one…), under which TLC finds the property violated.

## 4. What the models say about the code

Two properties fail, each in its own run; PROJECT.json ("findings") quotes the
line each one contradicts.

1. `subscriber.cpp:77`: `EOWNERDEAD` out of a condition wait is not answered; the
   next unlock makes the topic's mutex unusable for good (`topic_stuck`). The
   service code answers it, and its lock discipline is a theorem.
2. `service_client.h:78`: ids are per client and the pid is not compared, so one
   client can take another's late answer (`service_mixup`).

More cases are kept out of the passing runs by their bounds or by a condition of the
property. TLC shows each when that is lifted as described.

Topics and pool:

- `publisher.cpp:30`: a publisher killed between `++seq` and `write_index++`
  leaves them apart; subscribers then receive the previous message again and
  again until someone publishes. `DeliveryIsNew` and `ImplementsLatest` fail in
  `topic_live` with `Mortal = {p1}`.
- `publisher.cpp:24`, `subscriber.cpp:106`: nobody holds the ring back. A reader
  overtaken by the ring finds other messages in its block, and so does the reader of
  the newer message when a slow publisher is overtaken: `PayloadIntact` fails in `zerocopy`
  without `Unlapped`, or without `~late`. `SafeWindow` says how much may be lent before
  either can happen: the pool less the block, and less what a block too large for the end leaves there.
- `memory_pool.cpp:94`: `loanRaw(0)` after a loan that ended at the end of the pool gives the address
  behind it, which `getOffset` refuses and `publishLoaned` drops. `RefusedOnlyEmpty` says that
  this is the only such case; `NeverRefused`, as an invariant of `pool`, fails.

Names, services, nodes:

- `system_manager.cpp:172`: topics `a/b` and `a_b` share a file; making one
  disconnects the users of the other. `OneSegmentPerTopic` fails in `registry` with
  `Names = {ab, a_b}`, and so does `RegisteredKept`: what the comment at
  `system_manager.cpp:172` takes for an orphan is registered.
- `system_manager.cpp:217`: a name of 64 bytes or more is stored cut off and never
  found again. `RegisteredOnce` fails in `registry` with `Names = {long}`.
- `service_server.cpp:69`: the flag lowered after a callback may belong to a newer
  request, which is then never handled. `PendingIsFlagged` (in `ServiceChannel`, not
  checked by a run) fails for one client with two calls.
- `system_manager.cpp:61`: whoever starts while the first process is still in its
  constructor is killed by SIGBUS or uses a mutex that is then initialised under it;
  `Exclusion` fails in `manager` without its condition. Two servers in the lock together can both
  pass the test for a full table and register (`system_manager.cpp:320`), one of them behind it:
  `WithinTables` fails without `Orderly`. If the first process is killed
  there, nobody initialises the segment after it.
- `system_manager.cpp:241`: after a restart of a server its clients keep the old
  segment and time out for ever; and while the new one is being made, a client may open
  it before it is initialised (`system_manager.cpp:267`): no property excludes either.
- `system_manager.cpp:387`: `getNodePid` gives the pid of a killed namesake as long as
  its entry comes first, so `com_node kill` misses the living one: `KillReachesLiving` fails in
  `manager`, and `NodesFound` holds because it allows for `pc[p] = "dead"`.

Actions:

- `action_client.cpp:6`: goal numbers start at 0 in every client, and every client
  takes every result: `OwnAnswers` fails in `action` without its condition.
- `action_server.cpp:83`: of goals sent in a burst or during a callback only the last
  is executed; the clients of the others wait for a result that never comes. `goal_queue_` never
  holds more than one (`QueueOfOne`).
- `action_server.cpp:18`: the cancel service is made and never started, so
  `cancelGoal` always times out.

UDP:

- `udp_node.cpp:101`: a restarted sender is mute until its numbers have passed the
  old ones, and so is a second sender on the same port. `OnlyStaleDropped` fails in
  `udp` without its condition `d.life = 0`, or without the one on other senders, and
  `OnlyGhostsDropped`, which is what the comment there says of the datagrams dropped, has neither.
- `udp_node.cpp:174`: the reply's sender is not compared. A client on a port that another had
  before takes that one's late answer as its own, and so does a client whose ids have come
  round: `OwnReply` fails in `udp_service` without either condition (without the second one,
  once `MaxCalls` and `MaxInAll` are 3).
- `udp_node.cpp:162`: the timeout counts from the last datagram of any kind, so that a call with one
  need not return while others keep sending: `CallReturns`, as a property of `udp_service`, fails.
  With `timeout_ms = 0` the call waits for ever.
- `udp_node.cpp:201`: the server keeps nothing of earlier requests; one the network delivers twice is executed
  twice.

`com_router`'s exporter begins each frame with `HYBR` (`com_router.cpp:99`) and its importer
refuses a connection that does not begin with `CIPC` (`com_router.cpp:143`): the two do not work together.

## 5. The proofs

All theorems are checked by TLAPS to the last step. They hold for every value of
the constants that satisfies the named assumptions of the module, which are what
the code gives: sizes are multiples of 8, thread sets are disjoint, the ring
assumption above. The sets of threads, of those that may be killed and of those
that are interrupted are arbitrary.

| Theorem | Says | By |
|---|---|---|
| `RingInvariant`, `RingLoansDisjoint` | loans not passed again are disjoint | every loan lies behind the head in this lap or before it in the last, and those of one lap are ordered |
| `PoolTypeCorrect`, `PoolLockDiscipline` | head and offsets stay in the pool; the mutex excludes and survives | owner = the thread in the critical section |
| `PoolImplementsRing` | every `MemoryPool` step is an `Alloc`, another allocator step, or none | between place and bump the offset is what `PlaceAt` gives for the present head, as nobody else holds the mutex |
| `PoolLoansDisjoint`, `PoolLoansInPool` | the allocator's promises hold of `MemoryPool` | the refinement and the allocator's invariant |
| `PoolRefusesOnlyEmpty` | every pointer is accepted back, but that of an empty block at the very end | what is placed ends in the pool, so only an empty block begins at its end |
| `TopicTypeCorrect` | slots and counters in range across wraps | arithmetic of `%`, `RingFacts` |
| `TopicLockDiscipline` | one thread at a time works on a segment, until the mutex is unrecoverable; then no publisher does | |
| `TopicNewestHeader` | a receive takes the last committed header | the slot a publisher fills is not the newest one, and `write_index++` makes it so |
| `TopicImplementsLatest` | every step is a `LatestTopic` step or none | assumes no publisher is killed; `seq`, the newest slot and the history agree outside the critical section, and what is copied is the newest header |
| `TopicSubscribersCounted` | the count is never short | assumes a finite set of subscribers; with the types it is inductive, as each step changes the count by one with the subscriber it stands for |
| `TopicDeliveryIsNew` | nothing twice, nothing backwards | assumes no publisher is killed; outside its critical section `seq` is the newest header's number |
| `ServiceTypeCorrect` | types, ids within the bound | a call that has not drawn its number may still do so |
| `ServiceLockDiscipline` | a service's mutex can always be locked again | an inconsistent mutex is owned by nobody, or by a thread that is resetting the flags and repairs it before the unlock |
| `ServiceAtMostOnce` | no request is executed twice, for any number of clients | `OnceInv`: a number is new when written; a raised request has been executed only while the server is between callback and lowering the flag |
| `ServiceOwnAnswer` | a single client takes its own answers | assumes one client; `service_mixup` shows why |
| `RegistryTypeCorrect`, `RegistryLockDiscipline` | the table is never written past its end; the manager's mutex excludes and survives | whoever makes a topic has found room, and nobody else counts meanwhile |
| `RegistryRegisteredOnce` | each topic has one entry | assumes `NamesFit`, `FilesDiffer`; whoever makes a topic has found no entry for it, and an active entry stays one |
| `RegistryOneSegment` | all who have a topic open share one initialised segment | same assumptions (section 4 shows why); the file of an active entry is initialised and not unlinked |
| `ManagerTypeCorrect` | types, early starts included; ids of nodes lie in their table | |
| `ManagerExclusion` | two in the lock together: one overtook the creator | `BootInv`: one creator at a time; whoever is in the critical section and did not come early owns the mutex of an initialised segment |
| `ManagerTwoAtMost` | never three in the lock together | `LostInv`: whoever is in the lock without owning the mutex had it when it was made anew, and it is made once |
| `ManagerWithinTables` | after orderly starts the table of services is not written outside | `CountInv`: between the test for room and the entry nobody else counts |
| `ManagerNodesFound`, `ManagerOnlyKilledRemain` | a node keeps its entry and is found; an entry taken is held or its process was killed | `NodeInv`: who has an id and the entry it points at name each other, and of the entries of one name the first is such a one (`MinOfNaturals`) |
| `ManagerLastServerFound` | the last server's name is registered and leads to its segment, initialised | `ServerInv`: whoever makes a segment is the last that searched, the entry it will write is free, so an entry found is never lost, and the file is its own |
| `ZeroCopySafeWindow` | a block is good until nearly a pool has been lent after it | `WindowInv`: bytes lent since, block and head add up, lap by lap, for any sizes up to `Largest` |
| `ZeroCopyPayloadIntact` | a subscriber finds its own message in a block not lapped | `CopyInv`: the written part of a block not lapped holds its own message, because whoever else writes does so in a disjoint one; messages that leave their publisher are complete |
| `ZeroCopyTypeCorrect` | types: nobody writes past a block | `CopyInv` and the numbering |
| `ActionTypeCorrect` | types, across wraps of the message numbers | `LoopInv`: the buffer holds a goal in "accept" only, the queue in "pick" only; a number above 0 has a message |
| `ActionQueueOfOne` | `goal_queue_` never holds two goals | `LoopInv` |
| `ActionOwnAnswers` | a number nobody else has used finds its own answers | `SentInv`: wherever a goal is met it has been sent, and is filed under its own number |
| `ActionGoalOnce` | no goal is executed twice, whatever becomes of the servers | `FreshInv`: what is on its way to the server is unexecuted, and the topic's goal is not on its way again; no assumption about wraps is needed, since a cursor equals the number of the last goal taken until another is sent |
| `UdpTypeCorrect` | types, `seq_id` within its bits | |
| `UdpInOrderNoDuplicates` | of one sender, nothing twice and nothing backwards | assumes `NoWrap`; numbers follow the order of sending, and the subscriber's number is larger than all it has handed over |
| `UdpOnlyStaleDropped` | what is dropped of a sender alone on the port, in its first life, is not newer than all that was handed over | assumes `NoWrap`; the subscriber's number is one it has handed over (`Covered`), equal numbers of one life are one datagram, and a later life sends later |
| `UdpServiceTypeCorrect` | types, ids within their bits | |
| `UdpServiceOwnReply` | an answer taken is the answer to this call, which was executed | every datagram carries the id of the call it belongs to, and no other call of this port has had it: ids follow the number of calls until they come round |

Each safety theorem follows one scheme: a type invariant and a lock invariant, each
inductive, then the property with the strengthening in the last column; one step
per action, grouped where actions disturb the same conjunct, and a "kept" lemma
for the actions that disturb nothing.

Only model-checked: all liveness and everything that needs it (`AllocateReturns`,
`NoLostWakeup`, `TimedReceiveReturns`, `CatchesUp`, `ServiceChannel`'s `CallReturns`, `SubscriberAttaches`,
`ClientAttaches`, `LastGoalAnswered`, `ReplyFound`; out of the prover's reach). Every
invariant that a run checks is a theorem. The two properties violated in runs of their own are shown
by TLC's counterexamples; those that section 4 says fail in another run (`NeverRefused`, `RegisteredKept`,
`KillReachesLiving`, `PendingIsFlagged`, `OnlyGhostsDropped`, `UdpService`'s `CallReturns`) are stated in
their modules, and TLC shows it once they are added to that run's configuration, with
the constants section 4 names.

## 6. Limits

- glibc's condition variables are taken to work when a waiter or signaller is
  killed. POSIX does not promise it, and glibc's are not robust; `Broadcast` is
  atomic.
- A step is a source line's access to memory. Compilers and processors may reorder
  the stores inside a critical section, which only a crash could expose; then more
  states than these are possible after one.
- `seq` that wraps leaves subscribers deaf until it has caught up with
  `last_seq_`; `topic_crash` contains the wrap and shows that what a receive takes
  is the newest header, not that every new message is received. The same holds of `seq_id` over UDP; and
  0 after a wrap is let through repeatedly by a subscriber that starts with it.
- `Subscriber` and `ServiceClient` constructed after the shutdown flag is up leave
  `shm_ptr_` uninitialised (`subscriber.cpp:7`, `service_client.cpp:7`): reading
  it is undefined, and no operation is modelled from there.
- The race of first processes in `MemoryPool`'s constructor (`memory_pool.cpp:27`) has the
  form of `SystemManager`'s and is modelled only there.
- What is written behind the service table is followed by whole fields: a node's name lost, its pid and
  flag arbitrary. What a third overrun would reach is not told apart from the second.
- An action's callback publishes one result and returns; a callback that publishes none
  leaves its client waiting, which is the user's doing. A server is killed outside
  `publishRaw` and `receiveRaw`, whose crashes are `TopicChannel`'s subject.
- A malformed datagram (shorter than the header) is dropped without a change of
  state and is not an action.
- Timeouts are events that may happen at any time while the wait lasts; durations
  are not modelled.

## 7. Plan

Done: every component that keeps state and takes part in communication, from the
robust mutex to actions and the two UDP protocols; the abstract pool and topic with
their refinements, the modules composed from them, and a theorem for every invariant the runs check.

Next, in this order:

1. At-most-once and the lock discipline carried over to restarted servers, by composing
   `Manager` with `ServiceChannel`.
2. `MemoryPool`'s constructor.
3. What an early start can spoil at most: how many entries behind the table, and which nodes stay found.

## Not modelled

`com_router` (socket I/O around `Subscriber` and `Publisher`; its halves speak different
formats, so there is no exchange to state properties of), `com_bag` (file I/O and pacing), `com_topic`, `com_node`
and `com_multicast_sender` (command lines, no state of their own), the Python bindings (each call
is one modelled call), and the vendored `json.hpp`, which is third-party code and nine
tenths of the repository's lines.
