---------------------------- MODULE RobustMutex ----------------------------
(***************************************************************************)
(* The PTHREAD_PROCESS_SHARED, PTHREAD_MUTEX_ROBUST mutex that every       *)
(* com_ipc segment starts with, as a value, and SystemManager::lockRobust  *)
(* on top of it.  glibc and the kernel are external; what is stated here   *)
(* is the part of their contract that com_ipc depends on:                  *)
(*                                                                         *)
(*   consistent    - the usual state;                                      *)
(*   inconsistent  - an owner died; the next lock succeeds, is told        *)
(*                   EOWNERDEAD, and must call pthread_mutex_consistent;   *)
(*   unrecoverable - an owner that was told EOWNERDEAD unlocked without    *)
(*                   doing so; every lock fails with ENOTRECOVERABLE.      *)
(***************************************************************************)
CONSTANT NoOne                  \* the owner of a mutex nobody holds

MutexStates == {"consistent", "inconsistent", "unrecoverable"}
Mutexes(T) == [owner : T \cup {NoOne}, state : MutexStates]

\* initRobustMutex, and the same sequence of calls inlined in MemoryPool.
initRobustMutex == [owner |-> NoOne, state |-> "consistent"]

Recoverable(m) == m.state # "unrecoverable"

\* pthread_mutex_lock (also the re-lock at the end of pthread_cond_wait) once
\* the mutex has no owner: 0 and EOWNERDEAD both acquire, ENOTRECOVERABLE
\* does not.
LockedBy(m, t) == IF Recoverable(m) THEN [m EXCEPT !.owner = t] ELSE m

\* Mutant: EOWNERDEAD is taken for success.
BugNeverConsistent(m, t) == [m EXCEPT !.owner = t]

\* lockRobust, once the mutex has no owner.  EOWNERDEAD is answered with
\* pthread_mutex_consistent before anything else happens; on an unrecoverable
\* mutex it throws (the callers' business) and the mutex stays as it is.
lockRobust(m, t) ==
  IF Recoverable(m) THEN [owner |-> t, state |-> "consistent"] ELSE m

\* pthread_mutex_unlock by t.  A caller that is not the owner gets EPERM and
\* changes nothing.
UnlockedBy(m, t) ==
  IF m.owner # t THEN m
  ELSE [owner |-> NoOne,
        state |-> IF m.state = "inconsistent" THEN "unrecoverable" ELSE m.state]

\* The kernel walks the robust list of a dying thread.
AfterDeathOf(m, t) ==
  IF m.owner # t THEN m ELSE [owner |-> NoOne, state |-> "inconsistent"]

=============================================================================
