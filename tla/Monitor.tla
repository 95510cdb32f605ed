------------------------------- MODULE Monitor -------------------------------
(***************************************************************************)
(* A Mutex and the Conditions that belong to it (Mutex.cpp, Condition.cpp) *)
(* over the pthread objects they wrap.                                     *)
(*                                                                         *)
(* Mutex keeps a flag isLock_ next to the pthread mutex.  Lock sets it     *)
(* after it has the mutex, UnLock clears it after it has given the mutex   *)
(* away, so UnLock is two steps, UnLock and ClearFlag, and other threads   *)
(* run between them.  A waiting thread is in waiting[c] until a notify or  *)
(* a spurious wakeup takes it out; then it competes for the mutex again.   *)
(***************************************************************************)
CONSTANTS
  Threads,      \* the threads that use the mutex
  Conds,        \* its condition variables
  NoThread      \* the owner of a free mutex

VARIABLES
  owner,        \* the thread that holds mutex_
  isLock,       \* Mutex::isLock_
  waiting       \* [Conds -> SUBSET Threads]: threads blocked in pthread_cond_wait

monitorVars == <<owner, isLock, waiting>>

MonitorInit ==
  /\ owner = NoThread
  /\ isLock = FALSE
  /\ waiting = [c \in Conds |-> {}]

MonitorType ==
  /\ owner \in Threads \cup {NoThread}
  /\ isLock \in BOOLEAN
  /\ waiting \in [Conds -> SUBSET Threads]

Lock(t) == owner = NoThread /\ owner' = t /\ isLock' = TRUE

UnLock(t) == owner = t /\ owner' = NoThread /\ UNCHANGED isLock

ClearFlag == isLock' = FALSE /\ UNCHANGED owner

\* assert(mutex_.isLock()) comes first; see the clients for when it holds.
Wait(c, t) ==
  /\ owner = t
  /\ owner' = NoThread
  /\ waiting' = [waiting EXCEPT ![c] = @ \cup {t}]
  /\ UNCHANGED isLock

Notify(c) ==
  IF waiting[c] = {}
  THEN UNCHANGED waiting
  ELSE \E t \in waiting[c] : waiting' = [waiting EXCEPT ![c] = @ \ {t}]

NotifyAll(c) == waiting' = [waiting EXCEPT ![c] = {}]

\* pthread_cond_wait may return without a notify, pthread_cond_timedwait on time.
Spurious(c, t) ==
  /\ t \in waiting[c]
  /\ waiting' = [waiting EXCEPT ![c] = @ \ {t}]
  /\ UNCHANGED <<owner, isLock>>

\* A thread that no longer waits gets the mutex back: restoreMutexStatue.
Reacquire(c, t) == t \notin waiting[c] /\ Lock(t)

=============================================================================
