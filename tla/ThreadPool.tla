----------------------------- MODULE ThreadPool ------------------------------
(***************************************************************************)
(* The pool of worker threads (ThreadPool.cpp, Thread.cpp): start, put,    *)
(* take, Thread_func and stop, one action per critical section or access   *)
(* to shared state outside one.  The workers are started one after the     *)
(* other: Thread::start waits on its CountDownLatch until the new thread   *)
(* has counted it down, which is one step here; module Thread has them     *)
(* all.                                                                    *)
(*                                                                         *)
(* assert is not modelled as an abort: where an assert stands, an          *)
(* invariant says that it holds.                                           *)
(***************************************************************************)
EXTENDS Naturals, SequencesExt

CONSTANTS
  Workers,      \* threads_
  Producers,    \* threads that call put
  Main,         \* the thread that calls start and stop
  Tasks,        \* the tasks that are put, each once
  NoTask,       \* the empty std::function
  NoThread,
  Queue_max_size,
  MayStop,      \* Main may call stop
  MaxSpurious   \* bound on the waits that return without a notify

ASSUME PoolAssumption ==
  /\ Queue_max_size \in Nat /\ MaxSpurious \in Nat
  /\ NoTask \notin Tasks
  /\ Workers \cap Producers = {} /\ Main \notin Workers \cup Producers
  /\ NoThread \notin Workers \cup Producers \cup {Main}
  /\ IsFiniteSet(Workers) /\ IsFiniteSet(Producers)

Threads == Workers \cup Producers \cup {Main}
Conds == {"Full", "Empty"}

VARIABLES
  owner, isLock, waiting,   \* mutex_, Full_cond_ and Empty_cond_: see Monitor
  Queue,        \* Queue_
  running,      \* running_
  pc,           \* [Threads -> Places]
  task,         \* [Workers \cup Producers -> Tasks \cup {NoTask}]: the task in hand
  done,         \* tasks that have been run
  spurious,     \* spurious wakeups so far
  threads       \* threads_, without those that stop has joined

INSTANCE Monitor

vars == <<owner, isLock, waiting, Queue, running, pc, task, done, spurious, threads>>

Places ==
  {"none", "born", "test", "enter", "take", "empty", "unlock", "run", "exit",
   "failed", "idle", "put", "full", "init", "start", "up", "stop", "join", "down", "aborted"}

Init ==
  /\ MonitorInit
  /\ Queue = <<>>
  /\ running = FALSE
  /\ pc = [t \in Threads |-> IF t \in Workers THEN "none" ELSE IF t = Main THEN "init" ELSE "idle"]
  /\ task = [t \in Workers \cup Producers |-> NoTask]
  /\ done = {}
  /\ spurious = 0
  /\ threads = <<>>

Goto(t, p) == pc' = [pc EXCEPT ![t] = p]

-----------------------------------------------------------------------------
(***************************************************************************)
(* start: running_ is set, then the threads are made one by one.  That may *)
(* fail, which nobody notices before stop joins the thread.                *)
(***************************************************************************)
StartPool ==
  /\ pc[Main] = "init"
  /\ running' = TRUE
  /\ Goto(Main, "start")
  /\ UNCHANGED <<owner, isLock, waiting, Queue, task, done, spurious, threads>>

\* Threads are interchangeable, so the next one to be made is any that is not.
Unmade == {w \in Workers : pc[w] = "none"}

StartThread(w) ==
  /\ pc[Main] = "start" /\ Unmade # {} /\ w = CHOOSE v \in Unmade : TRUE
  /\ \A v \in Workers : pc[v] # "born"
  /\ threads' = Append(threads, w)
  /\ Goto(w, "born") \/ Goto(w, "failed")
  /\ UNCHANGED <<owner, isLock, waiting, Queue, running, task, done, spurious>>

Countdown(w) ==
  /\ pc[w] = "born"
  /\ Goto(w, "test")
  /\ UNCHANGED <<owner, isLock, waiting, Queue, running, task, done, spurious, threads>>

Started ==
  /\ pc[Main] = "start"
  /\ \A w \in Workers : pc[w] \notin {"none", "born"}
  /\ Goto(Main, "up")
  /\ UNCHANGED <<owner, isLock, waiting, Queue, running, task, done, spurious, threads>>

-----------------------------------------------------------------------------
(***************************************************************************)
(* Thread_func and take.  running_ is read without the lock in Thread_func *)
(* and with it in take.                                                    *)
(***************************************************************************)
TestRunning(w) ==
  /\ pc[w] = "test"
  /\ Goto(w, IF running THEN "enter" ELSE "exit")
  /\ UNCHANGED <<owner, isLock, waiting, Queue, running, task, done, spurious, threads>>

TakeLock(w) ==
  /\ \/ pc[w] = "enter" /\ Lock(w)
     \/ pc[w] = "empty" /\ Reacquire("Empty", w)
  /\ Goto(w, "take")
  /\ UNCHANGED <<waiting, Queue, running, task, done, spurious, threads>>

TakeWaits == Queue = <<>> /\ running

TakeWait(w) ==
  /\ pc[w] = "take" /\ TakeWaits
  /\ Wait("Empty", w)
  /\ Goto(w, "empty")
  /\ UNCHANGED <<Queue, running, task, done, spurious, threads>>

\* Mutant: front without pop_front.
TakeNoPop(w) ==
  /\ pc[w] = "take" /\ ~TakeWaits
  /\ IF Queue # <<>>
     THEN task' = [task EXCEPT ![w] = Head(Queue)] /\ Notify("Full")
     ELSE UNCHANGED <<task, waiting>>
  /\ UnLock(w)
  /\ Goto(w, "unlock")
  /\ UNCHANGED <<Queue, running, done, spurious, threads>>

\* Mutant: take does not tell the putters that there is a free place.
TakeSilent(w) ==
  /\ pc[w] = "take" /\ ~TakeWaits
  /\ IF Queue # <<>>
     THEN task' = [task EXCEPT ![w] = Head(Queue)] /\ Queue' = Tail(Queue)
     ELSE UNCHANGED <<task, Queue>>
  /\ UnLock(w)
  /\ Goto(w, "unlock")
  /\ UNCHANGED <<waiting, running, done, spurious, threads>>

Take(w) ==
  /\ pc[w] = "take" /\ ~TakeWaits
  /\ IF Queue # <<>>
     THEN /\ task' = [task EXCEPT ![w] = Head(Queue)]
          /\ Queue' = Tail(Queue)
          /\ Notify("Full")
     ELSE UNCHANGED <<task, Queue, waiting>>
  /\ UnLock(w)
  /\ Goto(w, "unlock")
  /\ UNCHANGED <<running, done, spurious, threads>>

Run(w) ==
  /\ pc[w] = "run"
  /\ done' = done \cup ({task[w]} \ {NoTask})
  /\ task' = [task EXCEPT ![w] = NoTask]
  /\ Goto(w, "test")
  /\ UNCHANGED <<owner, isLock, waiting, Queue, running, spurious, threads>>

-----------------------------------------------------------------------------
(***************************************************************************)
(* put, called with a task that has not been put yet.                      *)
(***************************************************************************)
Fresh == {k \in Tasks : k \notin done /\ k \notin Range(Queue) /\ k \notin Range(task)}

\* Mutant: > for >=.
isFullLate == Len(Queue) > Queue_max_size

isFull == Len(Queue) >= Queue_max_size

PutLock(p) ==
  /\ \/ pc[p] = "idle" /\ Lock(p) /\ \E k \in Fresh : task' = [task EXCEPT ![p] = k]
     \/ pc[p] = "full" /\ Reacquire("Full", p) /\ UNCHANGED task
  /\ Goto(p, "put")
  /\ UNCHANGED <<waiting, Queue, running, done, spurious, threads>>

PutWait(p) ==
  /\ pc[p] = "put" /\ isFull
  /\ Wait("Full", p)
  /\ Goto(p, "full")
  /\ UNCHANGED <<Queue, running, task, done, spurious, threads>>

\* Mutant: put notifies only when the queue was empty.
PutNotifyFirst(p) ==
  /\ pc[p] = "put" /\ ~isFull
  /\ Queue' = Append(Queue, task[p])
  /\ task' = [task EXCEPT ![p] = NoTask]
  /\ IF Queue = <<>> THEN Notify("Empty") ELSE UNCHANGED waiting
  /\ UnLock(p)
  /\ Goto(p, "unlock")
  /\ UNCHANGED <<running, done, spurious, threads>>

Put(p) ==
  /\ pc[p] = "put" /\ ~isFull
  /\ Queue' = Append(Queue, task[p])
  /\ task' = [task EXCEPT ![p] = NoTask]
  /\ Notify("Empty")
  /\ UnLock(p)
  /\ Goto(p, "unlock")
  /\ UNCHANGED <<running, done, spurious, threads>>

-----------------------------------------------------------------------------
(***************************************************************************)
(* stop: the critical section, then the joins, in the order in which the   *)
(* threads were made.  The join of one that could not be made aborts.      *)
(***************************************************************************)
StopLock ==
  /\ MayStop /\ pc[Main] = "up" /\ Lock(Main)
  /\ Goto(Main, "stop")
  /\ UNCHANGED <<waiting, Queue, running, task, done, spurious, threads>>

\* Mutant: stop wakes one worker only.
StopNotifyOne ==
  /\ pc[Main] = "stop"
  /\ running' = FALSE
  /\ Notify("Empty")
  /\ UnLock(Main)
  /\ Goto(Main, "unlock")
  /\ UNCHANGED <<Queue, task, done, spurious, threads>>

Stop ==
  /\ pc[Main] = "stop"
  /\ running' = FALSE
  /\ NotifyAll("Empty")
  /\ UnLock(Main)
  /\ Goto(Main, "unlock")
  /\ UNCHANGED <<Queue, task, done, spurious, threads>>

Join ==
  /\ pc[Main] = "join"
  /\ \/ /\ threads # <<>> /\ pc[Head(threads)] = "exit"
        /\ threads' = Tail(threads) /\ UNCHANGED pc
     \/ /\ threads # <<>> /\ pc[Head(threads)] = "failed"
        /\ Goto(Main, "aborted") /\ UNCHANGED threads
     \/ threads = <<>> /\ Goto(Main, "down") /\ UNCHANGED threads
  /\ UNCHANGED <<owner, isLock, waiting, Queue, running, task, done, spurious>>

\* The second half of Mutex::UnLock.
UnLocked(t) ==
  /\ pc[t] = "unlock"
  /\ ClearFlag
  /\ Goto(t, IF t = Main THEN "join" ELSE IF t \in Workers THEN "run" ELSE "idle")
  /\ UNCHANGED <<waiting, Queue, running, task, done, spurious, threads>>

SpuriousWakeup(c, t) ==
  /\ spurious < MaxSpurious /\ Spurious(c, t)
  /\ spurious' = spurious + 1
  /\ UNCHANGED <<Queue, running, pc, task, done, threads>>

-----------------------------------------------------------------------------
WorkerStep(w) ==
  \/ Countdown(w) \/ TestRunning(w) \/ TakeLock(w) \/ TakeWait(w) \/ Take(w) \/ Run(w)
  \/ UnLocked(w)

ProducerStep(p) == PutLock(p) \/ PutWait(p) \/ Put(p) \/ UnLocked(p)

MainStep ==
  \/ StartPool \/ Started \/ StopLock \/ Stop \/ Join \/ UnLocked(Main)
  \/ \E w \in Workers : StartThread(w)

Next ==
  \/ \E w \in Workers : WorkerStep(w)
  \/ \E p \in Producers : ProducerStep(p)
  \/ MainStep
  \/ \E c \in Conds, t \in Threads : SpuriousWakeup(c, t)

Spec == Init /\ [][Next]_vars

(***************************************************************************)
(* Every thread keeps running.  A thread that wants the mutex is not owed  *)
(* it by the kernel, but there are finitely many tasks to put, so the      *)
(* others cannot keep it away for ever; spurious wakeups end likewise.     *)
(* Main need not call stop.                                                *)
(***************************************************************************)
FairSpec ==
  /\ Spec
  /\ \A w \in Workers : WF_vars(WorkerStep(w))
  /\ \A p \in Producers : WF_vars(ProducerStep(p))
  /\ WF_vars(StartPool \/ Started \/ Stop \/ Join \/ UnLocked(Main) \/ \E w \in Workers : StartThread(w))

-----------------------------------------------------------------------------
TypeOK ==
  /\ MonitorType
  /\ Queue \in Seq(Tasks) /\ running \in BOOLEAN
  /\ pc \in [Threads -> Places]
  /\ task \in [Workers \cup Producers -> Tasks \cup {NoTask}]
  /\ done \subseteq Tasks /\ spurious \in 0 .. MaxSpurious /\ threads \in Seq(Workers)

(***************************************************************************)
(* The monitor: a thread owns the mutex exactly inside take, put or stop,  *)
(* and only threads inside cond_.Wait() are queued on its condition.       *)
(***************************************************************************)
Exclusive ==
  /\ \A t \in Threads : pc[t] \in {"take", "put", "stop"} <=> owner = t
  /\ \A w \in waiting["Empty"] : w \in Workers /\ pc[w] = "empty"
  /\ \A p \in waiting["Full"] : p \in Producers /\ pc[p] = "full"

(***************************************************************************)
(* The queue never exceeds Queue_max_size, however many putters are let    *)
(* out of Full_cond_.Wait() together.                                      *)
(***************************************************************************)
Bounded == Len(Queue) <= Queue_max_size

(***************************************************************************)
(* Nobody sleeps while there is work for him: if a worker is blocked in    *)
(* take, there are at least as many workers on their way back from         *)
(* Empty_cond_ as there are queued tasks, and after stop nobody is blocked *)
(* in take; if a putter is blocked, there are as many putters on their way *)
(* back as there are free places.  Notify wakes one thread only, and the   *)
(* one it wakes may find that another was faster.                          *)
(***************************************************************************)
Returning(c, in, at) == {t \in Threads : pc[t] = at \/ (pc[t] = in /\ t \notin waiting[c])}

NoLostWakeup ==
  /\ waiting["Empty"] # {} => running /\ Len(Queue) <= Cardinality(Returning("Empty", "empty", "take"))
  /\ waiting["Full"] # {} =>
       Queue_max_size - Len(Queue) <= Cardinality(Returning("Full", "full", "put"))

(***************************************************************************)
(* A task is in one hand only: of its putter, of the queue, of one worker, *)
(* or it has been run; it is never run twice.                              *)
(***************************************************************************)
TaskOnce ==
  /\ \A k \in Tasks :
       /\ k \in done => k \notin Range(Queue) /\ k \notin Range(task)
       /\ k \in Range(Queue) => k \notin Range(task)
  /\ IsInjective(Queue)
  /\ \A t, u \in Workers \cup Producers : task[t] = task[u] /\ task[t] # NoTask => t = u

(***************************************************************************)
(* assert(mutex_.isLock()) in Condition::Wait: a thread that has the mutex *)
(* and is about to wait sees isLock_ set.                                  *)
(***************************************************************************)
WaitAssert ==
  \A t \in Threads :
    (pc[t] = "take" /\ TakeWaits) \/ (pc[t] = "put" /\ isFull) => isLock

(***************************************************************************)
(* Once stop has cleared running_, it joins every worker and returns,      *)
(* unless a thread could not be made: join then fails assert(start_).      *)
(***************************************************************************)
Crippled == \E w \in Workers : pc[w] = "failed"

StopReturns == pc[Main] = "stop" ~> pc[Main] = IF Crippled THEN "aborted" ELSE "down"

(***************************************************************************)
(* Unless the pool is stopped, a put that has begun gets its task into the *)
(* queue and the task is run, if at least one thread could be made.        *)
(***************************************************************************)
Stopping == pc[Main] \in {"stop", "unlock", "join", "down", "aborted"}
NoWorkers == \A w \in Workers : pc[w] = "failed"

TaskRuns ==
  \A k \in Tasks : k \in Range(task) \/ k \in Range(Queue) ~> k \in done \/ Stopping \/ NoWorkers

(***************************************************************************)
(* The pool is consistent: the mutex excludes, who waits is queued on the  *)
(* right condition, and the queue keeps to its size.                       *)
(***************************************************************************)
PoolConsistent == TypeOK /\ Exclusive /\ Bounded

=============================================================================
