-------------------------- MODULE ThreadPoolProofs ---------------------------
(***************************************************************************)
(* The thread pool is right for any number of workers, producers and tasks *)
(* and any Queue_max_size: mutual exclusion and the bound of the queue,    *)
(* no lost wakeup although Notify wakes one thread, and no task in two     *)
(* hands.                                                                  *)
(***************************************************************************)
EXTENDS ThreadPool, Lists

(***************************************************************************)
(* The inductive invariant adds where each kind of thread can be, and who  *)
(* has a task in hand: a producer from put's first lock on until the task  *)
(* is in the queue, a worker from take until it has run it.                *)
(***************************************************************************)
PlacesOK ==
  /\ \A w \in Workers :
       pc[w] \in {"none", "born", "failed", "test", "enter", "take", "empty", "unlock", "run", "exit"}
  /\ \A p \in Producers : pc[p] \in {"idle", "put", "full", "unlock"}
  /\ pc[Main] \in {"init", "start", "up", "stop", "unlock", "join", "down", "aborted"}

HandsOK ==
  /\ \A p \in Producers : task[p] # NoTask <=> pc[p] \in {"put", "full"}
  /\ \A w \in Workers : task[w] # NoTask => pc[w] \in {"unlock", "run"}

PoolInv == TypeOK /\ Exclusive /\ Bounded /\ PlacesOK /\ HandsOK /\ NoLostWakeup /\ TaskOnce

ReturningE == Returning("Empty", "empty", "take")
ReturningF == Returning("Full", "full", "put")

USE PoolAssumption

-----------------------------------------------------------------------------
\* The initial states satisfy the invariant.
LEMMA PoolInit == Init => PoolInv
<1> SUFFICES ASSUME Init PROVE PoolInv
  OBVIOUS
<1> USE DEF Init, MonitorInit
<1>1. TypeOK
  <2>1. pc \in [Threads -> Places]
    BY DEF Places
  <2>2. task \in [Workers \cup Producers -> Tasks \cup {NoTask}]
    OBVIOUS
  <2>3. MonitorType
    BY DEF MonitorType
  <2>4. Queue \in Seq(Tasks) /\ done \subseteq Tasks /\ spurious \in 0 .. MaxSpurious /\ threads \in Seq(Workers)
    OBVIOUS
  <2>5. running \in BOOLEAN
    OBVIOUS
  <2> QED
    BY <2>1, <2>2, <2>3, <2>4, <2>5 DEF TypeOK
<1>2. Exclusive
  BY DEF Exclusive, Threads, Conds
<1>3. Bounded /\ PlacesOK
  BY DEF Bounded, PlacesOK, Threads
<1>4. HandsOK
  BY DEF HandsOK, Threads
<1>5. NoLostWakeup
  BY DEF NoLostWakeup, Conds
<1>6. TaskOnce
  BY DEF TaskOnce, Range, IsInjective
<1> QED
  BY <1>1, <1>2, <1>3, <1>4, <1>5, <1>6 DEF PoolInv

\* The threads are finitely many, so those on their way back can be counted.
LEMMA ThreadsFinite ==
  /\ IsFiniteSet(Threads)
  /\ \A S \in SUBSET Threads : IsFiniteSet(S) /\ Cardinality(S) \in Nat
  /\ ReturningE \in SUBSET Threads /\ ReturningF \in SUBSET Threads
<1>1. IsFiniteSet(Workers \cup Producers)
  BY FS_Union
<1>2. IsFiniteSet(Threads)
  BY <1>1, FS_AddElement DEF Threads
<1>3. \A S \in SUBSET Threads : IsFiniteSet(S) /\ Cardinality(S) \in Nat
  BY <1>2, FS_Subset, FS_CardinalityType
<1> QED
  BY <1>2, <1>3 DEF ReturningE, ReturningF, Returning

\* More threads on their way back leave no less than enough.
LEMMA MoreReturning ==
  ASSUME NEW S \in SUBSET Threads, NEW T \in SUBSET Threads, S \subseteq T
  PROVE  Cardinality(S) <= Cardinality(T) /\ Cardinality(S) \in Nat /\ Cardinality(T) \in Nat
<1>1. IsFiniteSet(T)
  BY ThreadsFinite
<1> QED
  BY <1>1, FS_Subset, ThreadsFinite

-----------------------------------------------------------------------------
\* The places outside take and put.
Elsewhere == Places \ {"take", "empty", "put", "full"}

(***************************************************************************)
(* A step that moves a thread between such places and leaves the           *)
(* conditions and the queue alone loses no wakeup.                         *)
(***************************************************************************)
LEMMA MoveElsewhere ==
  ASSUME PoolInv, NEW t \in Threads, NEW p \in Elsewhere, pc[t] \in Elsewhere, Goto(t, p),
         running => running', UNCHANGED <<waiting, Queue>>
  PROVE  NoLostWakeup'
<1>1. ReturningE' = ReturningE
  BY DEF ReturningE, Returning, Elsewhere, Goto, PoolInv, TypeOK
<1>2. ReturningF' = ReturningF
  BY DEF ReturningF, Returning, Elsewhere, Goto, PoolInv, TypeOK
<1> QED
  BY <1>1, <1>2 DEF NoLostWakeup, PoolInv, ReturningE, ReturningF

\* Outside stop as well, it does not touch the mutex either.
LEMMA MoveUnlocked ==
  ASSUME PoolInv, NEW t \in Threads, NEW p \in Elsewhere \ {"stop"}, pc[t] \in Elsewhere \ {"stop"},
         Goto(t, p), UNCHANGED <<owner, waiting, Queue>>
  PROVE  Exclusive' /\ Bounded'
<1>1. Exclusive'
  BY DEF Exclusive, Elsewhere, Goto, PoolInv, TypeOK
<1>2. Bounded'
  BY DEF Bounded, PoolInv
<1> QED
  BY <1>1, <1>2

\* With the queue, the hands and done unchanged every task is where it was.
LEMMA TasksStay ==
  ASSUME PoolInv, UNCHANGED <<Queue, task, done>>
  PROVE  TaskOnce'
  BY DEF PoolInv, TaskOnce

\* So a step of this kind only has to answer for the places and the hands.
LEMMA QuietStep ==
  ASSUME PoolInv, NEW t \in Threads, NEW p \in Elsewhere \ {"stop"}, pc[t] \in Elsewhere \ {"stop"},
         Goto(t, p), UNCHANGED <<owner, waiting, Queue, task, done, spurious>>, threads' \in Seq(Workers),
         running => running', running' \in BOOLEAN, isLock' \in BOOLEAN,
         PlacesOK', HandsOK'
  PROVE  PoolInv'
<1>1. TypeOK'
  BY DEF PoolInv, TypeOK, MonitorType, Goto, Elsewhere
<1>2. NoLostWakeup'
  BY MoveElsewhere
<1>3. Exclusive' /\ Bounded'
  BY MoveUnlocked
<1> QED
  BY <1>1, <1>2, <1>3, TasksStay DEF PoolInv

-----------------------------------------------------------------------------
(***************************************************************************)
(* start, and the workers outside take.                                    *)
(***************************************************************************)
LEMMA StartPoolInv == PoolInv /\ StartPool => PoolInv'
<1> SUFFICES ASSUME PoolInv, StartPool PROVE PoolInv'
  OBVIOUS
<1>1. /\ Main \in Threads /\ pc[Main] \in Elsewhere \ {"stop"} /\ "start" \in Elsewhere \ {"stop"}
      /\ Goto(Main, "start")
  BY DEF StartPool, Threads, Elsewhere, Places
<1>2. PlacesOK' /\ HandsOK'
  BY <1>1 DEF PoolInv, TypeOK, PlacesOK, HandsOK, Goto, Threads, StartPool
<1> QED
  BY <1>1, <1>2, QuietStep DEF StartPool, PoolInv, TypeOK, MonitorType

\* The next worker is made, or pthread_create fails.
LEMMA StartThreadInv == \A w \in Workers : PoolInv /\ StartThread(w) => PoolInv'
<1> SUFFICES ASSUME NEW w \in Workers, PoolInv, StartThread(w) PROVE PoolInv'
  OBVIOUS
<1>0. pc[w] = "none"
  <2>1. Unmade # {} /\ w = CHOOSE v \in Unmade : TRUE
    BY DEF StartThread
  <2> QED
    BY <2>1 DEF Unmade
<1>1. PICK p \in {"born", "failed"} : Goto(w, p)
  BY DEF StartThread
<1>2. w \in Threads /\ pc[w] \in Elsewhere \ {"stop"} /\ p \in Elsewhere \ {"stop"}
  BY <1>0, <1>1 DEF StartThread, Threads, Elsewhere, Places
<1>3. PlacesOK' /\ HandsOK'
  BY <1>0, <1>1, <1>2 DEF PoolInv, TypeOK, PlacesOK, HandsOK, Goto, Threads, StartThread
<1>4. threads' \in Seq(Workers)
  BY AppendList DEF StartThread, PoolInv, TypeOK
<1> QED
  BY <1>1, <1>2, <1>3, <1>4, QuietStep DEF StartThread, PoolInv, TypeOK, MonitorType

\* The new thread counts down the latch that Thread::start waits for.
LEMMA CountdownInv == \A w \in Workers : PoolInv /\ Countdown(w) => PoolInv'
<1> SUFFICES ASSUME NEW w \in Workers, PoolInv, Countdown(w) PROVE PoolInv'
  OBVIOUS
<1>1. /\ w \in Threads /\ pc[w] \in Elsewhere \ {"stop"} /\ "test" \in Elsewhere \ {"stop"}
      /\ Goto(w, "test")
  BY DEF Countdown, Threads, Elsewhere, Places
<1>2. PlacesOK' /\ HandsOK'
  BY <1>1 DEF PoolInv, TypeOK, PlacesOK, HandsOK, Goto, Threads, Countdown
<1> QED
  BY <1>1, <1>2, QuietStep DEF Countdown, PoolInv, TypeOK, MonitorType

\* start returns.
LEMMA StartedInv == PoolInv /\ Started => PoolInv'
<1> SUFFICES ASSUME PoolInv, Started PROVE PoolInv'
  OBVIOUS
<1>1. /\ Main \in Threads /\ pc[Main] \in Elsewhere \ {"stop"} /\ "up" \in Elsewhere \ {"stop"}
      /\ Goto(Main, "up")
  BY DEF Started, Threads, Elsewhere, Places
<1>2. PlacesOK' /\ HandsOK'
  BY <1>1 DEF PoolInv, TypeOK, PlacesOK, HandsOK, Goto, Threads, Started
<1> QED
  BY <1>1, <1>2, QuietStep DEF Started, PoolInv, TypeOK, MonitorType

\* Thread_func reads running_ without the lock.
LEMMA TestRunningInv == \A w \in Workers : PoolInv /\ TestRunning(w) => PoolInv'
<1> SUFFICES ASSUME NEW w \in Workers, PoolInv, TestRunning(w) PROVE PoolInv'
  OBVIOUS
<1>1. PICK p \in {"enter", "exit"} : Goto(w, p)
  BY DEF TestRunning
<1>2. w \in Threads /\ pc[w] \in Elsewhere \ {"stop"} /\ p \in Elsewhere \ {"stop"}
  BY <1>1 DEF TestRunning, Threads, Elsewhere, Places
<1>3. PlacesOK' /\ HandsOK'
  BY <1>1, <1>2 DEF PoolInv, TypeOK, PlacesOK, HandsOK, Goto, Threads, TestRunning
<1> QED
  BY <1>1, <1>2, <1>3, QuietStep DEF TestRunning, PoolInv, TypeOK, MonitorType

\* stop has joined a worker or every worker, or met one that was never made.
LEMMA JoinInv == PoolInv /\ Join => PoolInv'
<1> SUFFICES ASSUME PoolInv, Join PROVE PoolInv'
  OBVIOUS
<1>1. PICK p \in {"join", "down", "aborted"} : Goto(Main, p)
  <2>1. UNCHANGED pc => Goto(Main, "join")
    BY DEF Join, Goto, PoolInv, TypeOK, Threads
  <2> QED
    BY <2>1 DEF Join
<1>2. Main \in Threads /\ pc[Main] \in Elsewhere \ {"stop"} /\ p \in Elsewhere \ {"stop"}
  BY <1>1 DEF Join, Threads, Elsewhere, Places
<1>3. threads' \in Seq(Workers) /\ UNCHANGED <<owner, isLock, waiting, Queue, running, task, done, spurious>>
  <2>1. threads \in Seq(Workers)
    BY DEF PoolInv, TypeOK
  <2>2. threads # <<>> => Tail(threads) \in Seq(Workers)
    BY <2>1
  <2> QED
    BY <2>1, <2>2 DEF Join
<1>4. PlacesOK' /\ HandsOK'
  BY <1>1, <1>2, <1>3 DEF PoolInv, TypeOK, PlacesOK, HandsOK, Goto, Threads
<1> QED
  BY <1>1, <1>2, <1>3, <1>4, QuietStep DEF PoolInv, TypeOK, MonitorType

\* The second half of UnLock: the flag, and the way out of the critical section.
LEMMA UnLockedInv == \A t \in Threads : PoolInv /\ UnLocked(t) => PoolInv'
<1> SUFFICES ASSUME NEW t \in Threads, PoolInv, UnLocked(t) PROVE PoolInv'
  OBVIOUS
<1> DEFINE p == IF t = Main THEN "join" ELSE IF t \in Workers THEN "run" ELSE "idle"
<1>1. /\ pc[t] = "unlock" /\ Goto(t, p) /\ isLock' = FALSE
      /\ UNCHANGED <<owner, waiting, Queue, running, task, done, spurious, threads>>
  BY DEF UnLocked, ClearFlag
<1>2. /\ p \in {"join", "run", "idle"} /\ (t = Main => p = "join") /\ (t \in Workers => p = "run")
      /\ (t \in Producers => p = "idle")
  OBVIOUS
<1> HIDE DEF p
<1>3. pc[t] \in Elsewhere \ {"stop"} /\ p \in Elsewhere \ {"stop"}
  BY <1>1, <1>2 DEF Elsewhere, Places
<1>4. PlacesOK'
  BY <1>1, <1>2 DEF PoolInv, TypeOK, PlacesOK, Goto, Threads
<1>5. HandsOK'
  BY <1>1, <1>2 DEF PoolInv, TypeOK, HandsOK, Goto, Threads
<1> QED
  BY <1>1, <1>3, <1>4, <1>5, QuietStep DEF PoolInv, TypeOK, MonitorType

\* Thread_func runs the task that it took, if it took one.
LEMMA RunInv == \A w \in Workers : PoolInv /\ Run(w) => PoolInv'
<1> SUFFICES ASSUME NEW w \in Workers, PoolInv, Run(w) PROVE PoolInv'
  OBVIOUS
<1>1. /\ w \in Threads /\ pc[w] \in Elsewhere \ {"stop"} /\ "test" \in Elsewhere \ {"stop"}
      /\ Goto(w, "test")
  BY DEF Run, Threads, Elsewhere, Places
<1>2. /\ task' = [task EXCEPT ![w] = NoTask] /\ done' = done \cup ({task[w]} \ {NoTask})
      /\ UNCHANGED <<owner, isLock, waiting, Queue, running, spurious, threads>>
  BY DEF Run
<1>3. task[w] \in Tasks \cup {NoTask}
  BY DEF PoolInv, TypeOK
<1>4. TypeOK'
  <2>1. task' \in [Workers \cup Producers -> Tasks \cup {NoTask}]
    BY <1>2 DEF PoolInv, TypeOK
  <2>2. done' \subseteq Tasks
    BY <1>2, <1>3 DEF PoolInv, TypeOK
  <2>3. pc' \in [Threads -> Places]
    BY <1>1 DEF PoolInv, TypeOK, Goto, Elsewhere
  <2> QED
    BY <1>2, <2>1, <2>2, <2>3 DEF PoolInv, TypeOK, MonitorType
<1>5. PlacesOK' /\ HandsOK'
  BY <1>1, <1>2 DEF PoolInv, TypeOK, PlacesOK, HandsOK, Goto, Threads, Run
<1>6. NoLostWakeup'
  BY <1>1, <1>2, MoveElsewhere
<1>7. Exclusive' /\ Bounded'
  BY <1>1, <1>2, MoveUnlocked
<1>8. TaskOnce'
  <2>1. \A k \in Tasks : k \in Range(task') => k \in Range(task) /\ k # task[w]
    BY <1>2 DEF PoolInv, TypeOK, TaskOnce, Range
  <2>2. task[w] \in Range(task)
    BY DEF PoolInv, TypeOK, Range
  <2>3. \A k \in Tasks : /\ k \in done' => k \notin Range(Queue') /\ k \notin Range(task')
                         /\ k \in Range(Queue') => k \notin Range(task')
    BY <1>2, <2>1, <2>2 DEF PoolInv, TaskOnce
  <2>4. \A t, u \in Workers \cup Producers : task'[t] = task'[u] /\ task'[t] # NoTask => t = u
    BY <1>2 DEF PoolInv, TypeOK, TaskOnce
  <2>5. IsInjective(Queue')
    BY <1>2 DEF PoolInv, TaskOnce
  <2> QED
    BY <2>3, <2>4, <2>5 DEF TaskOnce
<1> QED
  BY <1>4, <1>5, <1>6, <1>7, <1>8 DEF PoolInv

-----------------------------------------------------------------------------
(***************************************************************************)
(* take.  To lock only adds to the workers on their way back; a worker     *)
(* waits only when there is nothing to take.                               *)
(***************************************************************************)
LEMMA TakeLockInv == \A w \in Workers : PoolInv /\ TakeLock(w) => PoolInv'
<1> SUFFICES ASSUME NEW w \in Workers, PoolInv, TakeLock(w) PROVE PoolInv'
  OBVIOUS
<1>1. /\ pc[w] \in {"enter", "empty"} /\ Goto(w, "take") /\ w \in Threads
      /\ pc[w] = "empty" => w \notin waiting["Empty"]
      /\ owner = NoThread /\ owner' = w /\ isLock' = TRUE
      /\ UNCHANGED <<waiting, Queue, running, task, done, spurious, threads>>
  BY DEF TakeLock, Lock, Reacquire, Threads
<1>2. TypeOK'
  BY <1>1 DEF PoolInv, TypeOK, MonitorType, Goto, Places
<1>3. PlacesOK'
  BY <1>1 DEF PoolInv, TypeOK, PlacesOK, Goto, Threads
<1>4. HandsOK'
  BY <1>1 DEF PoolInv, TypeOK, HandsOK, Goto, Threads
<1>5. Exclusive'
  <2>1. \A t \in Threads : pc'[t] \in {"take", "put", "stop"} <=> owner' = t
    BY <1>1 DEF PoolInv, TypeOK, Exclusive, Goto, Threads
  <2>2. \A v \in waiting'["Empty"] : v \in Workers /\ pc'[v] = "empty"
    BY <1>1 DEF PoolInv, TypeOK, Exclusive, Goto, Threads
  <2>3. \A p \in waiting'["Full"] : p \in Producers /\ pc'[p] = "full"
    BY <1>1 DEF PoolInv, TypeOK, Exclusive, Goto, Threads
  <2> QED
    BY <2>1, <2>2, <2>3 DEF Exclusive
<1>6. NoLostWakeup'
  <2>1. ReturningE \subseteq ReturningE'
    BY <1>1 DEF ReturningE, Returning, Goto, PoolInv, TypeOK
  <2>2. ReturningF' = ReturningF
    BY <1>1 DEF ReturningF, Returning, Goto, PoolInv, TypeOK
  <2>3. ReturningE' \in SUBSET Threads
    BY DEF ReturningE, Returning
  <2>4. Cardinality(ReturningE) <= Cardinality(ReturningE')
    BY <2>1, <2>3, ThreadsFinite, MoreReturning
  <2>5. Cardinality(ReturningE) \in Nat /\ Cardinality(ReturningE') \in Nat /\ Len(Queue) \in Nat
    BY <2>3, ThreadsFinite DEF PoolInv, TypeOK
  <2> QED
    BY <1>1, <2>2, <2>4, <2>5 DEF NoLostWakeup, PoolInv, ReturningE, ReturningF
<1> QED
  BY <1>1, <1>2, <1>3, <1>4, <1>5, <1>6, TasksStay DEF PoolInv, Bounded

\* A worker waits: there is no task for it to miss.
LEMMA TakeWaitInv == \A w \in Workers : PoolInv /\ TakeWait(w) => PoolInv'
<1> SUFFICES ASSUME NEW w \in Workers, PoolInv, TakeWait(w) PROVE PoolInv'
  OBVIOUS
<1>1. /\ pc[w] = "take" /\ Goto(w, "empty") /\ w \in Threads /\ Queue = <<>> /\ running
      /\ owner = w /\ owner' = NoThread
      /\ waiting' = [waiting EXCEPT !["Empty"] = @ \cup {w}]
      /\ UNCHANGED <<isLock, Queue, running, task, done, spurious, threads>>
  BY DEF TakeWait, TakeWaits, Wait, Threads
<1>2. waiting \in [Conds -> SUBSET Threads]
  BY DEF PoolInv, TypeOK, MonitorType
<1>3. /\ waiting'["Empty"] = waiting["Empty"] \cup {w} /\ waiting'["Full"] = waiting["Full"]
      /\ waiting' \in [Conds -> SUBSET Threads]
  BY <1>1, <1>2 DEF Conds
<1>4. TypeOK'
  BY <1>1, <1>3 DEF PoolInv, TypeOK, MonitorType, Goto, Places
<1>5. PlacesOK'
  BY <1>1 DEF PoolInv, TypeOK, PlacesOK, Goto, Threads
<1>6. HandsOK'
  BY <1>1 DEF PoolInv, TypeOK, HandsOK, Goto, Threads
<1>7. Exclusive'
  <2>1. \A t \in Threads : pc'[t] \in {"take", "put", "stop"} <=> owner' = t
    BY <1>1 DEF PoolInv, TypeOK, Exclusive, Goto, Threads
  <2>2. \A v \in waiting'["Empty"] : v \in Workers /\ pc'[v] = "empty"
    BY <1>1, <1>3 DEF PoolInv, TypeOK, Exclusive, Goto, Threads
  <2>3. \A p \in waiting'["Full"] : p \in Producers /\ pc'[p] = "full"
    BY <1>1, <1>3 DEF PoolInv, TypeOK, Exclusive, Goto, Threads
  <2> QED
    BY <2>1, <2>2, <2>3 DEF Exclusive
<1>8. NoLostWakeup'
  <2>1. ReturningF' = ReturningF
    BY <1>1, <1>3 DEF ReturningF, Returning, Goto, PoolInv, TypeOK
  <2>2. Cardinality(ReturningE') \in Nat /\ Len(Queue') = 0
    BY <1>1, ThreadsFinite DEF ReturningE, Returning
  <2> QED
    BY <1>1, <1>3, <2>1, <2>2 DEF NoLostWakeup, PoolInv, ReturningE, ReturningF
<1> QED
  BY <1>1, <1>4, <1>5, <1>6, <1>7, <1>8, TasksStay DEF PoolInv, Bounded

\* One thread more or less on its way back is one more or less in number.
LEMMA OneReturning ==
  ASSUME NEW S \in SUBSET Threads, NEW t \in Threads
  PROVE  /\ t \in S => Cardinality(S \ {t}) = Cardinality(S) - 1
         /\ t \notin S => Cardinality(S \cup {t}) = Cardinality(S) + 1
         /\ Cardinality(S) \in Nat
<1>1. IsFiniteSet(S) /\ Cardinality(S) \in Nat
  BY ThreadsFinite
<1> QED
  BY <1>1, FS_AddElement, FS_RemoveElement

(***************************************************************************)
(* A worker that takes leaves the ones on their way back, and the queue    *)
(* has one task less; the putter that it wakes takes the new free place.   *)
(* A worker that finds nothing to take has been sent home by stop.         *)
(***************************************************************************)
LEMMA TakeInv == \A w \in Workers : PoolInv /\ Take(w) => PoolInv'
<1> SUFFICES ASSUME NEW w \in Workers, PoolInv, Take(w) PROVE PoolInv'
  OBVIOUS
<1>1. /\ pc[w] = "take" /\ Goto(w, "unlock") /\ w \in Threads
      /\ owner = w /\ owner' = NoThread /\ (Queue = <<>> => ~running)
      /\ UNCHANGED <<isLock, running, done, spurious, threads>>
  BY DEF Take, TakeWaits, UnLock, Threads
<1>2. /\ waiting \in [Conds -> SUBSET Threads] /\ Queue \in Seq(Tasks) /\ Len(Queue) \in Nat
      /\ task \in [Workers \cup Producers -> Tasks \cup {NoTask}] /\ pc \in [Threads -> Places]
  BY DEF PoolInv, TypeOK, MonitorType
<1>3. PlacesOK'
  BY <1>1 DEF PoolInv, TypeOK, PlacesOK, Goto, Threads
<1>4. ASSUME waiting' \in [Conds -> SUBSET Threads], waiting'["Empty"] = waiting["Empty"],
             waiting'["Full"] \subseteq waiting["Full"]
      PROVE  Exclusive'
  <2>1. \A t \in Threads : pc'[t] \in {"take", "put", "stop"} <=> owner' = t
    BY <1>1 DEF PoolInv, TypeOK, Exclusive, Goto, Threads
  <2>2. \A v \in waiting'["Empty"] : v \in Workers /\ pc'[v] = "empty"
    BY <1>1, <1>4 DEF PoolInv, TypeOK, Exclusive, Goto, Threads
  <2>3. \A p \in waiting'["Full"] : p \in Producers /\ pc'[p] = "full"
    BY <1>1, <1>4 DEF PoolInv, TypeOK, Exclusive, Goto, Threads
  <2> QED
    BY <2>1, <2>2, <2>3 DEF Exclusive
<1>5. CASE Queue = <<>>
  <2>1. UNCHANGED <<task, Queue, waiting>>
    BY <1>5 DEF Take
  <2>2. TypeOK'
    BY <1>1, <2>1 DEF PoolInv, TypeOK, MonitorType, Goto, Places
  <2>3. HandsOK'
    BY <1>1, <2>1 DEF PoolInv, TypeOK, HandsOK, Goto, Threads
  <2>4. Exclusive'
    BY <1>2, <1>4, <2>1
  <2>5. NoLostWakeup'
    <3>1. ReturningF' = ReturningF
      BY <1>1, <2>1 DEF ReturningF, Returning, Goto, PoolInv, TypeOK
    <3>2. waiting["Empty"] = {}
      BY <1>1, <1>5 DEF PoolInv, NoLostWakeup
    <3> QED
      BY <1>1, <2>1, <3>1, <3>2 DEF NoLostWakeup, PoolInv, ReturningF
  <2> QED
    BY <1>1, <1>3, <2>1, <2>2, <2>3, <2>4, <2>5, TasksStay DEF PoolInv, Bounded
<1>6. CASE Queue # <<>>
  <2> DEFINE k == Head(Queue)
  <2>1. task' = [task EXCEPT ![w] = k] /\ Queue' = Tail(Queue) /\ Notify("Full")
    BY <1>6 DEF Take
  <2>2. /\ k \in Tasks /\ k \in Range(Queue) /\ Queue' \in Seq(Tasks) /\ Len(Queue') = Len(Queue) - 1
        /\ Range(Queue) = Range(Queue') \cup {k}
        /\ IsInjective(Queue) => IsInjective(Queue') /\ k \notin Range(Queue')
    BY <1>2, <1>6, <2>1, PopList
  <2> HIDE DEF k
  <2>3. /\ waiting' \in [Conds -> SUBSET Threads] /\ waiting'["Empty"] = waiting["Empty"]
        /\ \/ waiting["Full"] = {} /\ waiting'["Full"] = {}
           \/ \E p \in waiting["Full"] : waiting'["Full"] = waiting["Full"] \ {p}
    BY <1>2, <2>1 DEF Notify, Conds
  <2>4. TypeOK'
    <3>1. task' \in [Workers \cup Producers -> Tasks \cup {NoTask}]
      BY <1>2, <2>1, <2>2
    <3>2. pc' \in [Threads -> Places]
      BY <1>1, <1>2 DEF Goto, Places
    <3> QED
      BY <1>1, <2>2, <2>3, <3>1, <3>2 DEF PoolInv, TypeOK, MonitorType
  <2>5. HandsOK'
    BY <1>1, <1>2, <2>1 DEF PoolInv, HandsOK, Goto, Threads
  <2>6. Exclusive'
    BY <1>4, <2>3
  <2>7. NoLostWakeup'
    <3>1. ReturningE' = ReturningE \ {w} /\ w \in ReturningE
      BY <1>1, <1>2, <2>3 DEF ReturningE, Returning, Goto
    <3>2. Cardinality(ReturningE') = Cardinality(ReturningE) - 1 /\ Cardinality(ReturningE) \in Nat
      BY <1>1, <3>1, OneReturning, ThreadsFinite
    <3>3. waiting'["Empty"] # {} => running' /\ Len(Queue') <= Cardinality(ReturningE')
      BY <1>1, <1>2, <2>2, <2>3, <3>2 DEF PoolInv, NoLostWakeup, ReturningE
    <3>4. ASSUME waiting'["Full"] # {}
          PROVE  Queue_max_size - Len(Queue') <= Cardinality(ReturningF')
      <4>1. PICK p \in waiting["Full"] : waiting'["Full"] = waiting["Full"] \ {p}
        BY <2>3, <3>4
      <4>2. p \in Producers /\ pc[p] = "full" /\ p \in Threads /\ p # w
        BY <1>1 DEF PoolInv, Exclusive, Threads
      <4>3. ReturningF' = ReturningF \cup {p} /\ p \notin ReturningF
        BY <1>1, <1>2, <4>1, <4>2 DEF ReturningF, Returning, Goto
      <4>4. Cardinality(ReturningF') = Cardinality(ReturningF) + 1 /\ Cardinality(ReturningF) \in Nat
        BY <4>2, <4>3, OneReturning, ThreadsFinite
      <4> QED
        BY <1>2, <2>2, <4>4 DEF PoolInv, NoLostWakeup, ReturningF
    <3> QED
      BY <3>3, <3>4 DEF NoLostWakeup, ReturningE, ReturningF
  <2>8. TaskOnce'
    <3>1. \A j \in Tasks : j \in Range(task') => j \in Range(task) \/ j = k
      BY <1>2, <2>1 DEF Range
    <3>2. \A j \in Tasks : /\ j \in done' => j \notin Range(Queue') /\ j \notin Range(task')
                           /\ j \in Range(Queue') => j \notin Range(task')
      BY <1>1, <2>2, <3>1 DEF PoolInv, TaskOnce
    <3>3. k \notin Range(task) /\ k # NoTask
      BY <2>2 DEF PoolInv, TaskOnce
    <3>4. \A t, u \in Workers \cup Producers : task'[t] = task'[u] /\ task'[t] # NoTask => t = u
      BY <1>2, <2>1, <3>3 DEF PoolInv, TaskOnce, Range
    <3>5. IsInjective(Queue')
      BY <2>2 DEF PoolInv, TaskOnce
    <3> QED
      BY <3>2, <3>4, <3>5 DEF TaskOnce
  <2>9. Bounded'
    BY <1>2, <2>2 DEF PoolInv, Bounded
  <2> QED
    BY <1>3, <2>4, <2>5, <2>6, <2>7, <2>8, <2>9 DEF PoolInv
<1> QED
  BY <1>5, <1>6

-----------------------------------------------------------------------------
(***************************************************************************)
(* put: the same with the conditions exchanged.                            *)
(***************************************************************************)
LEMMA PutLockInv == \A p \in Producers : PoolInv /\ PutLock(p) => PoolInv'
<1> SUFFICES ASSUME NEW p \in Producers, PoolInv, PutLock(p) PROVE PoolInv'
  OBVIOUS
<1>1. /\ pc[p] \in {"idle", "full"} /\ Goto(p, "put") /\ p \in Threads
      /\ pc[p] = "full" => p \notin waiting["Full"]
      /\ owner = NoThread /\ owner' = p /\ isLock' = TRUE
      /\ UNCHANGED <<waiting, Queue, running, done, spurious, threads>>
  BY DEF PutLock, Lock, Reacquire, Threads
<1>2. /\ task \in [Workers \cup Producers -> Tasks \cup {NoTask}] /\ pc \in [Threads -> Places]
      /\ Queue \in Seq(Tasks) /\ Len(Queue) \in Nat
  BY DEF PoolInv, TypeOK
<1>3. PlacesOK'
  BY <1>1, <1>2 DEF PoolInv, PlacesOK, Goto, Threads
<1>4. Exclusive'
  <2>1. \A t \in Threads : pc'[t] \in {"take", "put", "stop"} <=> owner' = t
    BY <1>1, <1>2 DEF PoolInv, Exclusive, Goto, Threads
  <2>2. \A v \in waiting'["Empty"] : v \in Workers /\ pc'[v] = "empty"
    BY <1>1, <1>2 DEF PoolInv, Exclusive, Goto, Threads
  <2>3. \A q \in waiting'["Full"] : q \in Producers /\ pc'[q] = "full"
    BY <1>1, <1>2 DEF PoolInv, Exclusive, Goto, Threads
  <2> QED
    BY <2>1, <2>2, <2>3 DEF Exclusive
<1>5. NoLostWakeup'
  <2>1. ReturningF \subseteq ReturningF'
    BY <1>1, <1>2 DEF ReturningF, Returning, Goto
  <2>2. ReturningE' = ReturningE
    BY <1>1, <1>2 DEF ReturningE, Returning, Goto
  <2>3. ReturningF' \in SUBSET Threads
    BY DEF ReturningF, Returning
  <2>4. Cardinality(ReturningF) <= Cardinality(ReturningF')
    BY <2>1, <2>3, ThreadsFinite, MoreReturning
  <2>5. Cardinality(ReturningF) \in Nat /\ Cardinality(ReturningF') \in Nat
    BY <2>3, ThreadsFinite
  <2> QED
    BY <1>1, <1>2, <2>2, <2>4, <2>5 DEF NoLostWakeup, PoolInv, ReturningE, ReturningF
<1>6. task' \in [Workers \cup Producers -> Tasks \cup {NoTask}] /\ HandsOK' /\ TaskOnce'
  <2>1. CASE pc[p] = "idle"
    <3>1. PICK k \in Fresh : task' = [task EXCEPT ![p] = k]
      BY <2>1 DEF PutLock
    <3>2. k \in Tasks /\ k \notin done /\ k \notin Range(Queue) /\ k \notin Range(task) /\ k # NoTask
      BY DEF Fresh
    <3>3. task' \in [Workers \cup Producers -> Tasks \cup {NoTask}]
      BY <1>2, <3>1, <3>2
    <3>4. HandsOK'
      BY <1>1, <1>2, <3>1, <3>2 DEF PoolInv, HandsOK, Goto, Threads
    <3>5. \A j \in Tasks : j \in Range(task') => j \in Range(task) \/ j = k
      BY <1>2, <3>1 DEF Range
    <3>6. \A j \in Tasks : /\ j \in done' => j \notin Range(Queue') /\ j \notin Range(task')
                           /\ j \in Range(Queue') => j \notin Range(task')
      BY <1>1, <3>2, <3>5 DEF PoolInv, TaskOnce
    <3>7. \A t, u \in Workers \cup Producers : task'[t] = task'[u] /\ task'[t] # NoTask => t = u
      BY <1>2, <3>1, <3>2 DEF PoolInv, TaskOnce, Range
    <3>8. IsInjective(Queue')
      BY <1>1 DEF PoolInv, TaskOnce
    <3> QED
      BY <3>3, <3>4, <3>6, <3>7, <3>8 DEF TaskOnce
  <2>2. CASE pc[p] = "full"
    <3>1. UNCHANGED task
      BY <2>2 DEF PutLock
    <3>2. HandsOK'
      BY <1>1, <1>2, <2>2, <3>1 DEF PoolInv, HandsOK, Goto, Threads
    <3> QED
      BY <1>1, <1>2, <3>1, <3>2, TasksStay
  <2> QED
    BY <1>1, <2>1, <2>2
<1>7. TypeOK'
  <2>1. pc' \in [Threads -> Places]
    BY <1>1, <1>2 DEF Goto, Places
  <2> QED
    BY <1>1, <1>6, <2>1 DEF PoolInv, TypeOK, MonitorType
<1> QED
  BY <1>1, <1>3, <1>4, <1>5, <1>6, <1>7 DEF PoolInv, Bounded

\* A putter waits: there is no free place for it to miss.
LEMMA PutWaitInv == \A p \in Producers : PoolInv /\ PutWait(p) => PoolInv'
<1> SUFFICES ASSUME NEW p \in Producers, PoolInv, PutWait(p) PROVE PoolInv'
  OBVIOUS
<1>1. /\ pc[p] = "put" /\ Goto(p, "full") /\ p \in Threads /\ Len(Queue) >= Queue_max_size
      /\ owner = p /\ owner' = NoThread
      /\ waiting' = [waiting EXCEPT !["Full"] = @ \cup {p}]
      /\ UNCHANGED <<isLock, Queue, running, task, done, spurious, threads>>
  BY DEF PutWait, isFull, Wait, Threads
<1>2. waiting \in [Conds -> SUBSET Threads] /\ Queue \in Seq(Tasks) /\ Len(Queue) \in Nat
  BY DEF PoolInv, TypeOK, MonitorType
<1>3. /\ waiting'["Full"] = waiting["Full"] \cup {p} /\ waiting'["Empty"] = waiting["Empty"]
      /\ waiting' \in [Conds -> SUBSET Threads]
  BY <1>1, <1>2 DEF Conds
<1>4. TypeOK'
  BY <1>1, <1>3 DEF PoolInv, TypeOK, MonitorType, Goto, Places
<1>5. PlacesOK'
  BY <1>1 DEF PoolInv, TypeOK, PlacesOK, Goto, Threads
<1>6. HandsOK'
  BY <1>1 DEF PoolInv, TypeOK, HandsOK, Goto, Threads
<1>7. Exclusive'
  <2>1. \A t \in Threads : pc'[t] \in {"take", "put", "stop"} <=> owner' = t
    BY <1>1 DEF PoolInv, TypeOK, Exclusive, Goto, Threads
  <2>2. \A v \in waiting'["Empty"] : v \in Workers /\ pc'[v] = "empty"
    BY <1>1, <1>3 DEF PoolInv, TypeOK, Exclusive, Goto, Threads
  <2>3. \A q \in waiting'["Full"] : q \in Producers /\ pc'[q] = "full"
    BY <1>1, <1>3 DEF PoolInv, TypeOK, Exclusive, Goto, Threads
  <2> QED
    BY <2>1, <2>2, <2>3 DEF Exclusive
<1>8. NoLostWakeup'
  <2>1. ReturningE' = ReturningE
    BY <1>1, <1>3 DEF ReturningE, Returning, Goto, PoolInv, TypeOK
  <2>2. Cardinality(ReturningF') \in Nat /\ Queue_max_size - Len(Queue') <= 0
    BY <1>1, <1>2, ThreadsFinite DEF ReturningF, Returning
  <2> QED
    BY <1>1, <1>2, <1>3, <2>1, <2>2 DEF NoLostWakeup, PoolInv, ReturningE, ReturningF
<1> QED
  BY <1>1, <1>4, <1>5, <1>6, <1>7, <1>8, TasksStay DEF PoolInv, Bounded

(***************************************************************************)
(* A putter fills a free place and wakes a worker for the new task.        *)
(***************************************************************************)
LEMMA PutInv == \A p \in Producers : PoolInv /\ Put(p) => PoolInv'
<1> SUFFICES ASSUME NEW p \in Producers, PoolInv, Put(p) PROVE PoolInv'
  OBVIOUS
<1> DEFINE k == task[p]
<1>1. /\ pc[p] = "put" /\ Goto(p, "unlock") /\ p \in Threads /\ ~(Len(Queue) >= Queue_max_size)
      /\ owner = p /\ owner' = NoThread /\ Notify("Empty")
      /\ Queue' = Append(Queue, k) /\ task' = [task EXCEPT ![p] = NoTask]
      /\ UNCHANGED <<isLock, running, done, spurious, threads>>
  BY DEF Put, isFull, UnLock, Threads
<1>2. /\ waiting \in [Conds -> SUBSET Threads] /\ Queue \in Seq(Tasks) /\ Len(Queue) \in Nat
      /\ task \in [Workers \cup Producers -> Tasks \cup {NoTask}] /\ pc \in [Threads -> Places]
  BY DEF PoolInv, TypeOK, MonitorType
<1>3. k \in Tasks /\ k \in Range(task) /\ k # NoTask /\ k \notin Range(Queue) /\ k \notin done
  <2>1. k \in Tasks /\ k # NoTask
    BY <1>1, <1>2 DEF PoolInv, HandsOK
  <2>2. k \in Range(task)
    BY <1>2 DEF Range
  <2> QED
    BY <2>1, <2>2 DEF PoolInv, TaskOnce
<1>4. \A j \in Tasks : j \in Range(task') => j \in Range(task) /\ j # k
  BY <1>1, <1>2, <1>3 DEF PoolInv, TaskOnce, Range
<1> HIDE DEF k
<1>5. /\ Queue' \in Seq(Tasks) /\ Len(Queue') = Len(Queue) + 1 /\ Range(Queue') = Range(Queue) \cup {k}
      /\ IsInjective(Queue) => IsInjective(Queue')
  BY <1>1, <1>2, <1>3, AppendList
<1>6. /\ waiting' \in [Conds -> SUBSET Threads] /\ waiting'["Full"] = waiting["Full"]
      /\ \/ waiting["Empty"] = {} /\ waiting'["Empty"] = {}
         \/ \E w \in waiting["Empty"] : waiting'["Empty"] = waiting["Empty"] \ {w}
  BY <1>1, <1>2 DEF Notify, Conds
<1>7. PlacesOK'
  BY <1>1, <1>2 DEF PoolInv, PlacesOK, Goto, Threads
<1>8. HandsOK'
  BY <1>1, <1>2 DEF PoolInv, HandsOK, Goto, Threads
<1>9. TypeOK'
  <2>1. task' \in [Workers \cup Producers -> Tasks \cup {NoTask}]
    BY <1>1, <1>2
  <2>2. pc' \in [Threads -> Places]
    BY <1>1, <1>2 DEF Goto, Places
  <2> QED
    BY <1>1, <1>5, <1>6, <2>1, <2>2 DEF PoolInv, TypeOK, MonitorType
<1>10. Exclusive'
  <2>1. \A t \in Threads : pc'[t] \in {"take", "put", "stop"} <=> owner' = t
    BY <1>1, <1>2 DEF PoolInv, Exclusive, Goto, Threads
  <2>2. \A v \in waiting'["Empty"] : v \in Workers /\ pc'[v] = "empty"
    BY <1>1, <1>2, <1>6 DEF PoolInv, Exclusive, Goto, Threads
  <2>3. \A q \in waiting'["Full"] : q \in Producers /\ pc'[q] = "full"
    BY <1>1, <1>2, <1>6 DEF PoolInv, Exclusive, Goto, Threads
  <2> QED
    BY <2>1, <2>2, <2>3 DEF Exclusive
<1>11. NoLostWakeup'
  <2>1. ReturningF' = ReturningF \ {p} /\ p \in ReturningF
    BY <1>1, <1>2, <1>6 DEF ReturningF, Returning, Goto
  <2>2. Cardinality(ReturningF') = Cardinality(ReturningF) - 1 /\ Cardinality(ReturningF) \in Nat
    BY <1>1, <2>1, OneReturning, ThreadsFinite
  <2>3. waiting'["Full"] # {} => Queue_max_size - Len(Queue') <= Cardinality(ReturningF')
    BY <1>2, <1>5, <1>6, <2>2 DEF PoolInv, NoLostWakeup, ReturningF
  <2>4. ASSUME waiting'["Empty"] # {}
        PROVE  running' /\ Len(Queue') <= Cardinality(ReturningE')
    <3>1. PICK w \in waiting["Empty"] : waiting'["Empty"] = waiting["Empty"] \ {w}
      BY <1>6, <2>4
    <3>2. w \in Workers /\ pc[w] = "empty" /\ w \in Threads /\ w # p
      BY <1>1 DEF PoolInv, Exclusive, Threads
    <3>3. ReturningE' = ReturningE \cup {w} /\ w \notin ReturningE
      BY <1>1, <1>2, <3>1, <3>2 DEF ReturningE, Returning, Goto
    <3>4. Cardinality(ReturningE') = Cardinality(ReturningE) + 1 /\ Cardinality(ReturningE) \in Nat
      BY <3>2, <3>3, OneReturning, ThreadsFinite
    <3> QED
      BY <1>1, <1>2, <1>5, <3>4 DEF PoolInv, NoLostWakeup, ReturningE
  <2> QED
    BY <2>3, <2>4 DEF NoLostWakeup, ReturningE, ReturningF
<1>12. TaskOnce'
  <2>1. \A j \in Tasks : /\ j \in done' => j \notin Range(Queue') /\ j \notin Range(task')
                         /\ j \in Range(Queue') => j \notin Range(task')
    BY <1>1, <1>3, <1>4, <1>5 DEF PoolInv, TaskOnce
  <2>2. \A t, u \in Workers \cup Producers : task'[t] = task'[u] /\ task'[t] # NoTask => t = u
    BY <1>1, <1>2 DEF PoolInv, TaskOnce
  <2>3. IsInjective(Queue')
    BY <1>5 DEF PoolInv, TaskOnce
  <2> QED
    BY <2>1, <2>2, <2>3 DEF TaskOnce
<1>13. Bounded'
  BY <1>1, <1>2, <1>5 DEF Bounded
<1> QED
  BY <1>7, <1>8, <1>9, <1>10, <1>11, <1>12, <1>13 DEF PoolInv

-----------------------------------------------------------------------------
(***************************************************************************)
(* stop wakes every worker, so nobody is left waiting when running_ is     *)
(* cleared; a spurious wakeup only adds to those on their way back.        *)
(***************************************************************************)
LEMMA StopLockInv == PoolInv /\ StopLock => PoolInv'
<1> SUFFICES ASSUME PoolInv, StopLock PROVE PoolInv'
  OBVIOUS
<1>1. /\ pc[Main] = "up" /\ Goto(Main, "stop") /\ Main \in Threads
      /\ owner = NoThread /\ owner' = Main /\ isLock' = TRUE
      /\ UNCHANGED <<waiting, Queue, running, task, done, spurious, threads>>
  BY DEF StopLock, Lock, Threads
<1>2. TypeOK'
  BY <1>1 DEF PoolInv, TypeOK, MonitorType, Goto, Places
<1>3. PlacesOK'
  BY <1>1 DEF PoolInv, TypeOK, PlacesOK, Goto, Threads
<1>4. HandsOK'
  BY <1>1 DEF PoolInv, TypeOK, HandsOK, Goto, Threads
<1>5. Exclusive'
  BY <1>1 DEF PoolInv, TypeOK, Exclusive, Goto, Threads
<1>6. NoLostWakeup'
  <2>1. pc[Main] \in Elsewhere /\ "stop" \in Elsewhere
    BY <1>1 DEF Elsewhere, Places
  <2> QED
    BY <1>1, <2>1, MoveElsewhere
<1> QED
  BY <1>1, <1>2, <1>3, <1>4, <1>5, <1>6, TasksStay DEF PoolInv, Bounded

\* The critical section of stop.
LEMMA StopInv == PoolInv /\ Stop => PoolInv'
<1> SUFFICES ASSUME PoolInv, Stop PROVE PoolInv'
  OBVIOUS
<1>1. /\ pc[Main] = "stop" /\ Goto(Main, "unlock") /\ Main \in Threads
      /\ owner = Main /\ owner' = NoThread
      /\ running' = FALSE /\ waiting' = [waiting EXCEPT !["Empty"] = {}]
      /\ UNCHANGED <<isLock, Queue, task, done, spurious, threads>>
  BY DEF Stop, NotifyAll, UnLock, Threads
<1>2. waiting \in [Conds -> SUBSET Threads] /\ pc \in [Threads -> Places]
  BY DEF PoolInv, TypeOK, MonitorType
<1>3. /\ waiting'["Empty"] = {} /\ waiting'["Full"] = waiting["Full"]
      /\ waiting' \in [Conds -> SUBSET Threads]
  BY <1>1, <1>2 DEF Conds
<1>4. TypeOK'
  BY <1>1, <1>3 DEF PoolInv, TypeOK, MonitorType, Goto, Places
<1>5. PlacesOK'
  BY <1>1 DEF PoolInv, TypeOK, PlacesOK, Goto, Threads
<1>6. HandsOK'
  BY <1>1 DEF PoolInv, TypeOK, HandsOK, Goto, Threads
<1>7. Exclusive'
  BY <1>1, <1>2, <1>3 DEF PoolInv, Exclusive, Goto, Threads
<1>8. NoLostWakeup'
  <2>1. ReturningF' = ReturningF
    BY <1>1, <1>2, <1>3 DEF ReturningF, Returning, Goto
  <2> QED
    BY <1>1, <1>3, <2>1 DEF NoLostWakeup, PoolInv, ReturningF
<1> QED
  BY <1>1, <1>4, <1>5, <1>6, <1>7, <1>8, TasksStay DEF PoolInv, Bounded

\* A wait returns without a notify.
LEMMA SpuriousWakeupInv ==
  \A c \in Conds, t \in Threads : PoolInv /\ SpuriousWakeup(c, t) => PoolInv'
<1> SUFFICES ASSUME NEW c \in Conds, NEW t \in Threads, PoolInv, SpuriousWakeup(c, t) PROVE PoolInv'
  OBVIOUS
<1>1. /\ waiting' = [waiting EXCEPT ![c] = @ \ {t}] /\ spurious < MaxSpurious /\ spurious' = spurious + 1
      /\ UNCHANGED <<owner, isLock, Queue, running, pc, task, done, threads>>
  BY DEF SpuriousWakeup, Spurious
<1>2. waiting \in [Conds -> SUBSET Threads] /\ Len(Queue) \in Nat
  BY DEF PoolInv, TypeOK, MonitorType
<1>3. /\ waiting' \in [Conds -> SUBSET Threads]
      /\ waiting'["Empty"] \subseteq waiting["Empty"] /\ waiting'["Full"] \subseteq waiting["Full"]
  BY <1>1, <1>2 DEF Conds
<1>4. TypeOK'
  BY <1>1, <1>3 DEF PoolInv, TypeOK, MonitorType
<1>5. PlacesOK' /\ HandsOK' /\ Bounded'
  BY <1>1 DEF PoolInv, PlacesOK, HandsOK, Bounded
<1>6. Exclusive'
  BY <1>1, <1>3 DEF PoolInv, Exclusive
<1>7. NoLostWakeup'
  <2>1. ReturningE \subseteq ReturningE' /\ ReturningF \subseteq ReturningF'
    BY <1>1, <1>3 DEF ReturningE, ReturningF, Returning
  <2>2. ReturningE' \in SUBSET Threads /\ ReturningF' \in SUBSET Threads
    BY DEF ReturningE, ReturningF, Returning
  <2>3. /\ Cardinality(ReturningE) <= Cardinality(ReturningE')
        /\ Cardinality(ReturningF) <= Cardinality(ReturningF')
    BY <2>1, <2>2, ThreadsFinite, MoreReturning
  <2>4. /\ Cardinality(ReturningE) \in Nat /\ Cardinality(ReturningE') \in Nat
        /\ Cardinality(ReturningF) \in Nat /\ Cardinality(ReturningF') \in Nat
    BY <2>2, ThreadsFinite
  <2> QED
    BY <1>1, <1>2, <1>3, <2>3, <2>4 DEF NoLostWakeup, PoolInv, ReturningE, ReturningF
<1> QED
  BY <1>1, <1>4, <1>5, <1>6, <1>7, TasksStay DEF PoolInv

-----------------------------------------------------------------------------
\* Every step preserves the invariant.
LEMMA PoolStep == PoolInv /\ [Next]_vars => PoolInv'
<1> SUFFICES ASSUME PoolInv, [Next]_vars PROVE PoolInv'
  OBVIOUS
<1>1. CASE UNCHANGED vars
  BY <1>1 DEF vars, PoolInv, TypeOK, MonitorType, Exclusive, Bounded, PlacesOK, HandsOK,
              NoLostWakeup, Returning, TaskOnce
<1>2. ASSUME NEW w \in Workers, WorkerStep(w) PROVE PoolInv'
  BY <1>2, CountdownInv, TestRunningInv, TakeLockInv, TakeWaitInv, TakeInv, RunInv, UnLockedInv
     DEF WorkerStep, Threads
<1>3. ASSUME NEW p \in Producers, ProducerStep(p) PROVE PoolInv'
  BY <1>3, PutLockInv, PutWaitInv, PutInv, UnLockedInv DEF ProducerStep, Threads
<1>4. CASE MainStep
  BY <1>4, StartPoolInv, StartedInv, StopLockInv, StopInv, JoinInv, UnLockedInv, StartThreadInv
     DEF MainStep, Threads
<1>5. ASSUME NEW c \in Conds, NEW t \in Threads, SpuriousWakeup(c, t) PROVE PoolInv'
  BY <1>5, SpuriousWakeupInv
<1> QED
  BY <1>1, <1>2, <1>3, <1>4, <1>5 DEF Next

\* So every reachable state satisfies it.
LEMMA PoolInvariant == Spec => []PoolInv
  BY PoolInit, PoolStep, PTL DEF Spec

(***************************************************************************)
(* take, put and stop exclude each other, who waits is queued on the right *)
(* condition, and the queue never exceeds Queue_max_size.                  *)
(***************************************************************************)
THEOREM PoolIsConsistent == Spec => []PoolConsistent
<1>1. PoolInv => PoolConsistent
  BY DEF PoolInv, PoolConsistent
<1> QED
  BY <1>1, PoolInvariant, PTL

(***************************************************************************)
(* Notify wakes one thread only, and the one it wakes may be overtaken;    *)
(* still nobody sleeps in take while there are more tasks than workers on  *)
(* their way to them, nobody sleeps in put while there are more free       *)
(* places than putters on their way, and nobody sleeps in take after stop. *)
(***************************************************************************)
THEOREM PoolLosesNoWakeup == Spec => []NoLostWakeup
<1>1. PoolInv => NoLostWakeup
  BY DEF PoolInv
<1> QED
  BY <1>1, PoolInvariant, PTL

(***************************************************************************)
(* A task is with its putter, in the queue, with one worker or done, and   *)
(* in one place only: it is never run twice.                               *)
(***************************************************************************)
THEOREM PoolRunsOnce == Spec => []TaskOnce
<1>1. PoolInv => TaskOnce
  BY DEF PoolInv
<1> QED
  BY <1>1, PoolInvariant, PTL

-----------------------------------------------------------------------------
=============================================================================
