------------------------------- MODULE Thread --------------------------------
(***************************************************************************)
(* One Thread object (Thread.cpp): start, the thread it makes, and join.   *)
(* start waits on the latch L_ until the new thread has stored its tid.    *)
(* The function of the thread is the client's: it runs while life is       *)
(* "func", and returns with FuncReturns.  An assert is not an abort: an    *)
(* invariant says that it holds.                                           *)
(***************************************************************************)
EXTENDS CountDownLatch

CONSTANTS
  Caller,       \* the thread that calls start and join
  Made,         \* the thread that is made
  ThreadL       \* the latch Thread::L_

ASSUME ThreadAssumption == ThreadL \in Latches /\ {Caller, Made} \subseteq LatchUsers

VARIABLES
  start_, join_,  \* the flags of that name
  tid_,           \* BOOLEAN: tid_ > 0
  life            \* of the thread: none, born, tid, func, end

thread == <<latch, start_, join_, tid_, life>>

ThreadInit ==
  /\ LatchInit
  /\ start_ = FALSE /\ join_ = FALSE /\ tid_ = FALSE
  /\ life = "none"

\* start, up to L_.wait(); pthread_create may fail.
Create ==
  /\ \/ start_' = TRUE /\ life' = "born"
     \/ UNCHANGED <<start_, life>>
  /\ UNCHANGED <<latch, join_, tid_>>

StartWaits == WaitStep(ThreadL, Caller) /\ UNCHANGED <<start_, join_, tid_, life>>

Started == start_ => At(ThreadL, Caller) = "done"

\* run_in_thread, up to the call of func_.
run_in_thread ==
  \/ /\ life = "born" /\ life' = "tid" /\ tid_' = TRUE
     /\ UNCHANGED <<latch, start_, join_>>
  \/ /\ life = "tid" /\ CountdownStep(ThreadL, Made)
     /\ life' = IF At(ThreadL, Made)' = "done" THEN "func" ELSE "tid"
     /\ UNCHANGED <<start_, join_, tid_>>

FuncReturns ==
  /\ life = "func" /\ life' = "end"
  /\ UNCHANGED <<latch, start_, join_, tid_>>

\* join up to pthread_join, which returns when life is "end".
join ==
  /\ join_' = TRUE
  /\ UNCHANGED <<latch, start_, tid_, life>>

ThreadTypeOK ==
  /\ latch \in [Latches -> LatchType]
  /\ {start_, join_, tid_} \subseteq BOOLEAN
  /\ life \in {"none", "born", "tid", "func", "end"}

=============================================================================
