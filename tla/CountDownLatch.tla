--------------------------- MODULE CountDownLatch ----------------------------
(***************************************************************************)
(* CountDownLatch (CountDownLatch.cpp) with the mutex and the condition it *)
(* is made of.  The latches are those of a thread's start; threads call    *)
(* wait or Countdown on one, once.  A thread holds mutex_ in place "test"  *)
(* only, and isLock_ is as in Monitor: set by Lock and by the return of    *)
(* Wait, cleared by UnLock after the mutex has been given away.            *)
(***************************************************************************)
EXTENDS Naturals

CONSTANTS
  Latches,      \* the latches
  LatchUsers,   \* the threads that use them
  MaxSpurious   \* bound on the waits on a latch that return without a notify

ASSUME LatchAssumption == MaxSpurious \in Nat

VARIABLE latch  \* [Latches -> LatchType]

LatchPlaces == {"out", "test", "asleep", "awake", "unlock", "done"}
LatchType == [count : 0 .. 1, isLock : BOOLEAN, at : [LatchUsers -> LatchPlaces], woken : 0 .. MaxSpurious]

\* Mutant: L_(2) with one thread that counts down.
NewLatchTwo == [count |-> 2, isLock |-> FALSE, at |-> [t \in LatchUsers |-> "out"], woken |-> 0]

NewLatch == [count |-> 1, isLock |-> FALSE, at |-> [t \in LatchUsers |-> "out"], woken |-> 0]

LatchInit == latch = [l \in Latches |-> NewLatch]

At(l, t) == latch[l].at[t]
Unlocked(l) == \A t \in LatchUsers : At(l, t) # "test"

\* Mutant: if for while.
MustWaitOnce(l) == latch[l].count > 0 /\ latch[l].woken = 0

MustWait(l) == latch[l].count > 0

\* wait: the lock, or the return of cond_.Wait(); then the test of the loop.
WaitLock(l, t) ==
  /\ At(l, t) \in {"out", "awake"} /\ Unlocked(l)
  /\ latch' = [latch EXCEPT ![l].isLock = TRUE, ![l].at[t] = "test"]

WaitTest(l, t) ==
  /\ At(l, t) = "test"
  /\ latch' = [latch EXCEPT ![l].at[t] = IF MustWait(l) THEN "asleep" ELSE "unlock"]

\* pthread_cond_wait may return without a notify.
SpuriousWakeup(l, t) ==
  /\ At(l, t) = "asleep" /\ latch[l].woken < MaxSpurious
  /\ latch' = [latch EXCEPT ![l].at[t] = "awake", ![l].woken = @ + 1]

Countdown(l, t) ==
  /\ At(l, t) = "out" /\ Unlocked(l)
  /\ latch' = [latch EXCEPT ![l].count = @ - 1, ![l].isLock = TRUE,
                 ![l].at = [u \in LatchUsers |->
                   IF u = t THEN "unlock"
                   ELSE IF @[u] = "asleep" /\ latch[l].count = 1 THEN "awake" ELSE @[u]]]

\* The second half of Mutex::UnLock.
FlagCleared(l, t) ==
  /\ At(l, t) = "unlock"
  /\ latch' = [latch EXCEPT ![l].isLock = FALSE, ![l].at[t] = "done", ![l].woken = 0]

WaitStep(l, t) == WaitLock(l, t) \/ WaitTest(l, t) \/ FlagCleared(l, t)
CountdownStep(l, t) == Countdown(l, t) \/ FlagCleared(l, t)

=============================================================================
