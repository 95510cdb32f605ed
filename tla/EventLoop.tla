------------------------------ MODULE EventLoop ------------------------------
(***************************************************************************)
(* What the scheduler promises to the code that runs in its coroutines:    *)
(* register_event suspends its caller until the descriptor it has          *)
(* registered is ready or its time is up; event_loop collects those, and   *)
(* resumes them one after the other.  There is no wheel and no clock here: *)
(* which descriptors are ready and which timers are due is up to the       *)
(* client, and every timeout is one the wheel can hold.  Module Scheduler  *)
(* implements this one; SysCall is built on it.                            *)
(***************************************************************************)
EXTENDS SequencesExt, Epoll

CONSTANT Co     \* coroutines

VARIABLES
  st,           \* [Co -> States]
  stack,        \* co_call_stack_ without the main coroutine, top first
  rfd,          \* [Co -> Fds \cup {NoFd}]: the descriptor waited for
  timer,        \* [Co -> BOOLEAN]: the wait has a timeout
  is_timeout,   \* [Co -> BOOLEAN]: item->is_timeout, and the result of the last register_event
  active,       \* active_link_ while it is being worked off
  destroy_co    \* destroy_co_

loop == <<item_map, interest, st, stack, rfd, timer, is_timeout, active, destroy_co>>

States == {"new", "run", "wait", "yield", "ended", "freed"}

LoopInit ==
  /\ EpollInit
  /\ st = [c \in Co |-> "new"]
  /\ stack = <<>> /\ active = <<>> /\ destroy_co = <<>>
  /\ rfd = [c \in Co |-> NoFd]
  /\ timer = [c \in Co |-> FALSE] /\ is_timeout = [c \in Co |-> FALSE]

Running(c) == stack # <<>> /\ Head(stack) = c

-----------------------------------------------------------------------------
(***************************************************************************)
(* coroutine::resume, by whoever runs: the resumed one runs on top of it.  *)
(* A new coroutine may be one that stands for a deleted one again.         *)
(***************************************************************************)
Start(c) ==
  /\ st[c] \in {"new", "yield", "freed"}
  /\ st' = [st EXCEPT ![c] = "run"]
  /\ stack' = <<c>> \o stack
  /\ UNCHANGED <<item_map, interest, rfd, timer, is_timeout, active, destroy_co>>

\* Mutant: the main coroutine goes on, whoever it was that resumed.
ReturnToMain == <<>>

\* The call stack when the one on top yields or ends: who resumed it goes on.
Resumer == Tail(stack)

Yield(c) ==
  /\ Running(c)
  /\ st' = [st EXCEPT ![c] = "yield"]
  /\ stack' = Resumer
  /\ UNCHANGED <<item_map, interest, rfd, timer, is_timeout, active, destroy_co>>

\* The end of co_func_wrapper.
Finish(c) ==
  /\ Running(c)
  /\ st' = [st EXCEPT ![c] = "ended"]
  /\ destroy_co' = Append(destroy_co, c)
  /\ stack' = Resumer
  /\ UNCHANGED <<item_map, interest, rfd, timer, is_timeout, active>>

\* register_event up to its yield, and with a timeout above the wheel's size.
Suspend(c, fd, timed) ==
  /\ Running(c)
  /\ EpollAdd(fd, c)
  /\ st' = [st EXCEPT ![c] = "wait"]
  /\ stack' = Resumer
  /\ rfd' = [rfd EXCEPT ![c] = fd]
  /\ timer' = [timer EXCEPT ![c] = timed]
  /\ is_timeout' = [is_timeout EXCEPT ![c] = FALSE]
  /\ UNCHANGED <<active, destroy_co>>

Refuse(c) ==
  /\ Running(c)
  /\ is_timeout' = [is_timeout EXCEPT ![c] = FALSE]
  /\ UNCHANGED <<item_map, interest, st, stack, rfd, timer, active, destroy_co>>

\* A descriptor is closed, whoever waits on it.
Closed(fd) ==
  /\ EpollClosed(fd)
  /\ UNCHANGED <<st, stack, rfd, timer, is_timeout, active, destroy_co>>

-----------------------------------------------------------------------------
(***************************************************************************)
(* event_loop.  Turn puts on the active list the coroutines es whose       *)
(* descriptor is ready, all of them registered, and behind them ts, whose  *)
(* time is up; Resume takes the first one, and completes register_event.   *)
(***************************************************************************)
Registered(c) == st[c] = "wait" /\ rfd[c] # NoFd /\ interest[rfd[c]] = c

Turn(es, ts) ==
  /\ stack = <<>> /\ active = <<>> /\ IsInjective(es \o ts)
  /\ \A c \in Range(es) : Registered(c)
  /\ \A c \in Range(ts) : st[c] = "wait" /\ timer[c]
  /\ active' = es \o ts
  /\ is_timeout' = [c \in Co |-> is_timeout[c] \/ c \in Range(ts)]
  /\ UNCHANGED <<item_map, interest, st, stack, rfd, timer, destroy_co>>

Resume(c) ==
  /\ stack = <<>> /\ active # <<>> /\ Head(active) = c
  /\ active' = Tail(active)
  /\ st' = [st EXCEPT ![c] = "run"]
  /\ stack' = <<c>>
  /\ EpollDel(rfd[c])
  /\ rfd' = [rfd EXCEPT ![c] = NoFd]
  /\ timer' = [timer EXCEPT ![c] = FALSE]
  /\ UNCHANGED <<is_timeout, destroy_co>>

clear_co ==
  /\ stack = <<>> /\ active = <<>>
  /\ st' = [c \in Co |-> IF c \in Range(destroy_co) THEN "freed" ELSE st[c]]
  /\ destroy_co' = <<>>
  /\ UNCHANGED <<item_map, interest, stack, rfd, timer, is_timeout, active>>

LoopNext ==
  \/ \E c \in Co :
       \/ Start(c) \/ Yield(c) \/ Finish(c) \/ Refuse(c) \/ Resume(c)
       \/ \E fd \in Fds \cup {NoFd}, timed \in BOOLEAN : Suspend(c, fd, timed)
  \/ \E fd \in Fds : Closed(fd)
  \/ \E S \in SUBSET Co : \E E \in SUBSET S :
       \E es \in SetToSeqs(E), ts \in SetToSeqs(S \ E) : Turn(es, ts)
  \/ clear_co

LoopSpec == LoopInit /\ [][LoopNext]_loop

=============================================================================
