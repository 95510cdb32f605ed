------------------------------- MODULE Channel -------------------------------
(***************************************************************************)
(* A channel (channel.h) with its two condition variables (co_condition),  *)
(* the active list and the call stack of the scheduler that runs the       *)
(* coroutines using it, and the phases of event_loop.                      *)
(*                                                                         *)
(* One thread runs everything: a coroutine runs until it blocks, sleeps or *)
(* ends, and control then goes back to whoever resumed it.  An operation   *)
(* of the channel is therefore one step up to its return or its wait, and  *)
(* the rest of a wait is one step with the resume that ends it.            *)
(***************************************************************************)
EXTENDS Naturals, SequencesExt

CONSTANTS
  Co,        \* coroutines
  Cap,       \* cap_
  Values,    \* what is sent
  None, Pending, Closed   \* see ret and arg

ASSUME ChannelAssumption ==
  /\ IsFiniteSet(Co)
  /\ Cap \in Nat
  /\ None \notin Values /\ Pending \notin Values /\ Closed \notin Values
  /\ None # Pending /\ None # Closed /\ Pending # Closed

VARIABLES
  queue,     \* queue_
  size,      \* size_
  is_yield,  \* is_yield_
  close,     \* close_
  empty,     \* empty_->co_deque_: coroutines waiting in get
  full,      \* full_->co_deque_: coroutines waiting in put
  active,    \* sch_epoll_->active_link_: coroutines to be resumed
  stack,     \* co_call_stack_ without the main coroutine at its bottom, top first
  st,        \* [Co -> States]: where each coroutine is
  phase,     \* where the main coroutine is
  arg,       \* the value a waiting put will send, None for others
  ret        \* result of a coroutine's last operation: the value sent or
             \* received, Closed for false, Pending if it has not returned

chanVars == <<queue, size, is_yield, close, empty, full>>
vars == <<queue, size, is_yield, close, empty, full, active, stack, st, phase, arg, ret>>

(***************************************************************************)
(* "get" and "put": in a deque; "getready" and "putready": signalled;      *)
(* "sleep": in register_event; "awake": its event has come; "run": on the  *)
(* call stack, running if it is on top.                                    *)
(***************************************************************************)
States == {"new", "run", "get", "put", "getready", "putready", "sleep", "awake", "done"}

Phases == {"main", "collect", "drain"}

Init ==
  /\ queue = <<>> /\ size = 0 /\ is_yield = FALSE /\ close = FALSE
  /\ empty = <<>> /\ full = <<>>
  /\ active = <<>> /\ stack = <<>>
  /\ st = [c \in Co |-> "new"]
  /\ phase = "main"
  /\ arg = [c \in Co |-> None]
  /\ ret = [c \in Co |-> None]

Running(c) == stack # <<>> /\ Head(stack) = c

Return(c, r) ==
  /\ ret' = [ret EXCEPT ![c] = r]
  /\ arg' = [arg EXCEPT ![c] = None]

-----------------------------------------------------------------------------
\* Mutant: the coroutine that is signalled stays in the deque.
SignalEmptyNoPop(a, s) ==
  /\ UNCHANGED empty
  /\ active' = IF empty = <<>> THEN a ELSE Append(a, Head(empty))
  /\ st' = IF empty = <<>> THEN s ELSE [s EXCEPT ![Head(empty)] = "getready"]

\* Mutant: the item is linked only if the active list is empty.
SignalEmptyUnlinked(a, s) ==
  /\ empty' = IF empty = <<>> THEN empty ELSE Tail(empty)
  /\ active' = IF empty # <<>> /\ a = <<>> THEN <<Head(empty)>> ELSE a
  /\ st' = IF empty = <<>> THEN s ELSE [s EXCEPT ![Head(empty)] = "getready"]

(***************************************************************************)
(* co_cond_signal moves the first waiter of deque q to the end of the      *)
(* active list, if there is one.  a and s are the active list and the      *)
(* states of the coroutines at that point of the calling operation.        *)
(***************************************************************************)
SignalEmpty(a, s) ==
  \/ /\ empty = <<>>
     /\ active' = a /\ st' = s
     /\ UNCHANGED empty
  \/ /\ empty # <<>>
     /\ empty' = Tail(empty)
     /\ active' = Append(a, Head(empty))
     /\ st' = [s EXCEPT ![Head(empty)] = "getready"]

SignalFull(a, s) ==
  \/ /\ full = <<>>
     /\ active' = a /\ st' = s
     /\ UNCHANGED full
  \/ /\ full # <<>>
     /\ full' = Tail(full)
     /\ active' = Append(a, Head(full))
     /\ st' = [s EXCEPT ![Head(full)] = "putready"]

(***************************************************************************)
(* put and get after their loop.                                           *)
(***************************************************************************)
PutReturn(c, v, a, s) ==
  /\ is_yield' = FALSE
  /\ queue' = Append(queue, v)
  /\ size' = size + 1
  /\ SignalEmpty(a, s)
  /\ Return(c, v)
  /\ UNCHANGED <<close, full>>

\* Mutant: get does not signal that there is a free place.
GetReturnSilent(c, a, s) ==
  /\ is_yield' = FALSE
  /\ queue' = Tail(queue)
  /\ size' = size - 1
  /\ active' = a /\ st' = s
  /\ Return(c, Head(queue))
  /\ UNCHANGED <<close, empty, full>>

GetReturn(c, a, s) ==
  /\ is_yield' = FALSE
  /\ queue' = Tail(queue)
  /\ size' = size - 1
  /\ SignalFull(a, s)
  /\ Return(c, Head(queue))
  /\ UNCHANGED <<close, empty>>

(***************************************************************************)
(* co_cond_wait up to its yield.                                           *)
(***************************************************************************)
WaitFull(c) ==
  /\ is_yield' = TRUE
  /\ full' = Append(full, c)
  /\ st' = [st EXCEPT ![c] = "put"]
  /\ UNCHANGED <<queue, size, close, empty>>

WaitEmpty(c) ==
  /\ is_yield' = TRUE
  /\ empty' = Append(empty, c)
  /\ st' = [st EXCEPT ![c] = "get"]
  /\ UNCHANGED <<queue, size, close, full>>

-----------------------------------------------------------------------------
(***************************************************************************)
(* The operations of a running coroutine.                                  *)
(***************************************************************************)
Put(c, v) ==
  /\ Running(c)
  /\ \/ /\ close
        /\ Return(c, Closed)
        /\ UNCHANGED <<chanVars, active, stack, st>>
     \/ /\ ~close /\ size # Cap
        /\ PutReturn(c, v, active, st)
        /\ UNCHANGED stack
     \/ /\ ~close /\ size = Cap
        /\ WaitFull(c)
        /\ stack' = Tail(stack)
        /\ ret' = [ret EXCEPT ![c] = Pending]
        /\ arg' = [arg EXCEPT ![c] = v]
        /\ UNCHANGED active
  /\ UNCHANGED phase

Get(c) ==
  /\ Running(c)
  /\ \/ /\ close
        /\ Return(c, Closed)
        /\ UNCHANGED <<chanVars, active, stack, st>>
     \/ /\ ~close /\ size # 0
        /\ GetReturn(c, active, st)
        /\ UNCHANGED stack
     \/ /\ ~close /\ size = 0
        /\ WaitEmpty(c)
        /\ stack' = Tail(stack)
        /\ ret' = [ret EXCEPT ![c] = Pending]
        /\ UNCHANGED <<active, arg>>
  /\ UNCHANGED phase

\* Mutant: close wakes the putters and forgets the getters.
CloseFullOnly(c) ==
  /\ Running(c)
  /\ close' = TRUE
  /\ active' = active \o full
  /\ full' = <<>>
  /\ st' = [d \in Co |-> IF st[d] = "put" THEN "putready" ELSE st[d]]
  /\ UNCHANGED <<queue, size, is_yield, empty, stack, phase, arg, ret>>

(***************************************************************************)
(* close: a broadcast on full_, then one on empty_.                        *)
(***************************************************************************)
Close(c) ==
  /\ Running(c)
  /\ close' = TRUE
  /\ active' = active \o full \o empty
  /\ full' = <<>> /\ empty' = <<>>
  /\ st' = [d \in Co |-> IF st[d] = "put" THEN "putready"
                         ELSE IF st[d] = "get" THEN "getready" ELSE st[d]]
  /\ UNCHANGED <<queue, size, is_yield, stack, phase, arg, ret>>

(***************************************************************************)
(* A coroutine starts another one: resume() of a new coroutine, by main    *)
(* before its event loop or by the running coroutine.                      *)
(***************************************************************************)
Spawn(c) ==
  /\ st[c] = "new"
  /\ stack # <<>> \/ phase = "main"
  /\ st' = [st EXCEPT ![c] = "run"]
  /\ stack' = <<c>> \o stack
  /\ UNCHANGED <<chanVars, active, phase, arg, ret>>

(***************************************************************************)
(* It waits for a timer or a file descriptor, or its function returns.     *)
(***************************************************************************)
Sleep(c) ==
  /\ Running(c)
  /\ st' = [st EXCEPT ![c] = "sleep"]
  /\ stack' = Tail(stack)
  /\ UNCHANGED <<chanVars, active, phase, arg, ret>>

Finish(c) ==
  /\ Running(c)
  /\ st' = [st EXCEPT ![c] = "done"]
  /\ stack' = Tail(stack)
  /\ UNCHANGED <<chanVars, active, phase, arg, ret>>

-----------------------------------------------------------------------------
(***************************************************************************)
(* event_loop: collect what epoll and the timing wheel report, then resume *)
(* the head of the active list until the list is empty.                    *)
(***************************************************************************)
BeginLoop ==
  /\ phase = "main" /\ stack = <<>>
  /\ phase' = "collect"
  /\ UNCHANGED <<chanVars, active, stack, st, arg, ret>>

Wake(c) ==
  /\ phase = "collect" /\ st[c] = "sleep"
  /\ active' = Append(active, c)
  /\ st' = [st EXCEPT ![c] = "awake"]
  /\ UNCHANGED <<chanVars, stack, phase, arg, ret>>

BeginDrain ==
  /\ phase = "collect"
  /\ phase' = "drain"
  /\ UNCHANGED <<chanVars, active, stack, st, arg, ret>>

Resumes(c) == phase = "drain" /\ stack = <<>> /\ active # <<>> /\ Head(active) = c

ResumeAwake(c) ==
  /\ Resumes(c) /\ st[c] = "awake"
  /\ active' = Tail(active)
  /\ stack' = <<c>>
  /\ st' = [st EXCEPT ![c] = "run"]
  /\ UNCHANGED <<chanVars, phase, arg, ret>>

\* Mutant: put tests for a free place once and not again after its wait.
ResumePutOnce(c) ==
  /\ Resumes(c) /\ st[c] = "putready" /\ ~close
  /\ PutReturn(c, arg[c], Tail(active), [st EXCEPT ![c] = "run"])
  /\ stack' = <<c>>
  /\ UNCHANGED phase

ResumePut(c) ==
  /\ Resumes(c) /\ st[c] = "putready"
  /\ \/ /\ close
        /\ Return(c, Closed)
        /\ active' = Tail(active)
        /\ stack' = <<c>>
        /\ st' = [st EXCEPT ![c] = "run"]
        /\ UNCHANGED chanVars
     \/ /\ ~close /\ size # Cap
        /\ PutReturn(c, arg[c], Tail(active), [st EXCEPT ![c] = "run"])
        /\ stack' = <<c>>
     \/ /\ ~close /\ size = Cap
        /\ WaitFull(c)
        /\ active' = Tail(active)
        /\ UNCHANGED <<stack, arg, ret>>
  /\ UNCHANGED phase

ResumeGet(c) ==
  /\ Resumes(c) /\ st[c] = "getready"
  /\ \/ /\ close
        /\ Return(c, Closed)
        /\ active' = Tail(active)
        /\ stack' = <<c>>
        /\ st' = [st EXCEPT ![c] = "run"]
        /\ UNCHANGED chanVars
     \/ /\ ~close /\ size # 0
        /\ GetReturn(c, Tail(active), [st EXCEPT ![c] = "run"])
        /\ stack' = <<c>>
     \/ /\ ~close /\ size = 0
        /\ WaitEmpty(c)
        /\ active' = Tail(active)
        /\ UNCHANGED <<stack, arg, ret>>
  /\ UNCHANGED phase

EndDrain ==
  /\ phase = "drain" /\ stack = <<>> /\ active = <<>>
  /\ phase' = "collect"
  /\ UNCHANGED <<chanVars, active, stack, st, arg, ret>>

-----------------------------------------------------------------------------
Resume(c) == ResumeAwake(c) \/ ResumePut(c) \/ ResumeGet(c)

CoStep(c) ==
  \/ \E v \in Values : Put(c, v)
  \/ Get(c) \/ Close(c) \/ Spawn(c) \/ Sleep(c) \/ Finish(c)

Next ==
  \/ \E c \in Co : CoStep(c) \/ Wake(c) \/ Resume(c)
  \/ BeginLoop \/ BeginDrain \/ EndDrain

Spec == Init /\ [][Next]_vars

(***************************************************************************)
(* The loop runs, and a coroutine does not compute for ever: it goes to    *)
(* sleep or ends, unless it has blocked on the channel before.             *)
(***************************************************************************)
FairSpec ==
  /\ Spec
  /\ WF_vars(BeginLoop) /\ WF_vars(BeginDrain) /\ WF_vars(EndDrain)
  /\ WF_vars(\E c \in Co : Resume(c))
  /\ WF_vars(\E c \in Co : Sleep(c) \/ Finish(c))

-----------------------------------------------------------------------------
Results == Values \cup {None, Pending, Closed}

TypeOK ==
  /\ queue \in Seq(Values) /\ size \in Nat
  /\ is_yield \in BOOLEAN /\ close \in BOOLEAN
  /\ empty \in Seq(Co) /\ full \in Seq(Co)
  /\ active \in Seq(Co) /\ stack \in Seq(Co)
  /\ st \in [Co -> States]
  /\ phase \in Phases
  /\ arg \in [Co -> Values \cup {None}]
  /\ ret \in [Co -> Results]

In(q, c) == \E j \in DOMAIN q : q[j] = c

(***************************************************************************)
(* List q holds, once each, exactly the coroutines whose state is in S.    *)
(***************************************************************************)
Holds(q, s, S) ==
  /\ IsInjective(q)
  /\ \A c \in Co : s[c] \in S <=> In(q, c)

Ready == {"getready", "putready", "awake"}

Blocked == {"get", "put", "getready", "putready"}

(***************************************************************************)
(* Every suspended coroutine is in exactly one list, once, and in the one  *)
(* its state names: no coroutine is lost, and none is resumed twice for    *)
(* one wait (the second resume would run a frame that has returned).       *)
(***************************************************************************)
Located ==
  /\ Holds(empty, st, {"get"})
  /\ Holds(full, st, {"put"})
  /\ Holds(active, st, Ready)
  /\ Holds(stack, st, {"run"})

(***************************************************************************)
(* size_ counts the values in queue_ and never passes the capacity, though *)
(* put tests size_ == cap_ and not >=, and other coroutines run between    *)
(* the test and the push of a put that waited.                             *)
(***************************************************************************)
SizeOK == size = Len(queue) /\ size <= Cap

NumIn(s, x) == Cardinality({c \in Co : s[c] = x})

(***************************************************************************)
(* No wakeup is lost: while a coroutine waits in get, every value in the   *)
(* channel has a getter that was signalled for it and has yet to run; the  *)
(* same for the free places and the putters.  A running coroutine may take *)
(* a value before the getter that was signalled for it, and that getter    *)
(* then waits again at the back.  After close nobody waits.                *)
(***************************************************************************)
NoLostWakeup ==
  /\ empty # <<>> => size <= NumIn(st, "getready")
  /\ full # <<>> => Cap <= size + NumIn(st, "putready")
  /\ close => empty = <<>> /\ full = <<>>

(***************************************************************************)
(* isyield() tells of no coroutine that is not there: before close, some   *)
(* coroutine is inside put or get when it returns true.                    *)
(***************************************************************************)
YieldFlag ==
  is_yield /\ ~close => \E c \in Co : st[c] \in Blocked

(***************************************************************************)
(* A result is pending exactly while the coroutine is inside put or get,   *)
(* and a put keeps its value for as long as it waits.                      *)
(***************************************************************************)
PendingOK ==
  \A c \in Co :
    /\ ret[c] = Pending <=> st[c] \in Blocked
    /\ arg[c] # None <=> st[c] \in {"put", "putready"}

(***************************************************************************)
(* The channel is a bounded first-in first-out buffer.                     *)
(***************************************************************************)
Fifo == INSTANCE BoundedFifo WITH buf <- queue, closed <- close

RefinesFifo == Fifo!Spec

(***************************************************************************)
(* A coroutine that was signalled or whose event came is resumed.          *)
(***************************************************************************)
ReadyRuns ==
  \A c \in Co : st[c] \in Ready ~> st[c] \notin Ready

(***************************************************************************)
(* close releases everybody: an operation that is blocked when the channel *)
(* is closed returns.                                                      *)
(***************************************************************************)
CloseReturns == \A c \in Co : close /\ ret[c] = Pending ~> ret[c] # Pending

(***************************************************************************)
(* The channel is consistent: who waits is in one list, size_ counts the   *)
(* values, and isyield() and the pending results tell the truth, however   *)
(* puts, gets, signals and close are interleaved.                          *)
(***************************************************************************)
ChannelConsistent == TypeOK /\ Located /\ SizeOK /\ YieldFlag /\ PendingOK

=============================================================================
