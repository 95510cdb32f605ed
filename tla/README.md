# Batonlib in TLA+

Batonlib is a C++ library of coroutines for Linux: a scheduler per thread with
an event loop over epoll and a timing wheel, condition variables and channels
for coroutines, wrappers for system calls, a small network layer, and a set of
threading classes with an asynchronous log. This directory holds TLA+ models of
it, TLC configurations that check them on small instances, and TLAPS proofs for
instances of every size. Line numbers refer to `src/Batonlib/`.

## Inventory

| part | state | operations | interacts with | what is hard |
|---|---|---|---|---|
| timing wheel (`time_wheel`) | slots of `time_item`s, `w_start_`, `w_index_` | `add_timeout`, `take_all_timeout`, `removeitem` | called by the scheduler; reads the wall clock | wrap around, lag, clock set back, int truncation, intrusive lists |
| scheduler (`scheduler`) | call stack, active list, destroy queue | `register_event`, `event_loop`, `clear_co` | resumes coroutines, which call back into it | event and timeout in one turn, ignored results, life of coroutines |
| `co_epoll` | `item_map_`, the kernel's interest list | `add`, `del`, `poll` | scheduler | shared and reused descriptors |
| coroutine | context, `start_`, `end_` | `resume`, `yield` | call stack | nested resume, deletion |
| channel, `co_condition` | queue, size, two wait deques | `put`, `get`, `close`, `wait`, `signal`, `broadcast` | active list of the scheduler | barging between signal and resume, lost wakeups, close |
| system call wrappers | `g_socket_inf`, errno | `co_socket`, `co_accept`, `co_connect`, `co_close`, `co_read`, `co_recv`, `co_write`, `co_send` | `register_event`, the kernel's sockets | results taken for timeouts, close in use, reuse of numbers, partial writes |
| connection, server | callbacks, status, `end_` | `start`, `run`, `send`, `close` | wrappers; one coroutine each, resumed on top of the server | errno after a read of 0, close from elsewhere, who is told what |
| `Mutex`, `Condition` | pthread objects and the flag `isLock_` | lock, wait, notify | all of `base/` | the flag is written after the unlock |
| `Thread`, `CountDownLatch` | start and join flags, tid, count | `start`, `join`, `wait`, `Countdown` | pool, log | spurious wakeups, a thread that cannot be made, life of the latch |
| `ThreadPool` | task queue, `running_` | `start`, `put`, `take`, `stop` | Mutex, Thread | lost wakeups, stop against put and take |
| `LogStream`, `Logging` | a fixed buffer, `once_control_` | `operator<<`, `output` | log | the edge of the buffer, the least integer, first use by several threads |
| `AsyncLogging`, `LogFile` | four buffers, list of full ones | `append`, back-end thread, `start`, `stop` | Mutex, Condition, Thread, file | buffers handed round, overload, stop, self-lock |

What makes each correct: a timer fires when it is due, once, and never early; a
suspended coroutine is in exactly one list and is resumed once; a channel is a
bounded FIFO buffer and nobody sleeps while there is something to do; epoll
never holds a pointer to a deleted item; an open descriptor has one owner and
one `socket_inf`; a system call returns, and says what happened; a connection
that has ended is called back and freed; tasks and log lines are neither lost
nor duplicated. The hazards behind these are in `PROJECT.json`, each at its line.

## Modules

| module | models | composed of |
|---|---|---|
| `TimeWheel` | `time_wheel.cpp` and a client that uses it as the event loop does | |
| `BoundedFifo` | what a channel promises (abstract) | |
| `Channel` | `channel.h`, `co_condition.cpp`, the call stack and the drain loop | refines `BoundedFifo` |
| `Epoll` | `co_epoll.cpp` and the kernel's interest list | |
| `EventLoop` | what the scheduler promises to coroutines (abstract) | `Epoll` |
| `Scheduler` | `scheduler.cpp`, `coroutine.cpp` | `Epoll`, operators of `TimeWheel`; refines `TimeWheel` and `EventLoop` |
| `SysCall` | `co_sys_call.cpp`, the kernel's sockets and the peers | `EventLoop` |
| `Client` | a program that calls the wrappers | `SysCall` |
| `Connection` | `connection.cpp`, `server.cpp` | `SysCall` |
| `Monitor` | `Mutex.cpp`, `Condition.cpp` | |
| `ThreadPool` | `ThreadPool.cpp`, and `Thread.cpp` as it uses it | `Monitor` |
| `CountDownLatch` | `CountDownLatch.cpp` with its mutex | |
| `Thread` | `Thread.cpp` | `CountDownLatch` |
| `LogStream` | `LogStream.cpp` | |
| `AsyncLogging` | `AsyncLogging.cpp`, `LogFile.cpp` | `Thread`, `LogStream` |
| `Logging` | `Logging.cpp`, and threads that log | `AsyncLogging` |
| `MC*` | symmetry sets and values for TLC, where a run needs them | the module of that name |
| `Lists` | lemmas about lists and sets for the proofs | |
| `TimeWheelProofs`, `ChannelProofs`, `SchedulerProofs`, `ClientProofs`, `ConnectionProofs`, `ThreadPoolProofs`, `LoggingProofs` | theorems | the module of that name, and `Lists` (but for `ChannelProofs`) |

Definitions named as mutants (each with a comment beginning "Mutant") are broken
variants of the definition that follows them. No specification uses them; each
replaces its original in a test that the property it is listed for can fail.

**TimeWheel.** A list is the sequence of its items; the back pointer `t_link` is
kept because the code branches on it. `AddTimeout`, `TakeAllTimeout` and
`Removeitem` are the three operations; `Arm`, `Cancel`, `Take`, `Release` the
calls of the scheduler; `Tick` and `StepBack` the wall clock. The unsigned
subtraction of `add_timeout` makes the test `diff < 0` dead, and the one before
it refuses what lies before `w_start_`: this is `Accepts`. The conversion of the
elapsed time to int is `ToInt`, with the width as a constant. `add_timeout` has
no return statement on its success path; its only caller ignores the result.

**Channel.** One thread runs everything, so an operation is one step up to its
return or its wait, and the rest of a wait is one step with the resume that ends
it. `active` is the scheduler's active list, `stack` its call stack without the
main coroutine. `Sleep` and `Wake` stand for `register_event` and an event.
A capacity of 0 is allowed: every put then waits.

**Scheduler, Epoll.** A coroutine is in at most one `register_event`, so it
stands for the `co_epoll_item` and the `time_item` it allocates there.
`interest` is the kernel's list, `item_map` the library's; a close changes the
first and not the second. `HandleEvent`, `Take`, `Merge`, `Resume`, `EndDrain`,
`Func` and `clear_co` follow `event_loop` line by line; `CrashEvent` is the use
of a null or uninitialized pointer in line 136 or 129, after which nothing is
said. The constants `SharedFd`, `CloseInUse`, `PlainYield`, `HasFunc` say what
the coroutines may do. Timeout 0 stands for 0 and everything below -1. `Tick` and
`StepBack` move the clock at any point between two steps: forward as far as
`MaxLag` ahead of the last take, back as far as `MaxBack` behind it. The main
coroutine does not call `yield`, which would empty the call stack.

**EventLoop.** The event loop without wheel, clock and links: `Suspend` and
`Refuse` are the two ways out of `register_event`, `Turn` collects whom an event
or a timeout wakes, `Resume` resumes the first of them. `IsEventLoop` shows that
`Scheduler` implements it; the modules above are built on it, and so need not
carry the wheel.

**SysCall.** A wrapper is one step up to its `co_register`, and one from there
to the next or to its return; `call` says where it is, `res` what it returned.
`errno` is one variable, since all coroutines of the thread share it; EAGAIN and
EINTR are told from the rest, since `connection::run` tells them. With `Signals`,
signals with a handler come: an `epoll_wait` that finds nothing ready is
interrupted and leaves EINTR (`Interrupted`). The kernel's sockets are external: a socket has a state,
unread input, what the peer did to it, and the room in its send buffer; a
message is `MsgLen` units. Where the code leaves the outcome to chance (`len` in
`co_connect` is not initialized) any outcome is possible; where SO_ERROR tells
the truth, it is 0 for every connection that was not refused, also for one that
is still under way. A null `socket_inf` is
the fate "crashed", SIGPIPE "killed". Timeouts are kinds: what the wheel holds,
what `register_event` refuses, and -1.

**Connection.** One action per stretch of `server::run` and `connection::run`
between two calls that may wait. Callbacks are the user's: each does nothing,
sends to or closes its own connection or another one, as `Zchat_test.cpp` does,
and in `ConnectedCb` may set a timeout; `OnConnected`, `OnReceive` and
`OnDisconnected` say which of these a run allows in which callback. A connection
and its coroutine are one, and deleted together.

**Monitor, ThreadPool.** `Mutex::UnLock` is two steps, because the flag is
written after the mutex is free. A critical section is one step from the lock,
or from the return of a wait, to the unlock or the next wait. `running_` is read
without the lock in `Thread_func` and that read is a step of its own. `threads`
is `threads_`: `stop` joins in the order in which `start` made them. An assert
is not an abort: an invariant says that it holds. The exception is the join of a
thread that could not be made, which ends the process. Tasks do not call `put`.

**CountDownLatch, Thread.** A latch is used by one thread that waits and one
that counts down. `Thread` has the steps of `start`, of `run_in_thread` and of
`join`; `pthread_create` may fail.

**LogStream, Logging, AsyncLogging.** Of a buffer its length, the end of what
was written into it and its lines are kept, of a number its digits. A line is
made in one step, since a Logging object is local to its thread; `output` has a
step for `pthread_once`, for the making of the log and for `append`. Lines are
numbered in the order of their appends. The timed wait of the back end may end
at any moment. In place `self` the back end waits for the mutex it holds.
Nothing is appended after `stop`, since the destructor calls it. In this build
`LOG` is defined as `std::cout` (`Logging.h:37`): only programs that make
`Logging` objects use the log.

## Runs

Passing runs. The property named `...Consistent` joins the type invariant of the
module with the invariants that say that its data structures agree.

| run | instance | shows |
|---|---|---|
| `timewheel` | 3 timers, 5 slots, timeouts 1-2, lag 2, clock set back by 1 | `WheelConsistent` (back pointers, slots, order), `FiredDue`, `NoDrop`, `TakesAllDue`: a timer is in one list, fires once, not early, in order, and at the first take after it is due |
| `channel` | 3 coroutines, capacity 1, 2 values | `ChannelConsistent` (lists, size, yield flag, pending results), `NoLostWakeup`; `RefinesFifo`: the channel implements `BoundedFifo`; `ReadyRuns`, `CloseReturns` |
| `scheduler` | 3 coroutines on 1 descriptor, sharing, closing and plain yields allowed, clock set back by 1, the smallest timeout | `SchedulerConsistent` (lists, no deleted item in epoll), `NoCrash`, `TimeoutHonest` for timeouts below a turn; `IsEventLoop`: the scheduler implements `EventLoop` |
| `scheduler_wheel` | 2 coroutines, 1 descriptor not shared, timeouts 0, 1, a full turn and more | `Registered`; `UsesWheel`: the loop uses the wheel as `TimeWheel` allows; `TimerResumes`, `EndedFreed` |
| `sockets` | 2 clients, 2 descriptors, messages of 3 units, buffers of 1; peers answer, refuse, close, reset or do nothing; signals | `SocketsConsistent` (`socket_inf` and owners match the descriptors), `StaysRegistered`, `Contiguous`, `ConnectTrue`, `CallReturns` |
| `connection` | server, 2 connections that send to and close each other, messages of 2 units, buffers of 1, resets, failing accepts, a timeout too big | `ConnectionConsistent` (nothing leaks, nothing is closed twice), `NoCrash`, `StatusTrue` |
| `connection_live` | server, 2 connections that send when connected (messages of 2 units, buffers of 1: the callback waits for room on top of the server) and close themselves or each other when they receive or are disconnected; peers that close; signals | `ServerAccepts`, `CloseSeen`, `PeerCloseSeen` |
| `threadpool` | 2 workers that may not be made, 2 putters, 3 tasks, queue of 2, 1 spurious wakeup | `PoolConsistent` (mutual exclusion, bound), `NoLostWakeup`, `TaskOnce`, `StopReturns`, `TaskRuns` |
| `log` | 2 threads, 3 lines of strings, integers, pointers or doubles, buffers of 16 characters, overload above 2 buffers, self-lock at buffer 6, 1 spurious wakeup | `LogConsistent` (the asserts of log, thread and latches), `InOrder`, `InBounds`, `ConvertRight`, `OnceStarted`, `Written`, `OutputReturns` |

Some properties name their exceptions. `TimerResumes` speaks of timers in the
wheel, not of one the wheel refused, and like `EndedFreed` excludes the crash;
`Registered` excludes a descriptor on which an item with a bad timeout was left
behind; `CallReturns`, `CloseSeen` and `ServerAccepts` exclude the end of the
process by SIGPIPE or a failed bind; `CloseSeen` also a connection that is in a
read without a timeout, since `set_read_timeout` takes -1 and `close()` wakes
nobody (the run sets no timeouts, so every read there has one); `PeerCloseSeen`
excludes a connection that over and over reads 0 and finds EAGAIN, which is what
`connection_errno` is about, or EINTR in errno; `ServerAccepts` accepts that fail
over and over; `Written` excludes lines that are dropped, and lines that the
front end still holds when the back end has ended after a stop, and speaks of
lines that the self-lock cannot hit: the appends before it, counted from now, are
more than the buffers that exist and one for each line to come; `OutputReturns` a log thread that cannot
be made, behind which everybody waits for ever; `TaskRuns` a pool that is being
stopped or has no worker; `StopReturns` says that with a thread that could not
be made, stop fails `assert(start_)`.

Violations, each a disagreement between the code and a statement of the
repository (quoted in `PROJECT.json`):

| run | what happens |
|---|---|
| `connection_errno` | a read of 0 with a stale EAGAIN in errno is tried again for ever: `DisconnectedCb` is never called |
| `threadpool_assert` | the assert in `Condition::Wait` fails after another thread's `UnLock` |
| `log_self` | the log thread locks the mutex it holds at the 1024th buffer |

More behaviours are in the models without a run of their own:

- a wheel with slots of a second that is polled more often than once a second
  never advances: `w_start_` moves to now and `w_index_` by whole seconds
  (`time_wheel.cpp:122`; `TimeWheel` with `IsMs = FALSE`);
- a timeout of exactly one turn passes `register_event`; if the wheel refuses it,
  the next event of that coroutine uses a null `t_link`; if it accepts it,
  because `w_start_` does not lag behind, it lands in the current slot and fires
  at the next take;
- of two coroutines that wait on one descriptor the second is never registered,
  since `register_event` ignores the result of `add`;
- an entry that `co_close` leaves in `item_map_` refuses the next user of the
  descriptor number;
- a producer and a consumer that wake each other keep `event_loop` in its drain
  loop, so that it does not poll;
- `co_write` to a full send buffer gives the message up, which
  `connection::send` does not tell; a message that another connection has begun
  may end up on the next user of the descriptor;
- full buffers not yet taken by the back end are not written when the log is
  stopped.

**Bounds.** `MaxTime` lets the wheel turn at least once, so that wrapped slots
are used again; `MaxLag` lets a take fall behind by more than one slot. Two
timers collide in a slot, three in two. For a channel, barging needs a waiter, a
signaller and a third, and a buffer of one value is full and empty in turn. Two
coroutines are enough for one to be resumed while the other's item is in every
possible list; the third gives a turn an event, a timeout and a bystander. The
clock is set back in `timewheel` and `scheduler`, and not in `scheduler_wheel`:
a clock that is set back whenever it has moved never lets a timer expire. Two clients on two descriptors take over each other's numbers;
a message of three buffers waits twice for room, and one of two (on the server's
connections) once; what it leaves in the buffer makes the next write find it
full and give up with EAGAIN (in `connection` and `connection_errno`; in
`connection_live`, where a connection sends once, signals leave EINTR instead).
In `connection` every callback may do everything; `connection_live` leaves out
what the liveness check cannot afford and keeps a wait for room, a close of
oneself and a close of the other. Two connections are
enough for one to act on the other at every place, and a third client has to
wait: no more connect than there are identities for. Peers act while no
coroutine runs, and before a new connection's first callback: what they do
during a step of a coroutine could as well have happened before it was resumed.
Two workers and two putters give a notified thread a competitor, and three tasks
overfill a queue of two. In the log lengths are scaled down with the buffer, a
program logs one kind of value, chosen at the start, and the next thread to log
is any that is idle; the overload limit is 2 for 25 and `Every_n_flush` 6 for
1024 (4 in `log_self`): six appends are enough for a line to be safe from the
self-lock, and few enough for it to come; integers are 8 bits wide and include the least one. Where deadlock is not
checked, the system may stop: the pool is joined, the log is stopped or has
locked itself out, or the process has ended.

**Fairness.** The event loop and the clock go on; a running coroutine comes to
its next wait or its end (a coroutine that computes for ever stops the thread,
which the library says nothing about). In `Client` and `Connection` a turn takes
along, sooner or later, whoever is ready or has a timer (strong fairness of
`TurnFor`): epoll is level-triggered and polled in every iteration, and time
passes. Nobody is owed an event, and nothing is expected of peers. Threads are
weakly fair, and no fairness is assumed for the mutex: finitely many tasks are
put and `MaxSpurious` bounds the spurious wakeups, so contention ends. The timed
wait of the log ends because it is timed.

## Proofs

Every safety property that a run checks on a small instance is proved for every
value of the constants, but for `UsesWheel`: any number of coroutines, clients,
connections, threads, timers, lines and tasks, any size of wheel, queue, message
and buffer, any number of spurious wakeups. The theorems are listed in
`PROJECT.json`. Each module defines an inductive invariant (checked by TLC on the
run's instance before it was proved), has one lemma per action that the action
keeps it, and ends with the theorems that follow from it.

**Lists.** What `Append`, `Tail`, concatenation, `RemoveAt`, `FlattenSeq` and the
lists of a ring hold, and that they hold it once and in order. Facts about
flattened and folded sequences need induction, which is not done with the
library's rules (they take a predicate) but with sets: a set of numbers that has
0 and with n also n + 1 is `Nat` (`NatSetInduction`), because the least number
missing (`LeastNumber`, from the well-foundedness of finite sets) would have a
predecessor. The recursive functions behind `FlattenSeq`, `FoldLeft` and
`Digits` are shown to exist the same way: by induction there is a function that
meets the equations up to n.

**TimeWheel.** Under `SoundUse`: the millisecond wheel, largest timeout plus lag
below the number of slots, the clock not set back by more than the smallest
timeout, the lag within an int. The list above says what happens outside. The
inductive invariant joins `SlotInv` (slot, expiry time and index agree), that an
item is in the list its `t_link` names, and the bounds on the clock. That a take
hands out only due items follows because slots less than a turn apart are
different (`ModInj`); that it hands them out once and in order (`LinkOK`,
`RetSorted`), because the slots it joins are those of successive times
(`RingList`, `FlattenOrdered`).

**Channel.** The conjunction of its invariants is inductive: `NoLostWakeup` needs
`Located`, so that signalled coroutines can be counted by their state, and
`SizeOK`. `ChannelRefinesFifo` maps the initial state and every step to
`BoundedFifo`, from the same invariant: `PendingOK` says that a resumed put still
has its argument. `Co` is finite, `Cap` a natural number, the markers are
distinct and no values.

**Scheduler.** `SchedInv` adds to the invariants of the run what each phase of
`event_loop` has left empty, that no list holds an item twice, and what an item
holds inside and outside `register_event`. From it:

| theorem | hypothesis | why it is needed |
|---|---|---|
| `SchedulerIsConsistent` | `ShortPause`: two turns less than 2^31 ms apart | beyond it the wheel's index becomes negative |
| `TimeoutsAreHonest` | `TimelyUse`: a timeout that `register_event` lets pass is, with the lag, below a turn, and not below the furthest step of the clock behind the last take; the lag plus 1 fits an int | a timer of one turn lands in the current slot; one due before `w_start_` is refused; a count that does not fit is negative |
| `LoopNeverCrashes` | `TimelyUse`, and `NoZero`: no timeout of 0 or below -1 | a refused timer has a null `t_link`; a bad timeout leaves an item with no `t_item` in epoll |
| `WaitersStayRegistered` | `OwnFds`: a descriptor has one waiter and is not closed under it; `ShortPause` | `add` refuses the second, a close drops the first |
| `SchedulerRefinesLoop` | `NoZero`, `ShortPause` | as above |

`TimeInv` is `SlotInv` for the wheel inside the scheduler. It says nothing of the
clock: what was taken was due at `w_start_`, the time of that take, and a clock
that has since been set back does not change that. `ClockOK` bounds the clock
around `w_start_`, so that a new timer lies between it and one turn later, and a
take with the clock behind `w_start_` takes nothing. `WaitInv` says that
waiters have descriptors of their own, and `NoneLeaked` that no item is left
behind. The refinement maps the merge to `Turn`: an item of the active list
that did not time out was an event, and so was registered.

**Client.** `ClientInv`: a client is at one place in one wrapper on its own
descriptor, `item_map` and the interest list hold exactly the waiters, and the
last unit of a stream is that of the write under way. `Answered` is behind
`ConnectTrue`: SO_ERROR does not tell a connection under way from one that is
established, so it matters that a client that the loop has taken along for an
event and not for a timeout has had its answer, and that this stays so until it
is resumed, whatever the coroutines before it in the active list do. A wrapper either returns
or suspends its caller, and two lemmas say what both leave alone. `Contiguous`
needs `Watched = Fds`: streams that are not recorded say nothing.

**Connection.** `ConnInv`: the call stack is empty, one coroutine, or a
connection on top of the server that is about to accept again; the wrapper that
a coroutine is in is the one its place says; owners have different descriptors,
and a connection's is open; whoever has returned from a read without data has a
timeout, EAGAIN or EINTR in errno, or a peer that has ended the connection (`ReadTold`).
The last part is what makes `StatusTrue` inductive: between the read and the
look at errno no other coroutine runs. A server whose socket call failed waits
in accept for ever without timer and registration, and is never resumed.
`RunStep` says once what a step of the running coroutine that opens and closes
nothing leaves alone.

**ThreadPool.** `PoolInv` adds where each kind of thread can be and who has a
task in hand. `NoLostWakeup` is inductive with them: a thread that is notified
and overtaken counts as on its way until it has tested again.

**Logging.** `LogInv`: places and flags of the back end, of the front ends and of
the thread being started agree, each latch is 1 until its counter has passed,
the spare buffers are two again after each turn, and `InOrder`: file, rest of
the round, full buffers and current buffer, in a row, are the lines not dropped,
in ascending order. Every step moves a cut in that row, adds a line at its end
or takes a stretch out of it (`PipeLaws`). `LineFits` follows a line through
`operator<<`; that `convert` is right for every integer of every width is
`DigitsAreRight`, by induction over the digits.

**Assumptions.** Each module names what it assumes of its constants
(`WheelAssumption`, `ChannelAssumption`, `SchedulerAssumption`, `SysAssumption`,
`ConnectionAssumption`, `PoolAssumption`, `LatchAssumption`, `ThreadAssumption`,
`LogAssumption`, `NumbersFit`): types, finite sets of coroutines, markers that
are not values, a send buffer and messages of at least one unit, a limit of at
least two buffers (25 in the code), numbers whose text fits `kMaxNumericSize`
(32 in the code, for 20 digits). TLC evaluates them on the runs' instances.

**Only model-checked.** Liveness (`ReadyRuns`, `CloseReturns`, `TimerResumes`,
`EndedFreed`, `CallReturns`, `CloseSeen`, `PeerCloseSeen`, `ServerAccepts`,
`StopReturns`, `TaskRuns`, `Written`, `OutputReturns`): the prover has no rules
for fairness and `ENABLED`. `UsesWheel`: that the scheduler uses the wheel as
`TimeWheel` allows.

## Plan

Modelling is done as far as it seems useful. Left to prove is `UsesWheel`: its
mapping selects from the active list those that timed out, so that it needs
lemmas on `SelectSeq`, and then one per operation of the wheel.

## Not modelled

- The context switch and the stacks (`co_context`, `context_swap.S`, `co_stack`):
  assembly and memory below the level of the models.
- `coroutine_local`: two macros over a map keyed by the current coroutine.
- `coroutine_pool`: not in the makefile, so not built.
- `coroutine_stackless`: macros that keep a place in a switch; what they do is
  decided by the function they are used in.
- Two schedulers on two threads: `g_thr_to_sch` and `g_socket_inf` are shared
  without a lock, and a race of two map operations has no bounded outcome.
- The main coroutine's `yield`, a channel deleted under its waiters, and
  `~scheduler`, which deletes the main coroutine with a `conn_` that its
  constructor has not set (`coroutine.cpp:26`).
- A short `fwrite`: `AppendFile::append` then writes the whole line again
  (`AppendFile.cpp:26`).
- The text of a log line. Of a pointer the model has the length: its digits
  overwrite the `0x` and two characters that were not written are counted
  (`LogStream.cpp:134`).
- `co_epoll::mod` and `co_setsockopt`: the first has no caller, the second no
  body. The programs `Z*.cpp` are examples.
