------------------------------ MODULE Scheduler ------------------------------
(***************************************************************************)
(* The scheduler of one thread (scheduler.cpp, coroutine.cpp) over         *)
(* co_epoll: the call stack of its coroutines, register_event, the event   *)
(* loop over epoll and the timing wheel, and the life of a coroutine from  *)
(* its first resume to its deletion.                                       *)
(*                                                                         *)
(* A coroutine is inside at most one register_event, so it stands for the  *)
(* co_epoll_item and the time_item it allocates there; the wheel is module *)
(* TimeWheel with the coroutines as its items.  Which descriptors become   *)
(* ready is up to the environment.  Condition variables are in module      *)
(* Channel.                                                                *)
(***************************************************************************)
EXTENDS Integers, SequencesExt, Epoll

CONSTANTS
  Co,           \* coroutines
  Leaked,       \* an item of a register_event that has returned -1
  Timeouts,     \* the timeouts coroutines ask for; 0 stands for 0 and all below -1
  SharedFd,     \* two coroutines may wait on one descriptor
  CloseInUse,   \* a descriptor may be closed while a coroutine waits on it
  PlainYield,   \* coroutines yield() and resume() each other
  HasFunc,      \* event_loop was given a func that may return -1
  WSize, IntHalf, MaxLag, MaxBack, Epoch, MaxTime      \* see TimeWheel

ASSUME SchedulerAssumption ==
  /\ WSize \in Nat \ {0} /\ IntHalf \in Nat \ {0}
  /\ MaxLag \in Nat /\ MaxBack \in Nat /\ MaxTime \in Nat
  /\ Epoch \in Nat /\ Epoch > MaxBack
  /\ Timeouts \subseteq Nat
  /\ IsFiniteSet(Fds) /\ NoFd \notin Fds
  /\ NoCo \notin Co \cup {Leaked} /\ Leaked \notin Co

VARIABLES
  time_wheel, w_start, w_index, expire, t_link, ret_link, clock,   \* see TimeWheel
  st,           \* [Co -> States]
  stack,        \* co_call_stack_ without the main coroutine at its bottom, top first
  rfd,          \* [Co -> Fds \cup {NoFd}]: item->fd
  is_timeout,   \* [Co -> BOOLEAN]: item->is_timeout
  events,       \* what epoll_wait returned and is not yet handled
  active,       \* active_link_
  destroy_co,   \* destroy_co_
  phase,        \* where the main coroutine is
  ret,          \* [Co -> Results]: result of the last register_event
  lost,         \* coroutines whose descriptor was closed under them
  crashed       \* a null or uninitialized pointer has been used

wheelVars == <<time_wheel, w_start, w_index, expire, t_link, ret_link>>
epollVars == <<epoll, lost>>
coVars == <<rfd, is_timeout, ret>>
vars == <<wheelVars, clock, st, stack, coVars, epollVars, events, active, destroy_co, phase, crashed>>

TW == INSTANCE TimeWheel WITH
        Items <- Co, IsMs <- TRUE, TickMs <- 1000,
        MinTimeout <- 1, MaxTimeout <- WSize

States == {"new", "run", "wait", "yield", "ended", "freed"}
Phases == {"main", "poll", "events", "take", "merge", "drain", "func", "clear", "stopped"}
Results == {"none", "event", "timeout", "error"}

Init ==
  /\ TW!Init
  /\ st = [c \in Co |-> "new"]
  /\ stack = <<>>
  /\ rfd = [c \in Co |-> NoFd]
  /\ is_timeout = [c \in Co |-> FALSE]
  /\ EpollInit
  /\ events = <<>> /\ active = <<>> /\ destroy_co = <<>>
  /\ phase = "main"
  /\ ret = [c \in Co |-> "none"]
  /\ lost = {}
  /\ crashed = FALSE

Running(c) == ~crashed /\ stack # <<>> /\ Head(stack) = c

\* Somebody runs who can resume a coroutine: main before its loop, or a coroutine.
CanResume == ~crashed /\ (stack # <<>> \/ phase = "main")

-----------------------------------------------------------------------------
(***************************************************************************)
(* coroutine::resume of a new coroutine and of one that yielded, yield,    *)
(* and the end of co_func_wrapper.                                         *)
(***************************************************************************)
Spawn(c) ==
  /\ CanResume /\ st[c] = "new"
  /\ st' = [st EXCEPT ![c] = "run"]
  /\ stack' = <<c>> \o stack
  /\ UNCHANGED <<wheelVars, clock, coVars, epollVars, events, active, destroy_co, phase, crashed>>

ResumeYielded(c) ==
  /\ CanResume /\ st[c] = "yield"
  /\ st' = [st EXCEPT ![c] = "run"]
  /\ stack' = <<c>> \o stack
  /\ UNCHANGED <<wheelVars, clock, coVars, epollVars, events, active, destroy_co, phase, crashed>>

Yield(c) ==
  /\ PlainYield /\ Running(c)
  /\ st' = [st EXCEPT ![c] = "yield"]
  /\ stack' = Tail(stack)
  /\ UNCHANGED <<wheelVars, clock, coVars, epollVars, events, active, destroy_co, phase, crashed>>

Finish(c) ==
  /\ Running(c)
  /\ st' = [st EXCEPT ![c] = "ended"]
  /\ destroy_co' = Append(destroy_co, c)
  /\ stack' = Tail(stack)
  /\ UNCHANGED <<wheelVars, clock, coVars, epollVars, events, active, phase, crashed>>

-----------------------------------------------------------------------------
(***************************************************************************)
(* register_event up to its yield: with a timer, without one, and with a   *)
(* timeout it does not accept.  A timeout that is too big is refused at    *)
(* once, any other bad one only after the descriptor has been added.       *)
(***************************************************************************)
Waiters(fd) == {d \in Co : st[d] = "wait" /\ rfd[d] = fd /\ d \notin lost}

FdFree(fd) == SharedFd \/ fd = NoFd \/ Waiters(fd) = {}

Suspend(c, fd) ==
  /\ EpollAdd(fd, c)
  /\ st' = [st EXCEPT ![c] = "wait"]
  /\ stack' = Tail(stack)
  /\ rfd' = [rfd EXCEPT ![c] = fd]
  /\ is_timeout' = [is_timeout EXCEPT ![c] = FALSE]
  /\ lost' = lost \ {c}
  /\ ret' = [ret EXCEPT ![c] = "none"]

RegisterTimer(c, fd, t) ==
  /\ Running(c) /\ FdFree(fd)
  /\ t > 0 /\ t <= WSize /\ clock + t <= MaxTime
  /\ Suspend(c, fd)
  /\ TW!AddTimeout(c, clock + t)
  /\ UNCHANGED <<clock, events, active, destroy_co, phase, crashed>>

RegisterForever(c, fd) ==
  /\ Running(c) /\ FdFree(fd)
  /\ Suspend(c, fd)
  /\ UNCHANGED <<wheelVars, clock, events, active, destroy_co, phase, crashed>>

RegisterError(c, fd, t) ==
  /\ Running(c) /\ FdFree(fd)
  /\ \/ t > WSize /\ UNCHANGED epoll
     \/ t = 0 /\ EpollAdd(fd, Leaked)
  /\ ret' = [ret EXCEPT ![c] = "error"]
  /\ UNCHANGED <<wheelVars, clock, st, stack, rfd, is_timeout, lost, events, active, destroy_co,
                 phase, crashed>>

Register(c) ==
  \E fd \in Fds \cup {NoFd} :
    \/ RegisterForever(c, fd)
    \/ \E t \in Timeouts : RegisterTimer(c, fd, t) \/ RegisterError(c, fd, t)

(***************************************************************************)
(* A running coroutine closes a descriptor, which the kernel then drops    *)
(* from epoll, and its number is used again.                               *)
(***************************************************************************)
CloseFd(fd) ==
  /\ ~crashed /\ stack # <<>>
  /\ CloseInUse \/ Waiters(fd) = {}
  /\ EpollClosed(fd)
  /\ lost' = lost \cup Waiters(fd)
  /\ UNCHANGED <<wheelVars, clock, st, stack, coVars, events, active, destroy_co, phase, crashed>>

-----------------------------------------------------------------------------
(***************************************************************************)
(* event_loop.  epoll_wait returns any of the registered descriptors, in   *)
(* any order.                                                              *)
(***************************************************************************)
BeginLoop ==
  /\ phase \in {"main", "stopped"} /\ stack = <<>> /\ ~crashed
  /\ phase' = "poll"
  /\ UNCHANGED <<wheelVars, clock, st, stack, coVars, epollVars, events, active, destroy_co, crashed>>

Poll ==
  /\ phase = "poll"
  /\ \E S \in SUBSET {f \in Fds : interest[f] # NoCo} : \E fs \in SetToSeqs(S) :
       events' = [k \in DOMAIN fs |-> interest[fs[k]]]
  /\ phase' = "events"
  /\ UNCHANGED <<wheelVars, clock, st, stack, coVars, epollVars, active, destroy_co, crashed>>

(***************************************************************************)
(* One event: the timer, if there is one, is taken out of the wheel and    *)
(* the coroutine put on the active list; an item that is still in a list   *)
(* makes event_loop return.  removeitem dereferences t_link, which is null *)
(* if the wheel refused the timer; a leaked item has no time_item at all.  *)
(***************************************************************************)
BadItem(c) == c # Leaked => expire[c] > 0 /\ t_link[c] = TW!NullLink

CrashEvent(c) ==
  /\ phase = "events" /\ events # <<>> /\ Head(events) = c /\ ~crashed /\ BadItem(c)
  /\ crashed' = TRUE
  /\ UNCHANGED <<wheelVars, clock, st, stack, coVars, epollVars, events, active, destroy_co, phase>>

\* Mutant: the timer of a coroutine whose event came stays in the wheel.
UnlinkedNever(c) == UNCHANGED <<time_wheel, w_start, w_index, ret_link>>

Unlinked(c) ==
  IF expire[c] > 0 THEN TW!Unlink(c) ELSE UNCHANGED <<time_wheel, w_start, w_index, ret_link>>

HandleEvent(c) ==
  /\ phase = "events" /\ events # <<>> /\ Head(events) = c /\ ~crashed /\ ~BadItem(c)
  /\ IF expire[c] = 0 /\ t_link[c] # TW!NullLink
     THEN /\ phase' = "stopped" /\ events' = <<>>
          /\ UNCHANGED <<wheelVars, active>>
     ELSE /\ Unlinked(c)
          /\ t_link' = [t_link EXCEPT ![c] = TW!ActiveLink]
          /\ active' = Append(active, c)
          /\ events' = Tail(events)
          /\ UNCHANGED <<expire, phase>>
  /\ UNCHANGED <<clock, st, stack, coVars, epollVars, destroy_co, crashed>>

\* Mutant: timeouts are looked at only when no event has come.
EndEventsIdle ==
  /\ phase = "events" /\ events = <<>>
  /\ phase' = IF active = <<>> THEN "take" ELSE "drain"
  /\ UNCHANGED <<wheelVars, clock, st, stack, coVars, epollVars, events, active, destroy_co, crashed>>

EndEvents ==
  /\ phase = "events" /\ events = <<>>
  /\ phase' = "take"
  /\ UNCHANGED <<wheelVars, clock, st, stack, coVars, epollVars, events, active, destroy_co, crashed>>

Take ==
  /\ phase = "take"
  /\ TW!TakeAllTimeout(clock)
  /\ phase' = "merge"
  /\ UNCHANGED <<clock, st, stack, coVars, epollVars, events, active, destroy_co, crashed>>

\* Mutant: whatever is resumed together with a timeout counts as timed out.
MergeMarksAll ==
  /\ phase = "merge"
  /\ is_timeout' = [c \in Co |-> ret_link # <<>> /\ c \in Range(active \o ret_link)]
  /\ t_link' = [c \in Co |-> IF c \in Range(ret_link) THEN TW!ActiveLink ELSE t_link[c]]
  /\ active' = active \o ret_link
  /\ ret_link' = <<>>
  /\ phase' = "drain"
  /\ UNCHANGED <<time_wheel, w_start, w_index, expire, clock, st, stack, rfd, ret, epollVars, events,
                 destroy_co, crashed>>

\* Mutant: the list of timeouts is not emptied after it was merged.
MergeKeepsList ==
  /\ phase = "merge"
  /\ is_timeout' = [c \in Co |-> is_timeout[c] \/ c \in Range(ret_link)]
  /\ t_link' = [c \in Co |-> IF c \in Range(ret_link) THEN TW!ActiveLink ELSE t_link[c]]
  /\ active' = active \o ret_link
  /\ phase' = "drain"
  /\ UNCHANGED <<time_wheel, w_start, w_index, expire, ret_link, clock, st, stack, rfd, ret, epollVars,
                 events, destroy_co, crashed>>

Merge ==
  /\ phase = "merge"
  /\ is_timeout' = [c \in Co |-> is_timeout[c] \/ c \in Range(ret_link)]
  /\ t_link' = [c \in Co |-> IF c \in Range(ret_link) THEN TW!ActiveLink ELSE t_link[c]]
  /\ active' = active \o ret_link
  /\ ret_link' = <<>>
  /\ phase' = "drain"
  /\ UNCHANGED <<time_wheel, w_start, w_index, expire, clock, st, stack, rfd, ret, epollVars, events,
                 destroy_co, crashed>>

(***************************************************************************)
(* Resume the head of the active list, with the rest of its                *)
(* register_event: delete the registration and return is_timeout.          *)
(***************************************************************************)
Resume(c) ==
  /\ phase = "drain" /\ stack = <<>> /\ active # <<>> /\ Head(active) = c /\ ~crashed
  /\ active' = Tail(active)
  /\ t_link' = [t_link EXCEPT ![c] = TW!NullLink]
  /\ expire' = [expire EXCEPT ![c] = 0]
  /\ st' = [st EXCEPT ![c] = "run"]
  /\ stack' = <<c>>
  /\ EpollDel(rfd[c])
  /\ ret' = [ret EXCEPT ![c] = IF is_timeout[c] THEN "timeout" ELSE "event"]
  /\ rfd' = [rfd EXCEPT ![c] = NoFd]
  /\ is_timeout' = [is_timeout EXCEPT ![c] = FALSE]
  /\ lost' = lost \ {c}
  /\ UNCHANGED <<time_wheel, w_start, w_index, ret_link, clock, events, destroy_co, phase, crashed>>

EndDrain ==
  /\ phase = "drain" /\ stack = <<>> /\ active = <<>>
  /\ phase' = "func"
  /\ UNCHANGED <<wheelVars, clock, st, stack, coVars, epollVars, events, active, destroy_co, crashed>>

\* Mutant: an iteration ends without clear_co.
FuncContinues ==
  /\ phase = "func"
  /\ phase' = "poll"
  /\ UNCHANGED <<wheelVars, clock, st, stack, coVars, epollVars, events, active, destroy_co, crashed>>

\* The callback at the end of an iteration; -1 leaves the loop before clear_co.
Func ==
  /\ phase = "func"
  /\ phase' = "clear" \/ (HasFunc /\ phase' = "stopped")
  /\ UNCHANGED <<wheelVars, clock, st, stack, coVars, epollVars, events, active, destroy_co, crashed>>

clear_co ==
  /\ phase = "clear"
  /\ st' = [c \in Co |-> IF c \in Range(destroy_co) THEN "freed" ELSE st[c]]
  /\ destroy_co' = <<>>
  /\ phase' = "poll"
  /\ UNCHANGED <<wheelVars, clock, stack, coVars, epollVars, events, active, crashed>>

Tick ==
  /\ ~crashed /\ TW!Tick
  /\ UNCHANGED <<st, stack, coVars, epollVars, events, active, destroy_co, phase, crashed>>

\* The wall clock is set back.
StepBack ==
  /\ ~crashed /\ TW!StepBack
  /\ UNCHANGED <<st, stack, coVars, epollVars, events, active, destroy_co, phase, crashed>>

-----------------------------------------------------------------------------
Loop ==
  \/ BeginLoop \/ Poll \/ EndEvents \/ Take \/ Merge \/ EndDrain \/ Func \/ clear_co
  \/ \E c \in Co \cup {Leaked} : CrashEvent(c)
  \/ \E c \in Co : HandleEvent(c) \/ Resume(c)

Next ==
  \/ Loop
  \/ Tick \/ StepBack
  \/ \E c \in Co : Spawn(c) \/ ResumeYielded(c) \/ Yield(c) \/ Finish(c) \/ Register(c)
  \/ \E fd \in Fds : CloseFd(fd)

Spec == Init /\ [][Next]_vars

(***************************************************************************)
(* Time passes, the loop turns, and a running coroutine comes to its next  *)
(* register_event or to its end.                                           *)
(***************************************************************************)
FairSpec ==
  /\ Spec
  /\ WF_vars(Tick) /\ WF_vars(Loop)
  /\ WF_vars(\E c \in Co : Finish(c) \/ \E fd \in Fds \cup {NoFd} : RegisterForever(c, fd))

-----------------------------------------------------------------------------
TypeOK ==
  /\ time_wheel \in [TW!Slots -> Seq(Co)]
  /\ w_start \in Nat /\ w_index \in Nat /\ clock \in Nat
  /\ expire \in [Co -> Nat] /\ t_link \in [Co -> TW!Links] /\ ret_link \in Seq(Co)
  /\ st \in [Co -> States] /\ stack \in Seq(Co)
  /\ rfd \in [Co -> Fds \cup {NoFd}] /\ is_timeout \in [Co -> BOOLEAN]
  /\ item_map \in [Fds -> Co \cup {NoCo, Leaked}] /\ interest \in [Fds -> Co \cup {NoCo, Leaked}]
  /\ events \in Seq(Co \cup {Leaked}) /\ active \in Seq(Co) /\ destroy_co \in Seq(Co)
  /\ phase \in Phases /\ ret \in [Co -> Results] /\ lost \subseteq Co /\ crashed \in BOOLEAN

(***************************************************************************)
(* The loop never uses a null t_link or the uninitialized t_item of an     *)
(* item that register_event left behind.                                   *)
(***************************************************************************)
NoCrash == ~crashed

(***************************************************************************)
(* epoll holds no pointer to a deleted item: whatever epoll_wait returns   *)
(* is the item of a coroutine that is still inside register_event on that  *)
(* descriptor, and item_map_ knows it.                                     *)
(***************************************************************************)
NoDangling ==
  \A fd \in Fds :
    /\ interest[fd] # NoCo => item_map[fd] = interest[fd]
    /\ item_map[fd] \in Co => st[item_map[fd]] = "wait" /\ rfd[item_map[fd]] = fd

(***************************************************************************)
(* A coroutine that waits on a descriptor is registered with epoll for as  *)
(* long as it waits and the descriptor is open, unless a register_event    *)
(* with a bad timeout has left its item behind on the descriptor.          *)
(***************************************************************************)
Registered ==
  \A c \in Co :
    st[c] = "wait" /\ rfd[c] # NoFd /\ c \notin lost =>
      interest[rfd[c]] = c \/ item_map[rfd[c]] = Leaked

(***************************************************************************)
(* A coroutine is on the call stack, suspended, ended or deleted, never    *)
(* two of these: the active list holds waiting coroutines only, each once, *)
(* none of them also in the wheel (it would be resumed again by its timer, *)
(* after its time_item is deleted), and clear_co deletes only coroutines   *)
(* that nothing else refers to.                                            *)
(***************************************************************************)
Located ==
  /\ \A c \in Co :
       /\ t_link[c] = TW!ActiveLink <=> c \in Range(active)
       /\ t_link[c] = TW!RetLink <=> c \in Range(ret_link)
       /\ \A s \in TW!Slots : t_link[c] = s <=> c \in Range(time_wheel[s])
       /\ t_link[c] # TW!NullLink \/ c \in Range(events) => st[c] = "wait"
       /\ c \in Range(events) => c \notin Range(active)
       /\ st[c] = "run" <=> c \in Range(stack)
       /\ st[c] = "ended" <=> c \in Range(destroy_co)
  /\ IsInjective(active) /\ IsInjective(stack) /\ IsInjective(destroy_co)

(***************************************************************************)
(* register_event reports a timeout only for a timer that was due when     *)
(* take_all_timeout last looked at the clock, also when the event and the  *)
(* timeout fall into one turn of the loop and when the clock has been set  *)
(* back between the registration and the take.                             *)
(***************************************************************************)
TimeoutHonest ==
  \A c \in Co : is_timeout[c] => expire[c] > 0 /\ expire[c] <= w_start

(***************************************************************************)
(* The loop uses the wheel as TimeWheel says its client does: an expired   *)
(* timer is released when its coroutine is resumed, a timer is cancelled   *)
(* when its event has come, and all expired ones are released before the   *)
(* next take.                                                              *)
(***************************************************************************)
ByEvent(c) == t_link[c] = TW!ActiveLink /\ ~is_timeout[c]

Client == INSTANCE TimeWheel WITH
  Items <- Co, IsMs <- TRUE, TickMs <- 1000,
  MinTimeout <- 1, MaxTimeout <- WSize,
  expire <- [c \in Co |-> IF ByEvent(c) THEN 0 ELSE expire[c]],
  t_link <- [c \in Co |-> IF ByEvent(c) THEN TW!NullLink
                          ELSE IF t_link[c] = TW!ActiveLink THEN TW!RetLink ELSE t_link[c]],
  ret_link <- SelectSeq(active, LAMBDA c : is_timeout[c]) \o ret_link

UsesWheel == Client!Spec

(***************************************************************************)
(* With timeouts the wheel accepts, the scheduler is the event loop that   *)
(* EventLoop describes: whoever is resumed was registered for the event or *)
(* had a timer, events go before timeouts, and the list of one turn is     *)
(* worked off before the next is made.  The turn happens at the merge,     *)
(* also when an item that is still in a list has made event_loop return.   *)
(***************************************************************************)
Abstract == INSTANCE EventLoop WITH
  timer <- [c \in Co |-> expire[c] > 0],
  is_timeout <- [c \in Co |-> is_timeout[c] \/ ret[c] = "timeout"],
  active <- IF phase = "drain" THEN active ELSE <<>>

IsEventLoop == Abstract!LoopSpec

(***************************************************************************)
(* A coroutine whose timer is in the wheel is resumed, also if events keep *)
(* coming for others, unless the process crashes.                          *)
(***************************************************************************)
TimerResumes == \A c \in Co : t_link[c] \in TW!Slots ~> st[c] # "wait" \/ crashed

(***************************************************************************)
(* A coroutine that has ended is deleted, unless the process crashes.      *)
(***************************************************************************)
EndedFreed == \A c \in Co : st[c] = "ended" ~> st[c] = "freed" \/ crashed

(***************************************************************************)
(* The scheduler is consistent: a coroutine is in one list, as its state   *)
(* says, and epoll knows no item that register_event has deleted.          *)
(***************************************************************************)
SchedulerConsistent == TypeOK /\ NoDangling /\ Located

=============================================================================
