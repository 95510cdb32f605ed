--------------------------- MODULE SchedulerProofs ---------------------------
(***************************************************************************)
(* The scheduler for any number of coroutines and descriptors and any use  *)
(* of register_event: a coroutine is where its state says, and epoll knows *)
(* no deleted item.                                                        *)
(***************************************************************************)
EXTENDS Scheduler, Lists

(***************************************************************************)
(* The inductive invariant adds what each phase of event_loop has left     *)
(* empty, that no list holds an item twice, and what the items of a        *)
(* coroutine hold while it is inside register_event and outside.           *)
(***************************************************************************)
PhaseOK ==
  /\ phase \notin {"events", "take", "merge", "drain"} => active = <<>>
  /\ phase # "events" => events = <<>>
  /\ phase # "merge" => ret_link = <<>>
  /\ stack # <<>> => phase \in {"main", "drain"}

ListsOnce ==
  /\ \A s \in TW!Slots : IsInjective(time_wheel[s])
  /\ IsInjective(ret_link)
  /\ \A j, k \in DOMAIN events : events[j] = events[k] /\ events[j] \in Co => j = k

ItemsOK ==
  \A c \in Co :
    /\ st[c] # "wait" => expire[c] = 0 /\ rfd[c] = NoFd
    /\ st[c] = "wait" => ret[c] = "none"
    /\ t_link[c] \in TW!Slots \cup {TW!RetLink} => expire[c] > 0
    /\ is_timeout[c] => phase = "drain" /\ t_link[c] = TW!ActiveLink /\ expire[c] > 0

EventsOK ==
  phase \in {"events", "take", "merge"} =>
    \A c \in Co : c \in Range(events) \/ c \in Range(active) =>
      rfd[c] \in Fds /\ interest[rfd[c]] = c

ClockOK == Epoch <= w_start /\ w_start <= clock + MaxBack /\ clock <= w_start + MaxLag

SchedInv == TypeOK /\ NoDangling /\ Located /\ PhaseOK /\ ListsOnce /\ ItemsOK /\ EventsOK /\ ClockOK

(***************************************************************************)
(* The only condition: the time between two turns of event_loop, in        *)
(* milliseconds, fits an int (24 days); beyond it, the index of the wheel  *)
(* could become negative.                                                  *)
(***************************************************************************)
ShortPause == MaxLag < IntHalf

USE SchedulerAssumption

-----------------------------------------------------------------------------
\* The lists a time_item can be in are different ones.
LEMMA LinkFacts ==
  /\ TW!Slots \subseteq Nat /\ TW!Links = TW!Slots \cup {TW!NullLink, TW!RetLink, TW!ActiveLink}
  /\ TW!NullLink \notin TW!Slots /\ TW!RetLink \notin TW!Slots /\ TW!ActiveLink \notin TW!Slots
  /\ TW!NullLink # TW!RetLink /\ TW!NullLink # TW!ActiveLink /\ TW!RetLink # TW!ActiveLink
  BY DEF TW!Slots, TW!Links, TW!NullLink, TW!RetLink, TW!ActiveLink

\* The wheel's operators on sequences are those of SequencesExt.
LEMMA SameRemove == \A q, j : TW!RemoveAt(q, j) = RemoveAt(q, j)
  BY DEF TW!RemoveAt, RemoveAt

\* As above.
LEMMA SameFlatten == \A ss : TW!FlattenSeq(ss) = FlattenSeq(ss)
  BY Zenon DEF TW!FlattenSeq, FlattenSeq

\* Before the first resume.
LEMMA SchedInit == Init => SchedInv
<1> SUFFICES ASSUME Init PROVE SchedInv
  OBVIOUS
<1>1. /\ time_wheel = [s \in TW!Slots |-> <<>>] /\ clock = Epoch /\ w_start = Epoch /\ w_index = 0
      /\ expire = [c \in Co |-> 0] /\ t_link = [c \in Co |-> TW!NullLink] /\ ret_link = <<>>
  BY DEF Init, TW!Init
<1>2. /\ item_map = [f \in Fds |-> NoCo] /\ interest = [f \in Fds |-> NoCo]
      /\ st = [c \in Co |-> "new"] /\ stack = <<>> /\ rfd = [c \in Co |-> NoFd]
      /\ is_timeout = [c \in Co |-> FALSE] /\ events = <<>> /\ active = <<>> /\ destroy_co = <<>>
      /\ phase = "main" /\ ret = [c \in Co |-> "none"] /\ lost = {} /\ crashed = FALSE
  BY DEF Init, EpollInit
<1>3. Range(<<>>) = {} /\ IsInjective(<<>>)
  BY DEF Range, IsInjective
<1>4. TypeOK
  <2>1. /\ time_wheel \in [TW!Slots -> Seq(Co)] /\ w_start \in Nat /\ w_index \in Nat /\ clock \in Nat
        /\ expire \in [Co -> Nat] /\ t_link \in [Co -> TW!Links] /\ ret_link \in Seq(Co)
    BY <1>1, LinkFacts
  <2>2. /\ st \in [Co -> States] /\ stack \in Seq(Co) /\ rfd \in [Co -> Fds \cup {NoFd}]
        /\ events \in Seq(Co \cup {Leaked}) /\ active \in Seq(Co) /\ destroy_co \in Seq(Co)
        /\ item_map \in [Fds -> Co \cup {NoCo, Leaked}] /\ interest \in [Fds -> Co \cup {NoCo, Leaked}]
    BY <1>2 DEF States
  <2>3. phase \in Phases /\ ret \in [Co -> Results] /\ lost \subseteq Co
    BY <1>2 DEF Phases, Results
  <2>4. is_timeout \in [Co -> BOOLEAN] /\ crashed \in BOOLEAN
    BY <1>2
  <2> QED
    BY <2>1, <2>2, <2>3, <2>4 DEF TypeOK
<1>5. NoDangling
  BY <1>2 DEF NoDangling
<1>6. Located
  BY <1>1, <1>2, <1>3, LinkFacts DEF Located
<1>7. PhaseOK /\ ListsOnce
  BY <1>1, <1>2, <1>3 DEF PhaseOK, ListsOnce
<1>8. ItemsOK /\ EventsOK
  BY <1>1, <1>2, LinkFacts DEF ItemsOK, EventsOK
<1>9. ClockOK
  BY <1>1 DEF ClockOK
<1> QED
  BY <1>4, <1>5, <1>6, <1>7, <1>8, <1>9 DEF SchedInv

-----------------------------------------------------------------------------
(***************************************************************************)
(* A coroutine that is not inside register_event runs, yields or ends:     *)
(* only the call stack and destroy_co_ change.                             *)
(***************************************************************************)
LEMMA MoveStack ==
  ASSUME SchedInv, NEW c \in Co, NEW s \in {"run", "yield", "ended"},
         st[c] \in {"new", "yield", "run"}, st' = [st EXCEPT ![c] = s],
         stack' \in Seq(Co), IsInjective(stack'), stack' # <<>> => phase \in {"main", "drain"},
         destroy_co' \in Seq(Co), IsInjective(destroy_co'),
         \A d \in Co : st'[d] = "run" <=> d \in Range(stack'),
         \A d \in Co : st'[d] = "ended" <=> d \in Range(destroy_co'),
         UNCHANGED <<wheelVars, clock, coVars, epollVars, events, active, phase, crashed>>
  PROVE  SchedInv'
<1>1. UNCHANGED <<time_wheel, w_start, w_index, expire, t_link, ret_link, clock, rfd, is_timeout, ret,
                  item_map, interest, lost, events, active, phase, crashed>>
  BY DEF wheelVars, coVars, epollVars, epoll
<1>2. st \in [Co -> States] /\ s \in States
  BY DEF SchedInv, TypeOK, States
<1>3. \A d \in Co : st'[d] = "wait" <=> st[d] = "wait"
  BY <1>2
<1>4. TypeOK'
  BY <1>1, <1>2 DEF SchedInv, TypeOK
<1>5. NoDangling'
  BY <1>1, <1>3 DEF SchedInv, NoDangling
<1>6. Located'
  BY <1>1, <1>3 DEF SchedInv, Located
<1>7. PhaseOK' /\ ListsOnce' /\ EventsOK' /\ ClockOK'
  BY <1>1 DEF SchedInv, PhaseOK, ListsOnce, EventsOK, ClockOK
<1>8. ItemsOK'
  BY <1>1, <1>3 DEF SchedInv, ItemsOK
<1> QED
  BY <1>4, <1>5, <1>6, <1>7, <1>8 DEF SchedInv

\* coroutine::resume of a coroutine that has not begun or has yielded.
LEMMA StartInv == \A c \in Co : SchedInv /\ (Spawn(c) \/ ResumeYielded(c)) => SchedInv'
<1> SUFFICES ASSUME NEW c \in Co, SchedInv, Spawn(c) \/ ResumeYielded(c) PROVE SchedInv'
  OBVIOUS
<1>1. /\ st[c] \in {"new", "yield"} /\ st' = [st EXCEPT ![c] = "run"] /\ stack' = <<c>> \o stack
      /\ (stack # <<>> \/ phase = "main")
      /\ UNCHANGED <<wheelVars, clock, coVars, epollVars, events, active, destroy_co, phase, crashed>>
  BY DEF Spawn, ResumeYielded, CanResume
<1>2. /\ st \in [Co -> States] /\ stack \in Seq(Co) /\ IsInjective(stack) /\ c \notin Range(stack)
      /\ \A d \in Co : st[d] = "run" <=> d \in Range(stack)
      /\ \A d \in Co : st[d] = "ended" <=> d \in Range(destroy_co)
      /\ destroy_co \in Seq(Co) /\ IsInjective(destroy_co)
  BY <1>1 DEF SchedInv, TypeOK, Located
<1>3. stack' \in Seq(Co) /\ Range(stack') = Range(stack) \cup {c} /\ IsInjective(stack')
  BY <1>1, <1>2, PushList
<1>4. phase \in {"main", "drain"}
  BY <1>1 DEF SchedInv, PhaseOK
<1>5. \A d \in Co : st'[d] = "run" <=> d \in Range(stack')
  BY <1>1, <1>2, <1>3
<1>6. \A d \in Co : st'[d] = "ended" <=> d \in Range(destroy_co')
  BY <1>1, <1>2
<1> QED
  BY <1>1, <1>2, <1>3, <1>4, <1>5, <1>6, MoveStack

\* What leaves the call stack when the coroutine on top of it stops running.
LEMMA TopOfStack ==
  ASSUME SchedInv, NEW c \in Co, Running(c)
  PROVE  /\ st[c] = "run" /\ phase \in {"main", "drain"} /\ events = <<>> /\ ret_link = <<>>
         /\ Tail(stack) \in Seq(Co) /\ IsInjective(Tail(stack))
         /\ \A d \in Co : d \in Range(Tail(stack)) <=> st[d] = "run" /\ d # c
<1>1. /\ stack # <<>> /\ Head(stack) = c /\ stack \in Seq(Co) /\ IsInjective(stack)
      /\ \A d \in Co : st[d] = "run" <=> d \in Range(stack)
  BY DEF Running, SchedInv, TypeOK, Located
<1>2. /\ c \in Range(stack) /\ Tail(stack) \in Seq(Co) /\ Range(stack) = Range(Tail(stack)) \cup {c}
      /\ IsInjective(Tail(stack)) /\ c \notin Range(Tail(stack))
  BY <1>1, PopList
<1>3. phase \in {"main", "drain"}
  BY <1>1 DEF SchedInv, PhaseOK
<1>4. events = <<>> /\ ret_link = <<>>
  BY <1>3 DEF SchedInv, PhaseOK
<1> QED
  BY <1>1, <1>2, <1>3, <1>4

\* coroutine::yield.
LEMMA YieldInv == \A c \in Co : SchedInv /\ Yield(c) => SchedInv'
<1> SUFFICES ASSUME NEW c \in Co, SchedInv, Yield(c) PROVE SchedInv'
  OBVIOUS
<1>1. /\ Running(c) /\ st' = [st EXCEPT ![c] = "yield"] /\ stack' = Tail(stack)
      /\ UNCHANGED <<wheelVars, clock, coVars, epollVars, events, active, destroy_co, phase, crashed>>
  BY DEF Yield
<1>2. /\ st[c] = "run" /\ phase \in {"main", "drain"} /\ stack' \in Seq(Co) /\ IsInjective(stack')
      /\ \A d \in Co : d \in Range(stack') <=> st[d] = "run" /\ d # c
  BY <1>1, TopOfStack
<1>3. /\ st \in [Co -> States] /\ destroy_co \in Seq(Co) /\ IsInjective(destroy_co)
      /\ \A d \in Co : st[d] = "ended" <=> d \in Range(destroy_co)
  BY DEF SchedInv, TypeOK, Located
<1>4. \A d \in Co : st'[d] = "run" <=> d \in Range(stack')
  BY <1>1, <1>2, <1>3
<1>5. \A d \in Co : st'[d] = "ended" <=> d \in Range(destroy_co')
  BY <1>1, <1>2, <1>3
<1> QED
  BY <1>1, <1>2, <1>3, <1>4, <1>5, MoveStack

\* The end of co_func_wrapper.
LEMMA FinishInv == \A c \in Co : SchedInv /\ Finish(c) => SchedInv'
<1> SUFFICES ASSUME NEW c \in Co, SchedInv, Finish(c) PROVE SchedInv'
  OBVIOUS
<1>1. /\ Running(c) /\ st' = [st EXCEPT ![c] = "ended"] /\ stack' = Tail(stack)
      /\ destroy_co' = Append(destroy_co, c)
      /\ UNCHANGED <<wheelVars, clock, coVars, epollVars, events, active, phase, crashed>>
  BY DEF Finish
<1>2. /\ st[c] = "run" /\ phase \in {"main", "drain"} /\ stack' \in Seq(Co) /\ IsInjective(stack')
      /\ \A d \in Co : d \in Range(stack') <=> st[d] = "run" /\ d # c
  BY <1>1, TopOfStack
<1>3. /\ st \in [Co -> States] /\ destroy_co \in Seq(Co) /\ IsInjective(destroy_co)
      /\ \A d \in Co : st[d] = "ended" <=> d \in Range(destroy_co)
  BY DEF SchedInv, TypeOK, Located
<1>4. /\ destroy_co' \in Seq(Co) /\ Range(destroy_co') = Range(destroy_co) \cup {c}
      /\ IsInjective(destroy_co')
  BY <1>1, <1>2, <1>3, AppendList
<1>5. \A d \in Co : st'[d] = "run" <=> d \in Range(stack')
  BY <1>1, <1>2, <1>3
<1>6. \A d \in Co : st'[d] = "ended" <=> d \in Range(destroy_co')
  BY <1>1, <1>3, <1>4
<1> QED
  BY <1>1, <1>2, <1>4, <1>5, <1>6, MoveStack

-----------------------------------------------------------------------------
(***************************************************************************)
(* The epoll calls of register_event: an item is added only where none is, *)
(* so nothing that is registered is overwritten.                           *)
(***************************************************************************)
LEMMA AddFacts ==
  ASSUME SchedInv, NEW fd \in Fds \cup {NoFd}, NEW c \in Co \cup {Leaked}, EpollAdd(fd, c)
  PROVE  /\ item_map' \in [Fds -> Co \cup {NoCo, Leaked}]
         /\ interest' \in [Fds -> Co \cup {NoCo, Leaked}]
         /\ \A f \in Fds : \/ item_map'[f] = item_map[f] /\ interest'[f] = interest[f]
                           \/ /\ f = fd /\ item_map[f] = NoCo /\ item_map'[f] = c /\ interest'[f] = c
<1>1. /\ item_map \in [Fds -> Co \cup {NoCo, Leaked}] /\ interest \in [Fds -> Co \cup {NoCo, Leaked}]
  BY DEF SchedInv, TypeOK
<1>2. CASE fd # NoFd /\ item_map[fd] = NoCo
  BY <1>1, <1>2 DEF EpollAdd
<1>3. CASE ~(fd # NoFd /\ item_map[fd] = NoCo)
  BY <1>1, <1>3 DEF EpollAdd, epoll
<1> QED
  BY <1>2, <1>3

\* register_event with a timeout it does not accept.
LEMMA RegisterErrorInv ==
  \A c \in Co, fd \in Fds \cup {NoFd}, t \in Timeouts : SchedInv /\ RegisterError(c, fd, t) => SchedInv'
<1> SUFFICES ASSUME NEW c \in Co, NEW fd \in Fds \cup {NoFd}, NEW t \in Timeouts, SchedInv,
                    RegisterError(c, fd, t)
             PROVE  SchedInv'
  OBVIOUS
<1>1. /\ Running(c) /\ ret' = [ret EXCEPT ![c] = "error"]
      /\ UNCHANGED <<time_wheel, w_start, w_index, expire, t_link, ret_link, clock, st, stack, rfd,
                     is_timeout, lost, events, active, destroy_co, phase, crashed>>
  BY DEF RegisterError, wheelVars
<1>2. st[c] = "run" /\ phase \in {"main", "drain"}
  BY <1>1, TopOfStack
<1>3. /\ item_map' \in [Fds -> Co \cup {NoCo, Leaked}] /\ interest' \in [Fds -> Co \cup {NoCo, Leaked}]
      /\ \A f \in Fds : \/ item_map'[f] = item_map[f] /\ interest'[f] = interest[f]
                        \/ item_map'[f] = Leaked /\ interest'[f] = Leaked
  <2>1. CASE UNCHANGED epoll
    BY <2>1 DEF epoll, SchedInv, TypeOK
  <2>2. CASE EpollAdd(fd, Leaked)
    BY <2>2, AddFacts
  <2> QED
    BY <2>1, <2>2 DEF RegisterError
<1>4. TypeOK'
  BY <1>1, <1>3 DEF SchedInv, TypeOK, Results
<1>5. NoDangling'
  BY <1>1, <1>3 DEF SchedInv, NoDangling
<1>6. Located' /\ PhaseOK' /\ ListsOnce' /\ ClockOK'
  BY <1>1 DEF SchedInv, Located, PhaseOK, ListsOnce, ClockOK
<1>7. ItemsOK'
  BY <1>1, <1>2 DEF SchedInv, TypeOK, ItemsOK
<1>8. EventsOK'
  BY <1>1, <1>2 DEF EventsOK
<1> QED
  BY <1>4, <1>5, <1>6, <1>7, <1>8 DEF SchedInv

\* register_event up to its yield, whatever it has done to the wheel.
LEMMA SuspendInv ==
  ASSUME SchedInv, NEW c \in Co, NEW fd \in Fds \cup {NoFd}, Running(c), Suspend(c, fd),
         UNCHANGED <<w_start, w_index, ret_link, clock, events, active, destroy_co, phase, crashed>>,
         time_wheel' \in [TW!Slots -> Seq(Co)], expire' \in [Co -> Nat], t_link' \in [Co -> TW!Links],
         \A d \in Co \ {c} : expire'[d] = expire[d] /\ t_link'[d] = t_link[d],
         t_link'[c] \in TW!Slots \cup {TW!NullLink}, t_link'[c] \in TW!Slots => expire'[c] > 0,
         \A s \in TW!Slots : /\ IsInjective(time_wheel'[s])
                             /\ \A d \in Co : t_link'[d] = s <=> d \in Range(time_wheel'[s])
  PROVE  SchedInv'
<1>1. /\ EpollAdd(fd, c) /\ st' = [st EXCEPT ![c] = "wait"] /\ stack' = Tail(stack)
      /\ rfd' = [rfd EXCEPT ![c] = fd] /\ is_timeout' = [is_timeout EXCEPT ![c] = FALSE]
      /\ lost' = lost \ {c} /\ ret' = [ret EXCEPT ![c] = "none"]
  BY DEF Suspend
<1>2. /\ st[c] = "run" /\ phase \in {"main", "drain"} /\ events = <<>> /\ ret_link = <<>>
      /\ stack' \in Seq(Co) /\ IsInjective(stack')
      /\ \A d \in Co : d \in Range(stack') <=> st[d] = "run" /\ d # c
  BY <1>1, TopOfStack
<1>3. /\ item_map' \in [Fds -> Co \cup {NoCo, Leaked}] /\ interest' \in [Fds -> Co \cup {NoCo, Leaked}]
      /\ \A f \in Fds : \/ item_map'[f] = item_map[f] /\ interest'[f] = interest[f]
                        \/ /\ f = fd /\ item_map[f] = NoCo /\ item_map'[f] = c /\ interest'[f] = c
  BY <1>1, AddFacts
<1>4. /\ st \in [Co -> States] /\ rfd \in [Co -> Fds \cup {NoFd}] /\ is_timeout \in [Co -> BOOLEAN]
      /\ ret \in [Co -> Results]
  BY DEF SchedInv, TypeOK
<1>5. TypeOK'
  <2>1. /\ st' \in [Co -> States] /\ rfd' \in [Co -> Fds \cup {NoFd}] /\ ret' \in [Co -> Results]
        /\ lost' \subseteq Co
    BY <1>1, <1>4 DEF States, Results, SchedInv, TypeOK
  <2>2. is_timeout' \in [Co -> BOOLEAN]
    BY <1>1, <1>4
  <2> QED
    BY <1>2, <1>3, <2>1, <2>2 DEF SchedInv, TypeOK
<1>6. NoDangling'
  <2> SUFFICES ASSUME NEW f \in Fds
               PROVE  /\ interest'[f] # NoCo => item_map'[f] = interest'[f]
                      /\ item_map'[f] \in Co => st'[item_map'[f]] = "wait" /\ rfd'[item_map'[f]] = f
    BY DEF NoDangling
  <2>1. CASE item_map'[f] = item_map[f] /\ interest'[f] = interest[f]
    <3>1. item_map[f] \in Co => st[item_map[f]] = "wait" /\ rfd[item_map[f]] = f /\ item_map[f] # c
      BY <1>2 DEF SchedInv, NoDangling
    <3> QED
      BY <1>1, <1>4, <2>1, <3>1 DEF SchedInv, NoDangling
  <2>2. CASE f = fd /\ item_map'[f] = c /\ interest'[f] = c
    BY <1>1, <1>4, <2>2
  <2> QED
    BY <1>3, <2>1, <2>2
<1>7. Located'
  <2>1. ASSUME NEW d \in Co
        PROVE  /\ t_link'[d] = TW!ActiveLink <=> d \in Range(active')
               /\ t_link'[d] = TW!RetLink <=> d \in Range(ret_link')
               /\ t_link'[d] # TW!NullLink \/ d \in Range(events') => st'[d] = "wait"
               /\ d \in Range(events') => d \notin Range(active')
    <3>1. /\ t_link[d] = TW!ActiveLink <=> d \in Range(active)
          /\ t_link[d] = TW!RetLink <=> d \in Range(ret_link)
          /\ t_link[d] # TW!NullLink => st[d] = "wait"
          /\ d \notin Range(events)
      BY <1>2 DEF SchedInv, Located, Range
    <3>2. CASE d = c
      BY <1>1, <1>2, <1>4, <3>1, <3>2, LinkFacts
    <3>3. CASE d # c
      BY <1>1, <1>4, <3>1, <3>3
    <3> QED
      BY <3>2, <3>3
  <2>2. ASSUME NEW d \in Co
        PROVE  /\ st'[d] = "run" <=> d \in Range(stack')
               /\ st'[d] = "ended" <=> d \in Range(destroy_co')
    BY <1>1, <1>2, <1>4 DEF SchedInv, Located
  <2>3. IsInjective(active') /\ IsInjective(stack') /\ IsInjective(destroy_co')
    BY <1>2 DEF SchedInv, Located
  <2> QED
    BY <2>1, <2>2, <2>3 DEF Located
<1>8. PhaseOK' /\ ListsOnce' /\ ClockOK'
  BY <1>2 DEF SchedInv, PhaseOK, ListsOnce, ClockOK
<1>9. ItemsOK'
  <2> SUFFICES ASSUME NEW d \in Co
               PROVE  /\ st'[d] # "wait" => expire'[d] = 0 /\ rfd'[d] = NoFd
                      /\ st'[d] = "wait" => ret'[d] = "none"
                      /\ t_link'[d] \in TW!Slots \cup {TW!RetLink} => expire'[d] > 0
                      /\ is_timeout'[d] => /\ phase' = "drain" /\ t_link'[d] = TW!ActiveLink
                                           /\ expire'[d] > 0
    BY DEF ItemsOK
  <2>1. CASE d = c
    BY <1>1, <1>4, <2>1, LinkFacts
  <2>2. CASE d # c
    BY <1>1, <1>4, <2>2 DEF SchedInv, ItemsOK
  <2> QED
    BY <2>1, <2>2
<1>10. EventsOK'
  BY <1>2 DEF EventsOK
<1> QED
  BY <1>5, <1>6, <1>7, <1>8, <1>9, <1>10 DEF SchedInv

\* A coroutine that runs has no time_item, so it is in no list.
LEMMA RunsUnlinked ==
  ASSUME SchedInv, NEW c \in Co, st[c] # "wait"
  PROVE  /\ t_link[c] = TW!NullLink /\ expire[c] = 0
         /\ \A s \in TW!Slots : c \notin Range(time_wheel[s])
  BY LinkFacts DEF SchedInv, Located, ItemsOK

\* register_event without a timer.
LEMMA RegisterForeverInv ==
  \A c \in Co, fd \in Fds \cup {NoFd} : SchedInv /\ RegisterForever(c, fd) => SchedInv'
<1> SUFFICES ASSUME NEW c \in Co, NEW fd \in Fds \cup {NoFd}, SchedInv, RegisterForever(c, fd)
             PROVE  SchedInv'
  OBVIOUS
<1>1. /\ Running(c) /\ Suspend(c, fd)
      /\ UNCHANGED <<time_wheel, w_start, w_index, expire, t_link, ret_link, clock, events, active,
                     destroy_co, phase, crashed>>
  BY DEF RegisterForever, wheelVars
<1>2. t_link[c] = TW!NullLink
  BY <1>1, TopOfStack, RunsUnlinked
<1>3. /\ time_wheel \in [TW!Slots -> Seq(Co)] /\ expire \in [Co -> Nat] /\ t_link \in [Co -> TW!Links]
  BY DEF SchedInv, TypeOK
<1>4. \A s \in TW!Slots : /\ IsInjective(time_wheel[s])
                          /\ \A d \in Co : t_link[d] = s <=> d \in Range(time_wheel[s])
  BY DEF SchedInv, ListsOnce, Located
<1> QED
  BY <1>1, <1>2, <1>3, <1>4, LinkFacts, SuspendInv

\* add_timeout links the new item into one slot, or into none.
LEMMA RegisterTimerInv ==
  \A c \in Co, fd \in Fds \cup {NoFd}, t \in Timeouts : SchedInv /\ RegisterTimer(c, fd, t) => SchedInv'
<1> SUFFICES ASSUME NEW c \in Co, NEW fd \in Fds \cup {NoFd}, NEW t \in Timeouts, SchedInv,
                    RegisterTimer(c, fd, t)
             PROVE  SchedInv'
  OBVIOUS
<1> DEFINE e == clock + t
           i == TW!IndexOf(e)
<1>1. /\ Running(c) /\ Suspend(c, fd) /\ t > 0 /\ TW!AddTimeout(c, e)
      /\ UNCHANGED <<clock, events, active, destroy_co, phase, crashed>>
  BY DEF RegisterTimer
<1>2. /\ time_wheel \in [TW!Slots -> Seq(Co)] /\ expire \in [Co -> Nat] /\ t_link \in [Co -> TW!Links]
      /\ clock \in Nat /\ w_start \in Nat /\ w_index \in Nat /\ t \in Nat /\ e \in Nat /\ e > 0
  BY <1>1 DEF SchedInv, TypeOK
<1>3. i \in TW!Slots
  <2>1. w_index + TW!Diff(e) \in Int
    BY <1>2 DEF TW!Diff
  <2>2. i = (w_index + TW!Diff(e)) % WSize
    BY DEF TW!IndexOf
  <2> QED
    BY <2>1, <2>2, DivMod DEF TW!Slots
<1>4. /\ expire' = [expire EXCEPT ![c] = e] /\ UNCHANGED <<w_start, w_index, ret_link>>
      /\ \/ UNCHANGED <<time_wheel, t_link>>
         \/ /\ time_wheel' = [time_wheel EXCEPT ![i] = Append(@, c)]
            /\ t_link' = [t_link EXCEPT ![c] = i]
  BY <1>1 DEF TW!AddTimeout
<1> HIDE DEF e, i
<1>5. /\ t_link[c] = TW!NullLink
      /\ \A s \in TW!Slots : c \notin Range(time_wheel[s])
  BY <1>1, TopOfStack, RunsUnlinked
<1>6. \A s \in TW!Slots : /\ IsInjective(time_wheel[s]) /\ time_wheel[s] \in Seq(Co)
                          /\ \A d \in Co : t_link[d] = s <=> d \in Range(time_wheel[s])
  BY <1>2 DEF SchedInv, ListsOnce, Located
<1>7. expire' \in [Co -> Nat] /\ expire'[c] > 0 /\ \A d \in Co \ {c} : expire'[d] = expire[d]
  BY <1>2, <1>4
<1>8. CASE UNCHANGED <<time_wheel, t_link>>
  BY <1>1, <1>2, <1>4, <1>5, <1>6, <1>7, <1>8, SuspendInv
<1>9. CASE time_wheel' = [time_wheel EXCEPT ![i] = Append(@, c)] /\ t_link' = [t_link EXCEPT ![c] = i]
  <2>1. /\ time_wheel' \in [TW!Slots -> Seq(Co)] /\ t_link' \in [Co -> TW!Links] /\ t_link'[c] = i
        /\ \A d \in Co \ {c} : t_link'[d] = t_link[d]
    BY <1>2, <1>3, <1>9, LinkFacts
  <2>2. ASSUME NEW s \in TW!Slots
        PROVE  IsInjective(time_wheel'[s]) /\ \A d \in Co : t_link'[d] = s <=> d \in Range(time_wheel'[s])
    <3>1. CASE s = i
      <4>1. time_wheel'[s] = Append(time_wheel[s], c)
        BY <1>2, <1>9, <3>1
      <4>2. Range(time_wheel'[s]) = Range(time_wheel[s]) \cup {c} /\ IsInjective(time_wheel'[s])
        BY <1>5, <1>6, <4>1, AppendList
      <4> QED
        BY <1>6, <2>1, <3>1, <4>2
    <3>2. CASE s # i
      <4>1. time_wheel'[s] = time_wheel[s]
        BY <1>2, <1>9, <3>2
      <4> QED
        BY <1>5, <1>6, <2>1, <3>2, <4>1
    <3> QED
      BY <3>1, <3>2
  <2> QED
    BY <1>1, <1>3, <1>4, <1>7, <2>1, <2>2, SuspendInv
<1> QED
  BY <1>4, <1>8, <1>9

\* A running coroutine closes a descriptor: the kernel forgets it.
LEMMA CloseFdInv == \A fd \in Fds : SchedInv /\ CloseFd(fd) => SchedInv'
<1> SUFFICES ASSUME NEW fd \in Fds, SchedInv, CloseFd(fd) PROVE SchedInv'
  OBVIOUS
<1>1. /\ stack # <<>> /\ interest' = [interest EXCEPT ![fd] = NoCo] /\ lost' = lost \cup Waiters(fd)
      /\ UNCHANGED <<time_wheel, w_start, w_index, expire, t_link, ret_link, clock, st, stack, rfd,
                     is_timeout, ret, item_map, events, active, destroy_co, phase, crashed>>
  BY DEF CloseFd, EpollClosed, wheelVars, coVars
<1>2. phase \in {"main", "drain"}
  BY <1>1 DEF SchedInv, PhaseOK
<1>3. TypeOK'
  BY <1>1 DEF SchedInv, TypeOK, Waiters
<1>4. NoDangling'
  BY <1>1 DEF SchedInv, TypeOK, NoDangling
<1>5. Located' /\ PhaseOK' /\ ListsOnce' /\ ItemsOK' /\ ClockOK'
  BY <1>1 DEF SchedInv, Located, PhaseOK, ListsOnce, ItemsOK, ClockOK
<1>6. EventsOK'
  BY <1>1, <1>2 DEF EventsOK
<1> QED
  BY <1>3, <1>4, <1>5, <1>6 DEF SchedInv

-----------------------------------------------------------------------------
(***************************************************************************)
(* The steps of event_loop that only go on to its next part.               *)
(***************************************************************************)
LEMMA PhaseStep ==
  ASSUME SchedInv, phase' \in Phases, PhaseOK', EventsOK',
         phase = "drain" => active = <<>>,
         UNCHANGED <<wheelVars, clock, st, stack, coVars, epollVars, events, active, destroy_co, crashed>>
  PROVE  SchedInv'
<1>1. UNCHANGED <<time_wheel, w_start, w_index, expire, t_link, ret_link, clock, st, stack, rfd,
                  is_timeout, ret, item_map, interest, lost, events, active, destroy_co, crashed>>
  BY DEF wheelVars, coVars, epollVars, epoll
<1>2. \A c \in Co : ~is_timeout[c]
  <2> SUFFICES ASSUME NEW c \in Co, is_timeout[c] PROVE FALSE
    OBVIOUS
  <2>1. phase = "drain" /\ c \in Range(active)
    BY DEF SchedInv, ItemsOK, Located
  <2> QED
    BY <2>1 DEF Range
<1>3. ItemsOK'
  BY <1>1, <1>2 DEF SchedInv, ItemsOK
<1>4. TypeOK'
  BY <1>1 DEF SchedInv, TypeOK
<1>5. NoDangling' /\ Located' /\ ListsOnce' /\ ClockOK'
  BY <1>1 DEF SchedInv, NoDangling, Located, ListsOnce, ClockOK
<1> QED
  BY <1>3, <1>4, <1>5 DEF SchedInv

\* event_loop is entered, its parts follow one another, and func may stop it.
LEMMA PhasesInv == SchedInv /\ (BeginLoop \/ EndEvents \/ EndDrain \/ Func) => SchedInv'
<1> SUFFICES ASSUME SchedInv, BeginLoop \/ EndEvents \/ EndDrain \/ Func PROVE SchedInv'
  OBVIOUS
<1>1. UNCHANGED <<wheelVars, clock, st, stack, coVars, epollVars, events, active, destroy_co, crashed>>
  BY DEF BeginLoop, EndEvents, EndDrain, Func
<1>2. UNCHANGED <<ret_link, stack, events, active, rfd, interest>>
  BY <1>1 DEF wheelVars, coVars, epollVars, epoll
<1>3. CASE BeginLoop
  <2>1. phase' \in Phases /\ PhaseOK' /\ EventsOK' /\ phase # "drain"
    BY <1>2, <1>3 DEF BeginLoop, SchedInv, PhaseOK, EventsOK, Phases
  <2> QED
    BY <1>1, <2>1, PhaseStep
<1>4. CASE EndEvents
  <2>1. phase' \in Phases /\ PhaseOK' /\ EventsOK' /\ phase # "drain"
    BY <1>2, <1>4 DEF EndEvents, SchedInv, PhaseOK, EventsOK, Phases
  <2> QED
    BY <1>1, <2>1, PhaseStep
<1>5. CASE EndDrain
  <2>1. phase' \in Phases /\ PhaseOK' /\ EventsOK' /\ active = <<>>
    BY <1>2, <1>5 DEF EndDrain, SchedInv, PhaseOK, EventsOK, Phases
  <2> QED
    BY <1>1, <2>1, PhaseStep
<1>6. CASE Func
  <2>1. phase' \in Phases /\ PhaseOK' /\ EventsOK' /\ phase # "drain"
    BY <1>2, <1>6 DEF Func, SchedInv, PhaseOK, EventsOK, Phases
  <2> QED
    BY <1>1, <2>1, PhaseStep
<1> QED
  BY <1>3, <1>4, <1>5, <1>6

\* The process dies of a bad pointer; time passes or is set back.
LEMMA CrashTickInv ==
  SchedInv /\ (Tick \/ StepBack \/ \E c \in Co \cup {Leaked} : CrashEvent(c)) => SchedInv'
<1> SUFFICES ASSUME SchedInv, Tick \/ StepBack \/ \E c \in Co \cup {Leaked} : CrashEvent(c) PROVE SchedInv'
  OBVIOUS
<1>1. UNCHANGED <<time_wheel, w_start, w_index, expire, t_link, ret_link, st, stack, rfd,
                  is_timeout, ret, item_map, interest, lost, events, active, destroy_co, phase>>
  BY DEF Tick, StepBack, CrashEvent, TW!Tick, TW!StepBack, TW!wheelVars, wheelVars, coVars, epollVars, epoll
<1>2. clock' \in Nat /\ ClockOK'
  <2>1. CASE Tick
    BY <1>1, <2>1 DEF Tick, TW!Tick, SchedInv, TypeOK, ClockOK
  <2>2. CASE \E c \in Co \cup {Leaked} : CrashEvent(c)
    BY <1>1, <2>2 DEF CrashEvent, SchedInv, TypeOK, ClockOK
  <2>3. CASE StepBack
    <3>1. /\ clock - 1 >= w_start - MaxBack /\ clock' = clock - 1 /\ w_start' = w_start
          /\ clock \in Nat /\ w_start \in Nat /\ Epoch <= w_start /\ clock <= w_start + MaxLag
      BY <1>1, <2>3 DEF StepBack, TW!StepBack, SchedInv, TypeOK, ClockOK
    <3> QED
      BY <3>1 DEF ClockOK
  <2> QED
    BY <2>1, <2>2, <2>3
<1>3. crashed' \in BOOLEAN
  BY DEF Tick, StepBack, CrashEvent, SchedInv, TypeOK
<1>4. TypeOK'
  BY <1>1, <1>2, <1>3 DEF SchedInv, TypeOK
<1>5. NoDangling' /\ Located' /\ PhaseOK' /\ ListsOnce' /\ ItemsOK' /\ EventsOK'
  BY <1>1 DEF SchedInv, NoDangling, Located, PhaseOK, ListsOnce, ItemsOK, EventsOK
<1> QED
  BY <1>2, <1>4, <1>5 DEF SchedInv

(***************************************************************************)
(* epoll_wait: an item comes once, since it is registered for the one      *)
(* descriptor that its coroutine waits on, and that coroutine is still     *)
(* inside register_event.                                                  *)
(***************************************************************************)
LEMMA PollInv == SchedInv /\ Poll => SchedInv'
<1> SUFFICES ASSUME SchedInv, Poll PROVE SchedInv'
  OBVIOUS
<1>1. PICK S \in SUBSET {f \in Fds : interest[f] # NoCo} : \E fs \in SetToSeqs(S) :
        events' = [k \in DOMAIN fs |-> interest[fs[k]]]
  BY DEF Poll
<1>2. PICK fs \in SetToSeqs(S) : events' = [k \in DOMAIN fs |-> interest[fs[k]]]
  BY <1>1
<1>3. Cardinality(S) \in Nat
  BY FS_Subset, FS_CardinalityType
<1>4. /\ DOMAIN fs = 1 .. Cardinality(S) /\ \A k \in DOMAIN fs : fs[k] \in S
      /\ \A j, k \in DOMAIN fs : fs[j] = fs[k] => j = k
  BY <1>2 DEF SetToSeqs
<1>5. /\ phase = "poll" /\ phase' = "events"
      /\ UNCHANGED <<time_wheel, w_start, w_index, expire, t_link, ret_link, clock, st, stack, rfd,
                     is_timeout, ret, item_map, interest, lost, active, destroy_co, crashed>>
  BY DEF Poll, wheelVars, coVars, epollVars, epoll
<1>6. DOMAIN events' = DOMAIN fs /\ \A k \in DOMAIN fs : events'[k] = interest[fs[k]]
  BY <1>2
<1>7. \A f \in S : /\ f \in Fds /\ interest[f] \in Co \cup {Leaked}
                   /\ interest[f] \in Co => st[interest[f]] = "wait" /\ rfd[interest[f]] = f
  BY DEF SchedInv, TypeOK, NoDangling
<1>8. events' \in Seq(Co \cup {Leaked})
  <2>1. \A k \in 1 .. Cardinality(S) : interest[fs[k]] \in Co \cup {Leaked}
    BY <1>4, <1>7
  <2> QED
    BY <1>2, <1>3, <1>4, <2>1
<1>9. active = <<>> /\ stack = <<>> /\ ret_link = <<>>
  BY <1>5 DEF SchedInv, PhaseOK
<1>10. TypeOK'
  BY <1>5, <1>8 DEF SchedInv, TypeOK, Phases
<1>11. ASSUME NEW c \in Co, c \in Range(events')
       PROVE  st[c] = "wait" /\ rfd[c] \in Fds /\ interest[rfd[c]] = c
  <2>1. PICK k \in DOMAIN fs : c = interest[fs[k]]
    BY <1>6, <1>11 DEF Range
  <2> QED
    BY <1>4, <1>7, <2>1
<1>12. Located'
  <2>1. Range(active) = {}
    BY <1>9 DEF Range
  <2> QED
    BY <1>5, <1>11, <2>1 DEF SchedInv, Located
<1>13. ListsOnce'
  <2>1. ASSUME NEW j \in DOMAIN events', NEW k \in DOMAIN events', events'[j] = events'[k],
               events'[j] \in Co
        PROVE  j = k
    <3>1. fs[j] = rfd[events'[j]] /\ fs[k] = rfd[events'[j]]
      BY <1>4, <1>6, <1>7, <2>1
    <3> QED
      BY <1>4, <1>6, <3>1
  <2> QED
    BY <1>5, <2>1 DEF SchedInv, ListsOnce
<1>14. NoDangling' /\ ClockOK' /\ ItemsOK'
  BY <1>5 DEF SchedInv, NoDangling, ClockOK, ItemsOK
<1>15. PhaseOK'
  BY <1>5, <1>9 DEF PhaseOK
<1>16. EventsOK'
  <2>1. Range(active) = {}
    BY <1>9 DEF Range
  <2> QED
    BY <1>5, <1>11, <2>1 DEF EventsOK
<1> QED
  BY <1>10, <1>12, <1>13, <1>14, <1>15, <1>16 DEF SchedInv

(***************************************************************************)
(* One event: the item leaves the list of events and its slot of the wheel *)
(* and is on the active list.  The branch that leaves event_loop because   *)
(* the item is still in a list is never taken.                             *)
(***************************************************************************)
LEMMA HandleEventInv == \A c \in Co : SchedInv /\ HandleEvent(c) => SchedInv'
<1> SUFFICES ASSUME NEW c \in Co, SchedInv, HandleEvent(c) PROVE SchedInv'
  OBVIOUS
<1>1. /\ phase = "events" /\ events # <<>> /\ Head(events) = c /\ ~BadItem(c)
      /\ UNCHANGED <<clock, st, stack, rfd, is_timeout, ret, item_map, interest, lost, destroy_co, crashed>>
  BY DEF HandleEvent, coVars, epollVars, epoll
<1>2. /\ time_wheel \in [TW!Slots -> Seq(Co)] /\ expire \in [Co -> Nat] /\ t_link \in [Co -> TW!Links]
      /\ active \in Seq(Co) /\ events \in Seq(Co \cup {Leaked})
  BY DEF SchedInv, TypeOK
<1>3. /\ c \in Range(events) /\ Tail(events) \in Seq(Co \cup {Leaked})
      /\ Range(events) = Range(Tail(events)) \cup {c}
  BY <1>1, <1>2, PopList
<1>4. /\ c \notin Range(active) /\ st[c] = "wait" /\ ret_link = <<>> /\ stack = <<>>
      /\ t_link[c] \in TW!Slots \cup {TW!NullLink}
  <2>1. ret_link = <<>> /\ stack = <<>> /\ Range(ret_link) = {}
    BY <1>1 DEF SchedInv, PhaseOK, Range
  <2> QED
    BY <1>2, <1>3, <2>1, LinkFacts DEF SchedInv, Located
<1>5. ~(expire[c] = 0 /\ t_link[c] # TW!NullLink)
  BY <1>2, <1>4 DEF SchedInv, ItemsOK
<1>6. /\ Unlinked(c) /\ t_link' = [t_link EXCEPT ![c] = TW!ActiveLink]
      /\ active' = Append(active, c) /\ events' = Tail(events) /\ UNCHANGED <<expire, phase>>
  BY <1>5 DEF HandleEvent
<1>7. UNCHANGED <<w_start, w_index, ret_link>>
  BY <1>6 DEF Unlinked, TW!Unlink
<1>8. /\ time_wheel' \in [TW!Slots -> Seq(Co)]
      /\ \A s \in TW!Slots : /\ IsInjective(time_wheel'[s])
                             /\ Range(time_wheel'[s]) = Range(time_wheel[s]) \ {c}
  <2>1. \A s \in TW!Slots : /\ IsInjective(time_wheel[s]) /\ time_wheel[s] \in Seq(Co)
                            /\ t_link[c] = s <=> c \in Range(time_wheel[s])
    BY <1>2 DEF SchedInv, ListsOnce, Located
  <2>2. CASE expire[c] > 0
    <3>1. t_link[c] \in TW!Slots
      BY <1>1, <1>4, <2>2 DEF BadItem
    <3>2. PICK j \in DOMAIN time_wheel[t_link[c]] :
            /\ time_wheel[t_link[c]][j] = c
            /\ time_wheel' = [time_wheel EXCEPT ![t_link[c]] = RemoveAt(@, j)]
      BY <1>6, <2>2, SameRemove DEF Unlinked, TW!Unlink
    <3> DEFINE l == t_link[c]
               q == time_wheel[l]
    <3>3. q \in Seq(Co) /\ IsInjective(q) /\ j \in 1 .. Len(q) /\ q[j] = c
      BY <2>1, <3>1, <3>2
    <3>4. time_wheel' = [time_wheel EXCEPT ![l] = RemoveAt(q, j)]
      BY <1>2, <3>1, <3>2
    <3>5. l \in TW!Slots /\ \A s \in TW!Slots : l = s <=> c \in Range(time_wheel[s])
      BY <2>1, <3>1
    <3> HIDE DEF l
    <3>6. /\ RemoveAt(q, j) \in Seq(Co) /\ Range(RemoveAt(q, j)) = Range(q) \ {c}
          /\ IsInjective(RemoveAt(q, j))
      BY <3>3, RemoveList
    <3> HIDE DEF q
    <3>7. time_wheel' \in [TW!Slots -> Seq(Co)]
      BY <1>2, <3>4, <3>6
    <3>8. ASSUME NEW s \in TW!Slots
          PROVE  IsInjective(time_wheel'[s]) /\ Range(time_wheel'[s]) = Range(time_wheel[s]) \ {c}
      <4>1. CASE s = l
        BY <1>2, <3>4, <3>5, <3>6, <4>1 DEF q
      <4>2. CASE s # l
        <5>1. time_wheel'[s] = time_wheel[s] /\ c \notin Range(time_wheel[s])
          BY <1>2, <3>4, <3>5, <4>2
        <5> QED
          BY <2>1, <5>1
      <4> QED
        BY <4>1, <4>2
    <3> QED
      BY <3>7, <3>8
  <2>3. CASE ~(expire[c] > 0)
    <3>1. time_wheel' = time_wheel
      BY <1>6, <2>3 DEF Unlinked
    <3>2. t_link[c] = TW!NullLink
      BY <1>2, <1>4, <1>5, <2>3
    <3>3. \A s \in TW!Slots : c \notin Range(time_wheel[s])
      BY <2>1, <3>2, LinkFacts
    <3> QED
      BY <1>2, <2>1, <3>1, <3>3
  <2> QED
    BY <2>2, <2>3
<1>9. /\ active' \in Seq(Co) /\ Range(active') = Range(active) \cup {c} /\ IsInjective(active')
  BY <1>2, <1>4, <1>6, AppendList DEF SchedInv, Located
<1>10. t_link' \in [Co -> TW!Links] /\ t_link'[c] = TW!ActiveLink /\ \A d \in Co \ {c} : t_link'[d] = t_link[d]
  BY <1>2, <1>6, LinkFacts
<1>11. /\ c \notin Range(Tail(events))
       /\ \A j, k \in DOMAIN Tail(events) : Tail(events)[j] = Tail(events)[k] /\ Tail(events)[j] \in Co => j = k
  <2>1. DOMAIN events = 1 .. Len(events) /\ Len(events) \in Nat /\ Len(events) > 0 /\ events[1] = c
    BY <1>1, <1>2
  <2>2. /\ DOMAIN Tail(events) = 1 .. Len(events) - 1
        /\ \A k \in 1 .. Len(events) - 1 : Tail(events)[k] = events[k + 1]
    BY <1>1, <1>2
  <2>3. \A j, k \in DOMAIN events : events[j] = events[k] /\ events[j] \in Co => j = k
    BY DEF SchedInv, ListsOnce
  <2> HIDE DEF SchedInv
  <2>4. ASSUME NEW j \in DOMAIN Tail(events), NEW k \in DOMAIN Tail(events),
               Tail(events)[j] = Tail(events)[k], Tail(events)[j] \in Co
        PROVE  j = k
    <3>1. j + 1 \in DOMAIN events /\ k + 1 \in DOMAIN events /\ events[j + 1] = events[k + 1] /\ events[j + 1] \in Co
      BY <2>1, <2>2, <2>4
    <3>2. j + 1 = k + 1
      BY <2>3, <3>1
    <3> QED
      BY <2>1, <2>2, <3>2
  <2>5. ASSUME NEW k \in DOMAIN Tail(events), Tail(events)[k] = c PROVE FALSE
    <3>1. k + 1 \in DOMAIN events /\ events[k + 1] = events[1] /\ 1 \in DOMAIN events
      BY <2>1, <2>2, <2>5
    <3>2. k + 1 = 1
      BY <2>1, <2>3, <3>1
    <3> QED
      BY <2>1, <2>2, <3>2
  <2> QED
    BY <2>4, <2>5 DEF Range
<1>12. TypeOK'
  BY <1>1, <1>3, <1>6, <1>7, <1>8, <1>9, <1>10 DEF SchedInv, TypeOK
<1>13. NoDangling' /\ ClockOK'
  BY <1>1, <1>7 DEF SchedInv, NoDangling, ClockOK
<1>14. Located'
  <2>1. ASSUME NEW d \in Co
        PROVE  /\ t_link'[d] = TW!ActiveLink <=> d \in Range(active')
               /\ t_link'[d] = TW!RetLink <=> d \in Range(ret_link')
               /\ \A s \in TW!Slots : t_link'[d] = s <=> d \in Range(time_wheel'[s])
               /\ t_link'[d] # TW!NullLink \/ d \in Range(events') => st'[d] = "wait"
               /\ d \in Range(events') => d \notin Range(active')
    <3>1. CASE d = c
      <4>1. c \in Range(active') /\ c \notin Range(events')
        BY <1>6, <1>9, <1>11
      <4>2. c \notin Range(ret_link')
        BY <1>4, <1>7 DEF Range
      <4>3. \A s \in TW!Slots : t_link'[c] # s /\ c \notin Range(time_wheel'[s])
        BY <1>8, <1>10, LinkFacts
      <4> QED
        BY <1>1, <1>4, <1>10, <3>1, <4>1, <4>2, <4>3, LinkFacts
    <3>2. CASE d # c
      BY <1>1, <1>3, <1>6, <1>7, <1>8, <1>9, <1>10, <3>2 DEF SchedInv, Located
    <3> QED
      BY <3>1, <3>2
  <2>2. ASSUME NEW d \in Co
        PROVE  /\ st'[d] = "run" <=> d \in Range(stack')
               /\ st'[d] = "ended" <=> d \in Range(destroy_co')
    BY <1>1 DEF SchedInv, Located
  <2>3. IsInjective(stack') /\ IsInjective(destroy_co')
    BY <1>1 DEF SchedInv, Located
  <2> QED
    BY <1>9, <2>1, <2>2, <2>3 DEF Located
<1>15. PhaseOK'
  BY <1>1, <1>4, <1>6, <1>7 DEF PhaseOK
<1>16. ListsOnce'
  BY <1>6, <1>7, <1>8, <1>11 DEF SchedInv, ListsOnce
<1>17. ItemsOK'
  <2>1. \A d \in Co : ~is_timeout[d]
    BY <1>1 DEF SchedInv, ItemsOK
  <2>2. TW!ActiveLink \notin TW!Slots \cup {TW!RetLink}
    BY LinkFacts
  <2> QED
    BY <1>1, <1>6, <1>10, <2>1, <2>2 DEF SchedInv, ItemsOK
<1>18. EventsOK'
  <2>1. phase = "events" /\ phase' = phase
    BY <1>1, <1>6
  <2> QED
    BY <1>1, <1>3, <1>6, <1>9, <2>1 DEF SchedInv, EventsOK
<1> QED
  BY <1>12, <1>13, <1>14, <1>15, <1>16, <1>17, <1>18 DEF SchedInv

(***************************************************************************)
(* The expired items follow the active ones; whoever had an event in this  *)
(* turn is no longer in the wheel, so no item comes twice.                 *)
(***************************************************************************)
LEMMA MergeInv == SchedInv /\ Merge => SchedInv'
<1> SUFFICES ASSUME SchedInv, Merge PROVE SchedInv'
  OBVIOUS
<1>1. /\ phase = "merge" /\ phase' = "drain" /\ ret_link' = <<>> /\ active' = active \o ret_link
      /\ is_timeout' = [c \in Co |-> is_timeout[c] \/ c \in Range(ret_link)]
      /\ t_link' = [c \in Co |-> IF c \in Range(ret_link) THEN TW!ActiveLink ELSE t_link[c]]
      /\ UNCHANGED <<time_wheel, w_start, w_index, expire, clock, st, stack, rfd, ret, item_map, interest,
                     lost, events, destroy_co, crashed>>
  BY DEF Merge, epollVars, epoll
<1>2. /\ active \in Seq(Co) /\ ret_link \in Seq(Co) /\ t_link \in [Co -> TW!Links]
      /\ IsInjective(active) /\ IsInjective(ret_link)
  BY DEF SchedInv, TypeOK, Located, ListsOnce
<1>3. /\ stack = <<>> /\ events = <<>> /\ Range(events) = {}
  BY <1>1 DEF SchedInv, PhaseOK, Range
<1>4. \A c \in Co : /\ t_link[c] = TW!ActiveLink <=> c \in Range(active)
                    /\ t_link[c] = TW!RetLink <=> c \in Range(ret_link)
  BY DEF SchedInv, Located
<1>5. /\ active' \in Seq(Co) /\ Range(active') = Range(active) \cup Range(ret_link)
      /\ IsInjective(active')
  <2>1. Range(active) \cap Range(ret_link) = {}
    <3>1. Range(active) \subseteq Co
      BY <1>2 DEF Range
    <3> QED
      BY <1>4, <3>1, LinkFacts
  <2> QED
    BY <1>1, <1>2, <2>1, ConcatList
<1>6. t_link' \in [Co -> TW!Links] /\ is_timeout' \in [Co -> BOOLEAN]
  <2>1. t_link' \in [Co -> TW!Links]
    BY <1>1, <1>2, LinkFacts
  <2>2. is_timeout' \in [Co -> BOOLEAN]
    BY <1>1 DEF SchedInv, TypeOK
  <2> QED
    BY <2>1, <2>2
<1>7. TypeOK'
  BY <1>1, <1>5, <1>6 DEF SchedInv, TypeOK, Phases
<1>8. NoDangling' /\ ClockOK'
  BY <1>1 DEF SchedInv, NoDangling, ClockOK
<1>9. Located'
  <2>1. ASSUME NEW d \in Co
        PROVE  /\ t_link'[d] = TW!ActiveLink <=> d \in Range(active')
               /\ t_link'[d] = TW!RetLink <=> d \in Range(ret_link')
               /\ \A s \in TW!Slots : t_link'[d] = s <=> d \in Range(time_wheel'[s])
               /\ t_link'[d] # TW!NullLink \/ d \in Range(events') => st'[d] = "wait"
               /\ d \in Range(events') => d \notin Range(active')
    <3>1. d \notin Range(ret_link')
      BY <1>1 DEF Range
    <3>2. CASE d \in Range(ret_link)
      <4>1. t_link'[d] = TW!ActiveLink /\ t_link[d] = TW!RetLink
        BY <1>1, <1>4, <3>2
      <4>2. st[d] = "wait" /\ \A s \in TW!Slots : d \notin Range(time_wheel[s])
        BY <4>1, LinkFacts DEF SchedInv, Located
      <4> QED
        BY <1>1, <1>3, <1>5, <3>1, <3>2, <4>1, <4>2, LinkFacts
    <3>3. CASE d \notin Range(ret_link)
      <4>1. t_link'[d] = t_link[d]
        BY <1>1, <3>3
      <4> QED
        BY <1>1, <1>3, <1>4, <1>5, <3>1, <3>3, <4>1 DEF SchedInv, Located
    <3> QED
      BY <3>2, <3>3
  <2>2. ASSUME NEW d \in Co
        PROVE  /\ st'[d] = "run" <=> d \in Range(stack')
               /\ st'[d] = "ended" <=> d \in Range(destroy_co')
    BY <1>1 DEF SchedInv, Located
  <2>3. IsInjective(stack') /\ IsInjective(destroy_co')
    BY <1>1 DEF SchedInv, Located
  <2> QED
    BY <1>5, <2>1, <2>2, <2>3 DEF Located
<1>10. PhaseOK' /\ EventsOK'
  BY <1>1, <1>3 DEF PhaseOK, EventsOK
<1>11. ListsOnce'
  <2>1. IsInjective(<<>>)
    BY DEF IsInjective
  <2> QED
    BY <1>1, <2>1 DEF SchedInv, ListsOnce
<1>12. ItemsOK'
  <2> SUFFICES ASSUME NEW d \in Co
               PROVE  /\ t_link'[d] \in TW!Slots \cup {TW!RetLink} => expire'[d] > 0
                      /\ is_timeout'[d] => t_link'[d] = TW!ActiveLink /\ expire'[d] > 0
    BY <1>1 DEF SchedInv, ItemsOK
  <2>1. ~is_timeout[d]
    BY <1>1 DEF SchedInv, ItemsOK
  <2>2. t_link[d] \in TW!Slots \cup {TW!RetLink} => expire[d] > 0
    BY DEF SchedInv, ItemsOK
  <2>3. CASE d \in Range(ret_link)
    BY <1>1, <1>4, <2>2, <2>3, LinkFacts
  <2>4. CASE d \notin Range(ret_link)
    BY <1>1, <2>1, <2>2, <2>4
  <2> QED
    BY <2>3, <2>4
<1> QED
  BY <1>7, <1>8, <1>9, <1>10, <1>11, <1>12 DEF SchedInv

(***************************************************************************)
(* The head of the active list goes on behind its register_event: what it  *)
(* left with epoll is deleted, and nobody else's item is.                  *)
(***************************************************************************)
LEMMA ResumeInv == \A c \in Co : SchedInv /\ Resume(c) => SchedInv'
<1> SUFFICES ASSUME NEW c \in Co, SchedInv, Resume(c) PROVE SchedInv'
  OBVIOUS
<1>1. /\ phase = "drain" /\ stack = <<>> /\ active # <<>> /\ Head(active) = c
      /\ active' = Tail(active) /\ stack' = <<c>>
      /\ t_link' = [t_link EXCEPT ![c] = TW!NullLink] /\ expire' = [expire EXCEPT ![c] = 0]
      /\ st' = [st EXCEPT ![c] = "run"] /\ rfd' = [rfd EXCEPT ![c] = NoFd]
      /\ ret' = [ret EXCEPT ![c] = IF is_timeout[c] THEN "timeout" ELSE "event"]
      /\ is_timeout' = [is_timeout EXCEPT ![c] = FALSE] /\ lost' = lost \ {c}
      /\ UNCHANGED <<time_wheel, w_start, w_index, ret_link, clock, events, destroy_co, phase, crashed>>
  BY DEF Resume
<1>2. EpollDel(rfd[c])
  BY DEF Resume
<1>3. /\ active \in Seq(Co) /\ t_link \in [Co -> TW!Links] /\ expire \in [Co -> Nat]
      /\ st \in [Co -> States] /\ rfd \in [Co -> Fds \cup {NoFd}] /\ ret \in [Co -> Results]
      /\ is_timeout \in [Co -> BOOLEAN]
      /\ item_map \in [Fds -> Co \cup {NoCo, Leaked}] /\ interest \in [Fds -> Co \cup {NoCo, Leaked}]
  BY DEF SchedInv, TypeOK
<1>4. /\ active' \in Seq(Co) /\ Range(active) = Range(active') \cup {c}
      /\ IsInjective(active') /\ c \notin Range(active')
  BY <1>1, <1>3, PopList DEF SchedInv, Located
<1>5. t_link[c] = TW!ActiveLink /\ st[c] = "wait" /\ events = <<>> /\ ret_link = <<>>
  BY <1>1, <1>4, LinkFacts DEF SchedInv, Located, PhaseOK
<1>6. /\ item_map' \in [Fds -> Co \cup {NoCo, Leaked}] /\ interest' \in [Fds -> Co \cup {NoCo, Leaked}]
      /\ \A f \in Fds : \/ f # rfd[c] /\ item_map'[f] = item_map[f] /\ interest'[f] = interest[f]
                        \/ f = rfd[c] /\ item_map'[f] = NoCo /\ interest'[f] = NoCo
  <2>1. CASE rfd[c] # NoFd /\ item_map[rfd[c]] # NoCo
    <3>1. /\ item_map' = [item_map EXCEPT ![rfd[c]] = NoCo] /\ interest' = [interest EXCEPT ![rfd[c]] = NoCo]
      BY <1>2, <2>1 DEF EpollDel
    <3> QED
      BY <1>3, <3>1
  <2>2. CASE ~(rfd[c] # NoFd /\ item_map[rfd[c]] # NoCo)
    <3>1. item_map' = item_map /\ interest' = interest
      BY <1>2, <2>2 DEF EpollDel, epoll
    <3>2. ASSUME NEW f \in Fds, f = rfd[c] PROVE item_map[f] = NoCo /\ interest[f] = NoCo
      BY <2>2, <3>2 DEF SchedInv, NoDangling
    <3> QED
      BY <1>3, <3>1, <3>2
  <2> QED
    BY <2>1, <2>2
<1>7. TypeOK'
  <2>1. /\ t_link' \in [Co -> TW!Links] /\ expire' \in [Co -> Nat] /\ st' \in [Co -> States]
        /\ rfd' \in [Co -> Fds \cup {NoFd}] /\ stack' \in Seq(Co) /\ lost' \subseteq Co
    BY <1>1, <1>3, LinkFacts DEF States, SchedInv, TypeOK
  <2>2. ret' \in [Co -> Results]
    BY <1>1, <1>3 DEF Results
  <2>3. is_timeout' \in [Co -> BOOLEAN]
    BY <1>1, <1>3
  <2> QED
    BY <1>1, <1>4, <1>6, <2>1, <2>2, <2>3 DEF SchedInv, TypeOK
<1>8. NoDangling'
  <2> SUFFICES ASSUME NEW f \in Fds
               PROVE  /\ interest'[f] # NoCo => item_map'[f] = interest'[f]
                      /\ item_map'[f] \in Co => st'[item_map'[f]] = "wait" /\ rfd'[item_map'[f]] = f
    BY DEF NoDangling
  <2>1. CASE f # rfd[c] /\ item_map'[f] = item_map[f] /\ interest'[f] = interest[f]
    <3>1. item_map[f] \in Co => st[item_map[f]] = "wait" /\ rfd[item_map[f]] = f /\ item_map[f] # c
      BY <2>1 DEF SchedInv, NoDangling
    <3> QED
      BY <1>1, <1>3, <2>1, <3>1 DEF SchedInv, NoDangling
  <2>2. CASE f = rfd[c] /\ item_map'[f] = NoCo /\ interest'[f] = NoCo
    BY <2>2
  <2> QED
    BY <1>6, <2>1, <2>2
<1>9. Located'
  <2>0. Range(stack') = {c} /\ IsInjective(stack')
    BY <1>1 DEF Range, IsInjective
  <2>1. ASSUME NEW d \in Co
        PROVE  /\ t_link'[d] = TW!ActiveLink <=> d \in Range(active')
               /\ t_link'[d] = TW!RetLink <=> d \in Range(ret_link')
               /\ \A s \in TW!Slots : t_link'[d] = s <=> d \in Range(time_wheel'[s])
               /\ t_link'[d] # TW!NullLink \/ d \in Range(events') => st'[d] = "wait"
               /\ d \in Range(events') => d \notin Range(active')
    <3>1. d \notin Range(events') /\ d \notin Range(ret_link')
      BY <1>1, <1>5 DEF Range
    <3>2. CASE d = c
      <4>1. t_link'[c] = TW!NullLink /\ \A s \in TW!Slots : c \notin Range(time_wheel[s])
        BY <1>1, <1>3, <1>5, LinkFacts DEF SchedInv, Located
      <4> QED
        BY <1>1, <1>4, <3>1, <3>2, <4>1, LinkFacts
    <3>3. CASE d # c
      <4>1. t_link'[d] = t_link[d] /\ st'[d] = st[d]
        BY <1>1, <1>3, <3>3
      <4> QED
        BY <1>1, <1>4, <3>1, <3>3, <4>1 DEF SchedInv, Located
    <3> QED
      BY <3>2, <3>3
  <2>2. ASSUME NEW d \in Co
        PROVE  /\ st'[d] = "run" <=> d \in Range(stack')
               /\ st'[d] = "ended" <=> d \in Range(destroy_co')
    <3>1. st[d] # "run"
      BY <1>1 DEF SchedInv, Located, Range
    <3> QED
      BY <1>1, <1>3, <1>5, <2>0, <3>1 DEF SchedInv, Located
  <2>3. IsInjective(destroy_co')
    BY <1>1 DEF SchedInv, Located
  <2> QED
    BY <1>4, <2>0, <2>1, <2>2, <2>3 DEF Located
<1>10. PhaseOK' /\ EventsOK' /\ ClockOK' /\ ListsOnce'
  BY <1>1, <1>5 DEF SchedInv, PhaseOK, EventsOK, ClockOK, ListsOnce
<1>11. ItemsOK'
  <2> SUFFICES ASSUME NEW d \in Co
               PROVE  /\ st'[d] # "wait" => expire'[d] = 0 /\ rfd'[d] = NoFd
                      /\ st'[d] = "wait" => ret'[d] = "none"
                      /\ t_link'[d] \in TW!Slots \cup {TW!RetLink} => expire'[d] > 0
                      /\ is_timeout'[d] => /\ phase' = "drain" /\ t_link'[d] = TW!ActiveLink
                                           /\ expire'[d] > 0
    BY DEF ItemsOK
  <2>1. CASE d = c
    BY <1>1, <1>3, <2>1, LinkFacts
  <2>2. CASE d # c
    BY <1>1, <1>3, <2>2 DEF SchedInv, ItemsOK
  <2> QED
    BY <2>1, <2>2
<1> QED
  BY <1>7, <1>8, <1>9, <1>10, <1>11 DEF SchedInv

\* clear_co deletes the coroutines that have ended.
LEMMA ClearInv == SchedInv /\ clear_co => SchedInv'
<1> SUFFICES ASSUME SchedInv, clear_co PROVE SchedInv'
  OBVIOUS
<1>1. /\ phase = "clear" /\ phase' = "poll" /\ destroy_co' = <<>>
      /\ st' = [c \in Co |-> IF c \in Range(destroy_co) THEN "freed" ELSE st[c]]
      /\ UNCHANGED <<time_wheel, w_start, w_index, expire, t_link, ret_link, clock, stack, rfd, is_timeout,
                     ret, item_map, interest, lost, events, active, crashed>>
  BY DEF clear_co, wheelVars, coVars, epollVars, epoll
<1>2. st \in [Co -> States]
  BY DEF SchedInv, TypeOK
<1>3. st' \in [Co -> States]
  BY <1>1, <1>2 DEF States
<1>4. \A c \in Co : st[c] = "ended" <=> c \in Range(destroy_co)
  BY DEF SchedInv, Located
<1>5. \A c \in Co : /\ st'[c] = "wait" <=> st[c] = "wait"
                    /\ st'[c] = "run" <=> st[c] = "run"
                    /\ st'[c] # "ended"
  BY <1>1, <1>4
<1>6. Range(<<>>) = {} /\ IsInjective(<<>>)
  BY DEF Range, IsInjective
<1>7. TypeOK'
  BY <1>1, <1>3 DEF SchedInv, TypeOK, Phases
<1>8. NoDangling' /\ ClockOK' /\ ListsOnce'
  BY <1>1, <1>5 DEF SchedInv, TypeOK, NoDangling, ClockOK, ListsOnce
<1>9. Located'
  BY <1>1, <1>5, <1>6 DEF SchedInv, Located
<1>10. PhaseOK' /\ EventsOK'
  BY <1>1 DEF SchedInv, PhaseOK, EventsOK
<1>11. ItemsOK'
  BY <1>1, <1>5 DEF SchedInv, ItemsOK
<1> QED
  BY <1>7, <1>8, <1>9, <1>10, <1>11 DEF SchedInv

(***************************************************************************)
(* take_all_timeout.  The number of milliseconds since the last turn fits  *)
(* an int, and adding 1 to it leaves the range at most to become negative, *)
(* in which case nothing is taken.                                         *)
(***************************************************************************)
LEMMA ToIntSmall ==
  /\ \A x \in Nat : x < IntHalf => TW!ToInt(x) = x
  /\ TW!ToInt(IntHalf) = -IntHalf
<1>1. 2 * IntHalf \in Nat \ {0}
  OBVIOUS
<1>2. ASSUME NEW x \in Nat, x < IntHalf PROVE TW!ToInt(x) = x
  <2>1. x + IntHalf \in 0 .. (2 * IntHalf) - 1
    BY <1>2
  <2>2. (x + IntHalf) % (2 * IntHalf) = x + IntHalf
    BY <1>1, <2>1, ModSmall
  <2> QED
    BY <2>2 DEF TW!ToInt
<1>3. (IntHalf + IntHalf) % (2 * IntHalf) = 0
  <2> DEFINE m == 2 * IntHalf
             r == m % m
             d == m \div m
  <2>1. m = m * d + r /\ r \in 0 .. m - 1 /\ d \in Int
    BY <1>1, DivMod
  <2>2. m \in Nat \ {0} /\ IntHalf + IntHalf = m
    BY <1>1
  <2> HIDE DEF m, r, d
  <2>3. ~(d >= 2)
    <3> SUFFICES ASSUME d >= 2 PROVE FALSE
      OBVIOUS
    <3>1. m * d >= m * 1 + m
      BY <2>1, <2>2, MulMono
    <3> QED
      BY <2>1, <2>2, <3>1
  <2>4. ~(d <= 0)
    <3> SUFFICES ASSUME d <= 0 PROVE FALSE
      OBVIOUS
    <3>1. m * 1 >= m * d + m
      BY <2>1, <2>2, MulMono
    <3> QED
      BY <2>1, <2>2, <3>1
  <2>5. d = 1
    BY <2>1, <2>3, <2>4
  <2>6. r = 0
    BY <2>1, <2>2, <2>5
  <2> QED
    BY <2>2, <2>6 DEF r, m
<1> QED
  BY <1>2, <1>3 DEF TW!ToInt

\* The number of slots that are taken, if any.
Enough(n) ==
  /\ clock >= w_start
  /\ n = clock - w_start + 1 \/ (n = WSize /\ clock - w_start + 1 >= WSize)

\* What take_all_timeout counts.
LEMMA CountCases ==
  ASSUME SchedInv, ShortPause, clock >= w_start
  PROVE  \/ TW!Count(clock) \in 1 .. WSize /\ Enough(TW!Count(clock))
         \/ TW!Count(clock) = -IntHalf /\ clock - w_start + 1 = IntHalf
<1> DEFINE x == clock - w_start
<1>1. x \in Nat /\ x < IntHalf
  BY DEF SchedInv, TypeOK, ClockOK, ShortPause
<1>2. TW!Elapsed(clock) = TW!ToInt(TW!ToInt(x) + 1)
  BY DEF TW!Elapsed
<1> HIDE DEF x
<1>3. TW!Elapsed(clock) = TW!ToInt(x + 1)
  BY <1>1, <1>2, ToIntSmall
<1>4. CASE x + 1 < IntHalf
  <2>1. TW!Elapsed(clock) = x + 1
    BY <1>1, <1>3, <1>4, ToIntSmall
  <2>2. TW!Count(clock) = IF x + 1 > WSize THEN WSize ELSE x + 1
    BY <2>1 DEF TW!Count
  <2> QED
    BY <1>1, <2>2 DEF Enough, x
<1>5. CASE x + 1 = IntHalf
  <2>1. TW!Elapsed(clock) = -IntHalf
    BY <1>3, <1>5, ToIntSmall
  <2>2. TW!Count(clock) = -IntHalf
    BY <2>1 DEF TW!Count
  <2> QED
    BY <1>5, <2>2 DEF x
<1> QED
  BY <1>1, <1>4, <1>5

Taken(n) == {(w_index + k) % WSize : k \in 0 .. n - 1}

\* What take_all_timeout does to the empty ret_link and the wheel.
Takes(n) ==
  /\ n \in 1 .. WSize /\ Enough(n) /\ Taken(n) \subseteq TW!Slots
  /\ time_wheel' = [s \in TW!Slots |-> IF s \in Taken(n) THEN <<>> ELSE time_wheel[s]]
  /\ t_link' = [c \in Co |-> IF t_link[c] \in Taken(n) THEN TW!RetLink ELSE t_link[c]]
  /\ ret_link' \in Seq(Co) /\ IsInjective(ret_link')
  /\ Range(ret_link') = {c \in Co : t_link[c] \in Taken(n)}
  /\ w_start' = clock /\ w_index' = w_index + n - 1
  /\ expire' = expire

\* take_all_timeout takes, or the clock is behind it, or its count has become negative.
LEMMA TakeCases ==
  ASSUME SchedInv, ShortPause, ret_link = <<>>, TW!TakeAllTimeout(clock)
  PROVE  \/ \E n \in 1 .. WSize : Takes(n)
         \/ /\ clock < w_start \/ clock - w_start + 1 = IntHalf
            /\ UNCHANGED <<time_wheel, w_start, w_index, expire, t_link, ret_link>>
<1> DEFINE n == TW!Count(clock)
<1>1. clock \in Nat /\ w_start \in Nat /\ w_index \in Nat
  BY DEF SchedInv, TypeOK
<1>2. CASE n = -IntHalf /\ clock - w_start + 1 = IntHalf
  <2>1. ~(n >= 0)
    BY <1>2
  <2>2. UNCHANGED TW!wheelVars
    BY <2>1 DEF TW!TakeAllTimeout
  <2> QED
    BY <1>2, <2>2 DEF TW!wheelVars
<1>3. CASE n \in 1 .. WSize /\ Enough(n)
  <2>1. TW!TakenSlots(clock) = Taken(n)
    BY DEF TW!TakenSlots, Taken
  <2>2. /\ ret_link' = ret_link \o RingJoin(time_wheel, w_index, n, WSize)
        /\ time_wheel' = [s \in TW!Slots |-> IF s \in Taken(n) THEN <<>> ELSE time_wheel[s]]
        /\ t_link' = [c \in Co |-> IF t_link[c] \in Taken(n) THEN TW!RetLink ELSE t_link[c]]
        /\ w_start' = clock /\ w_index' = w_index + n - 1 /\ expire' = expire
    BY <1>1, <1>3, <2>1, SameFlatten DEF TW!TakeAllTimeout, RingJoin, Enough
  <2> HIDE DEF n
  <2>3. \A k \in 0 .. n - 1 : (w_index + k) % WSize \in TW!Slots
    <3> TAKE k \in 0 .. n - 1
    <3>1. w_index + k \in Int
      BY <1>1, <1>3
    <3> QED
      BY <3>1, DivMod DEF TW!Slots
  <2>4. Taken(n) \subseteq TW!Slots
    BY <2>3 DEF Taken
  <2>5. \A s \in TW!Slots : /\ IsInjective(time_wheel[s]) /\ time_wheel[s] \in Seq(Co)
                            /\ Range(time_wheel[s]) = {c \in Co : t_link[c] = s}
    <3> TAKE s \in TW!Slots
    <3>1. IsInjective(time_wheel[s]) /\ time_wheel[s] \in Seq(Co)
      BY DEF SchedInv, ListsOnce, TypeOK
    <3>2. Range(time_wheel[s]) \subseteq Co
      BY <3>1 DEF Range
    <3>3. \A c \in Co : t_link[c] = s <=> c \in Range(time_wheel[s])
      BY DEF SchedInv, Located
    <3> QED
      BY <3>1, <3>2, <3>3
  <2> DEFINE R == {p \in Co \X Co : p[1] # p[2]}
  <2>6. RingOrdered(time_wheel, w_index, n, WSize, R)
    <3>1. ASSUME NEW s \in 0 .. WSize - 1 PROVE Ordered(time_wheel[s], R)
      <4>1. IsInjective(time_wheel[s]) /\ time_wheel[s] \in Seq(Co)
        BY <2>5 DEF TW!Slots
      <4>2. \A j \in DOMAIN time_wheel[s] : time_wheel[s][j] \in Co
        BY <4>1
      <4>3. DOMAIN time_wheel[s] \subseteq Int
        BY <4>1
      <4> QED
        BY <4>1, <4>2, <4>3 DEF Ordered, IsInjective
    <3>2. ASSUME NEW j \in 0 .. n - 1, NEW k \in 0 .. n - 1, j < k,
                 NEW x \in Range(time_wheel[(w_index + j) % WSize]),
                 NEW y \in Range(time_wheel[(w_index + k) % WSize])
          PROVE  <<x, y>> \in R
      <4>1. x \in Co /\ y \in Co /\ t_link[x] = (w_index + j) % WSize /\ t_link[y] = (w_index + k) % WSize
        BY <2>3, <2>5
      <4>2. x # y
        <5> SUFFICES ASSUME x = y PROVE FALSE
          OBVIOUS
        <5>1. (w_index + j) % WSize = (w_index + k) % WSize
          BY <4>1
        <5>2. j \in 0 .. WSize - 1 /\ k \in 0 .. WSize - 1
          BY <1>3
        <5>3. j = k
          BY <1>1, <5>1, <5>2, ModInj
        <5> QED
          BY <3>2, <5>3
      <4> QED
        BY <4>1, <4>2
    <3> HIDE DEF R
    <3> QED
      BY <3>1, <3>2 DEF RingOrdered
  <2> DEFINE q == RingJoin(time_wheel, w_index, n, WSize)
  <2>7. q \in Seq(Co) /\ Range(q) = RingRange(time_wheel, w_index, n, WSize) /\ Ordered(q, R)
    <3>1. time_wheel \in [0 .. WSize - 1 -> Seq(Co)] /\ n \in 0 .. WSize /\ WSize \in Nat \ {0}
      BY <1>3 DEF SchedInv, TypeOK, TW!Slots
    <3> HIDE DEF R
    <3> QED
      BY <1>1, <2>6, <3>1, RingList
  <2>8. RingRange(time_wheel, w_index, n, WSize) = {c \in Co : t_link[c] \in Taken(n)}
    <3>1. \A k \in 0 .. n - 1 : Range(time_wheel[(w_index + k) % WSize])
                                  = {c \in Co : t_link[c] = (w_index + k) % WSize}
      BY <2>3, <2>5
    <3> QED
      BY <3>1 DEF RingRange, Taken
  <2> HIDE DEF q
  <2>9. ret_link' = q
    BY <2>2, <2>7 DEF q
  <2>10. IsInjective(q)
    <3>1. DOMAIN q = 1 .. Len(q) /\ Len(q) \in Nat
      BY <2>7
    <3>2. \A j, k \in DOMAIN q : j < k => q[j] # q[k]
      BY <2>7 DEF Ordered
    <3> QED
      BY <3>1, <3>2 DEF IsInjective
  <2>11. Takes(n)
    BY <1>3, <2>2, <2>4, <2>7, <2>8, <2>9, <2>10 DEF Takes
  <2> QED
    BY <1>3, <2>11
<1>4. CASE clock < w_start
  <2>1. UNCHANGED TW!wheelVars
    BY <1>1, <1>4 DEF TW!TakeAllTimeout
  <2> QED
    BY <1>4, <2>1 DEF TW!wheelVars
<1> QED
  BY <1>1, <1>2, <1>3, <1>4, CountCases

\* Every item whose slot is taken is on ret_link, once, and in no slot.
LEMMA TakeInv == ShortPause /\ SchedInv /\ Take => SchedInv'
<1> SUFFICES ASSUME ShortPause, SchedInv, Take PROVE SchedInv'
  OBVIOUS
<1>1. /\ phase = "take" /\ phase' = "merge" /\ TW!TakeAllTimeout(clock)
      /\ UNCHANGED <<clock, st, stack, rfd, is_timeout, ret, item_map, interest, lost, events, active,
                     destroy_co, crashed>>
  BY DEF Take, coVars, epollVars, epoll
<1>2. ret_link = <<>> /\ stack = <<>> /\ events = <<>> /\ Range(ret_link) = {} /\ Range(events) = {}
  BY <1>1 DEF SchedInv, PhaseOK, Range
<1>3. /\ time_wheel \in [TW!Slots -> Seq(Co)] /\ t_link \in [Co -> TW!Links] /\ clock \in Nat
      /\ w_start \in Nat /\ w_index \in Nat
  BY DEF SchedInv, TypeOK
<1>4. Range(<<>>) = {} /\ IsInjective(<<>>)
  BY DEF Range, IsInjective
<1>5. NoDangling' /\ PhaseOK' /\ EventsOK'
  BY <1>1, <1>2 DEF SchedInv, NoDangling, PhaseOK, EventsOK
<1>6. ASSUME UNCHANGED <<time_wheel, w_start, w_index, expire, t_link, ret_link>> PROVE SchedInv'
  <2>1. TypeOK'
    BY <1>1, <1>6 DEF SchedInv, TypeOK, Phases
  <2>2. Located' /\ ListsOnce' /\ ItemsOK' /\ ClockOK'
    BY <1>1, <1>6 DEF SchedInv, Located, ListsOnce, ItemsOK, ClockOK
  <2> QED
    BY <1>5, <2>1, <2>2 DEF SchedInv
<1>7. ASSUME NEW n \in 1 .. WSize, Takes(n) PROVE SchedInv'
  <2>1. /\ Taken(n) \subseteq TW!Slots
        /\ time_wheel' = [s \in TW!Slots |-> IF s \in Taken(n) THEN <<>> ELSE time_wheel[s]]
        /\ t_link' = [c \in Co |-> IF t_link[c] \in Taken(n) THEN TW!RetLink ELSE t_link[c]]
        /\ ret_link' \in Seq(Co) /\ IsInjective(ret_link')
        /\ Range(ret_link') = {c \in Co : t_link[c] \in Taken(n)}
        /\ w_start' = clock /\ w_index' = w_index + n - 1 /\ expire' = expire
    BY <1>7 DEF Takes
  <2>2. /\ time_wheel' \in [TW!Slots -> Seq(Co)] /\ t_link' \in [Co -> TW!Links] /\ w_index' \in Nat
        /\ w_start' \in Nat
    BY <1>3, <2>1, LinkFacts
  <2>3. TypeOK'
    BY <1>1, <2>1, <2>2 DEF SchedInv, TypeOK, Phases
  <2>4. \A d \in Co : t_link[d] # TW!RetLink
    BY <1>2 DEF SchedInv, Located
  <2>5. Located'
    <3>1. ASSUME NEW d \in Co
          PROVE  /\ t_link'[d] = TW!ActiveLink <=> d \in Range(active')
                 /\ t_link'[d] = TW!RetLink <=> d \in Range(ret_link')
                 /\ \A s \in TW!Slots : t_link'[d] = s <=> d \in Range(time_wheel'[s])
                 /\ t_link'[d] # TW!NullLink \/ d \in Range(events') => st'[d] = "wait"
                 /\ d \in Range(events') => d \notin Range(active')
      <4>1. \A s \in TW!Slots : t_link[d] = s <=> d \in Range(time_wheel[s])
        BY DEF SchedInv, Located
      <4>2. t_link[d] = TW!ActiveLink <=> d \in Range(active)
        BY DEF SchedInv, Located
      <4>3. t_link[d] # TW!NullLink => st[d] = "wait"
        BY DEF SchedInv, Located
      <4>4. CASE t_link[d] \in Taken(n)
        <5>1. t_link'[d] = TW!RetLink /\ d \in Range(ret_link') /\ t_link[d] \in TW!Slots
          BY <2>1, <4>4
        <5>2. \A s \in TW!Slots : d \notin Range(time_wheel'[s])
          BY <1>4, <2>1, <4>1, <4>4
        <5> QED
          BY <1>1, <1>2, <4>2, <4>3, <5>1, <5>2, LinkFacts
      <4>5. CASE t_link[d] \notin Taken(n)
        <5>1. t_link'[d] = t_link[d] /\ d \notin Range(ret_link')
          BY <2>1, <4>5
        <5>2. \A s \in TW!Slots : t_link[d] = s <=> d \in Range(time_wheel'[s])
          BY <1>4, <2>1, <4>1, <4>5
        <5> QED
          BY <1>1, <1>2, <2>4, <4>2, <4>3, <5>1, <5>2
      <4> QED
        BY <4>4, <4>5
    <3>2. ASSUME NEW d \in Co
          PROVE  /\ st'[d] = "run" <=> d \in Range(stack')
                 /\ st'[d] = "ended" <=> d \in Range(destroy_co')
      BY <1>1 DEF SchedInv, Located
    <3>3. IsInjective(active') /\ IsInjective(stack') /\ IsInjective(destroy_co')
      BY <1>1 DEF SchedInv, Located
    <3> QED
      BY <3>1, <3>2, <3>3 DEF Located
  <2>6. ListsOnce'
    <3>1. \A s \in TW!Slots : IsInjective(time_wheel'[s])
      BY <1>4, <2>1 DEF SchedInv, ListsOnce
    <3> QED
      BY <1>1, <2>1, <3>1 DEF SchedInv, ListsOnce
  <2>7. ItemsOK'
    <3> SUFFICES ASSUME NEW d \in Co
                 PROVE  /\ t_link'[d] \in TW!Slots \cup {TW!RetLink} => expire[d] > 0
                        /\ ~is_timeout[d]
      BY <1>1, <2>1 DEF SchedInv, ItemsOK
    <3>1. t_link[d] \in TW!Slots \cup {TW!RetLink} => expire[d] > 0
      BY DEF SchedInv, ItemsOK
    <3>2. ~is_timeout[d]
      BY <1>1 DEF SchedInv, ItemsOK
    <3> QED
      BY <2>1, <3>1, <3>2
  <2>8. ClockOK'
    <3>1. Epoch <= w_start /\ w_start <= clock
      BY <1>7 DEF SchedInv, ClockOK, Takes, Enough
    <3> QED
      BY <1>1, <1>3, <2>1, <3>1 DEF ClockOK
  <2> QED
    BY <1>5, <2>3, <2>5, <2>6, <2>7, <2>8 DEF SchedInv
<1> QED
  BY <1>1, <1>2, <1>6, <1>7, TakeCases

-----------------------------------------------------------------------------
\* Every step of the scheduler.
LEMMA SchedStep == ShortPause /\ SchedInv /\ [Next]_vars => SchedInv'
<1> SUFFICES ASSUME ShortPause, SchedInv, [Next]_vars PROVE SchedInv'
  OBVIOUS
<1>1. CASE UNCHANGED vars
  <2>1. UNCHANGED <<time_wheel, w_start, w_index, expire, t_link, ret_link, clock, st, stack, rfd,
                    is_timeout, ret, item_map, interest, lost, events, active, destroy_co, phase, crashed>>
    BY <1>1 DEF vars, wheelVars, coVars, epollVars, epoll
  <2> QED
    BY <2>1 DEF SchedInv, TypeOK, NoDangling, Located, PhaseOK, ListsOnce, ItemsOK, EventsOK, ClockOK
<1>2. CASE Loop
  BY <1>2, PhasesInv, PollInv, TakeInv, MergeInv, ClearInv, CrashTickInv, HandleEventInv, ResumeInv DEF Loop
<1>3. CASE Tick \/ StepBack
  BY <1>3, CrashTickInv
<1>4. ASSUME NEW c \in Co, Spawn(c) \/ ResumeYielded(c) \/ Yield(c) \/ Finish(c) \/ Register(c)
      PROVE  SchedInv'
  BY <1>4, StartInv, YieldInv, FinishInv, RegisterErrorInv, RegisterForeverInv, RegisterTimerInv DEF Register
<1>5. ASSUME NEW fd \in Fds, CloseFd(fd) PROVE SchedInv'
  BY <1>5, CloseFdInv
<1> QED
  BY <1>1, <1>2, <1>3, <1>4, <1>5 DEF Next

(***************************************************************************)
(* However coroutines use register_event, yield, end and close descriptors *)
(* under one another: a coroutine is in one list, the one its state and    *)
(* its t_link name, event_loop resumes only coroutines that wait, clear_co *)
(* deletes only what nothing refers to, and epoll holds no deleted item.   *)
(***************************************************************************)
THEOREM SchedulerIsConsistent ==
  ASSUME ShortPause
  PROVE  Spec => []SchedulerConsistent
<1>1. SchedInv /\ [Next]_vars => SchedInv'
  BY SchedStep
<1>2. SchedInv => SchedulerConsistent
  BY DEF SchedInv, SchedulerConsistent
<1> QED
  BY <1>1, <1>2, SchedInit, PTL DEF Spec

(***************************************************************************)
(* Timers.  An accepted timeout plus the time of one turn stays below one  *)
(* turn of the wheel; the time of one turn in milliseconds, plus 1, fits   *)
(* an int; and the clock is not set back further behind the last take than *)
(* the smallest timeout, since a timer that is due before w_start is       *)
(* refused.  The wheel of 60000 slots accepts a timeout of exactly 60000,  *)
(* which is not sound: it goes into the slot of now.                       *)
(***************************************************************************)
TimelyUse ==
  /\ MaxLag + 1 < IntHalf
  /\ \A t \in Timeouts : t <= WSize => t + MaxLag < WSize
  /\ \A t \in Timeouts : t > 0 => MaxBack <= t

(***************************************************************************)
(* The slot of an item tells its expiry time, since no item is a full turn *)
(* ahead; what has left the wheel as a timeout was due; no timer was       *)
(* refused.                                                                *)
(***************************************************************************)
SlotTrue ==
  \A c \in Co : t_link[c] \in TW!Slots =>
    /\ w_start <= expire[c] /\ expire[c] < w_start + WSize
    /\ t_link[c] = (w_index + (expire[c] - w_start)) % WSize

DueOnly == \A c \in Co : t_link[c] = TW!RetLink \/ is_timeout[c] => expire[c] <= w_start

NoneRefused == \A c \in Co : expire[c] > 0 => t_link[c] # TW!NullLink

TimeInv == SlotTrue /\ DueOnly /\ NoneRefused

\* Steps that do not touch the timers.
LEMMA TimeKept ==
  ASSUME TimeInv, UNCHANGED <<w_start, w_index, expire, t_link, is_timeout>>
  PROVE  TimeInv'
  BY DEF TimeInv, SlotTrue, DueOnly, NoneRefused

\* add_timeout takes the timer.
LEMMA TimeRegister ==
  ASSUME SchedInv, TimeInv, TimelyUse, NEW c \in Co, NEW fd \in Fds \cup {NoFd}, NEW t \in Timeouts,
         RegisterTimer(c, fd, t)
  PROVE  TimeInv'
<1> DEFINE e == clock + t
           i == TW!IndexOf(e)
<1>1. /\ Running(c) /\ Suspend(c, fd) /\ t > 0 /\ t <= WSize /\ TW!AddTimeout(c, e) /\ UNCHANGED clock
  BY DEF RegisterTimer
<1>2. /\ expire \in [Co -> Nat] /\ t_link \in [Co -> TW!Links] /\ is_timeout \in [Co -> BOOLEAN]
      /\ clock \in Nat /\ w_start \in Nat /\ w_index \in Nat /\ t \in Nat /\ e \in Nat
  BY <1>1 DEF SchedInv, TypeOK
<1>3. w_start <= e /\ e < w_start + WSize
  <2>1. MaxBack <= t /\ t + MaxLag < WSize
    BY <1>1 DEF TimelyUse
  <2>2. w_start <= clock + MaxBack /\ clock <= w_start + MaxLag
    BY DEF SchedInv, ClockOK
  <2> QED
    BY <1>2, <2>1, <2>2
<1>4. TW!Diff(e) = e - w_start
  BY DEF TW!Diff
<1>5. TW!Accepts(e)
  BY <1>2, <1>3, <1>4 DEF TW!Accepts
<1>6. i = (w_index + (e - w_start)) % WSize /\ i \in TW!Slots
  <2>1. i = (w_index + (e - w_start)) % WSize
    BY <1>4 DEF TW!IndexOf
  <2>2. w_index + (e - w_start) \in Int
    BY <1>2
  <2> QED
    BY <2>1, <2>2, DivMod DEF TW!Slots
<1>7. /\ expire' = [expire EXCEPT ![c] = e] /\ t_link' = [t_link EXCEPT ![c] = i]
      /\ is_timeout' = [is_timeout EXCEPT ![c] = FALSE] /\ UNCHANGED <<w_start, w_index, clock>>
  BY <1>1, <1>5 DEF TW!AddTimeout, Suspend
<1> HIDE DEF e, i
<1>8. SlotTrue'
  BY <1>2, <1>3, <1>6, <1>7 DEF TimeInv, SlotTrue
<1>9. DueOnly'
  <2> SUFFICES ASSUME NEW d \in Co, t_link'[d] = TW!RetLink \/ is_timeout'[d] PROVE expire'[d] <= w_start'
    BY DEF DueOnly
  <2>1. d # c
    BY <1>2, <1>6, <1>7, LinkFacts
  <2> QED
    BY <1>2, <1>7, <2>1 DEF TimeInv, DueOnly
<1>10. NoneRefused'
  BY <1>2, <1>6, <1>7, LinkFacts DEF TimeInv, NoneRefused
<1> QED
  BY <1>8, <1>9, <1>10 DEF TimeInv

\* register_event without a timer, and a wait that is over.
LEMMA TimeForeverResume ==
  ASSUME SchedInv, TimeInv, NEW c \in Co,
         Resume(c) \/ \E fd \in Fds \cup {NoFd} : RegisterForever(c, fd)
  PROVE  TimeInv'
<1>1. /\ expire \in [Co -> Nat] /\ t_link \in [Co -> TW!Links] /\ is_timeout \in [Co -> BOOLEAN]
  BY DEF SchedInv, TypeOK
<1>2. CASE Resume(c)
  <2>1. /\ t_link' = [t_link EXCEPT ![c] = TW!NullLink] /\ expire' = [expire EXCEPT ![c] = 0]
        /\ is_timeout' = [is_timeout EXCEPT ![c] = FALSE] /\ UNCHANGED <<w_start, w_index, clock>>
    BY <1>2 DEF Resume
  <2> QED
    BY <1>1, <2>1, LinkFacts DEF TimeInv, SlotTrue, DueOnly, NoneRefused
<1>3. CASE \E fd \in Fds \cup {NoFd} : RegisterForever(c, fd)
  <2>1. /\ is_timeout' = [is_timeout EXCEPT ![c] = FALSE]
        /\ UNCHANGED <<w_start, w_index, clock, expire, t_link>>
    BY <1>3 DEF RegisterForever, Suspend, wheelVars
  <2> QED
    BY <1>1, <2>1 DEF TimeInv, SlotTrue, DueOnly, NoneRefused
<1> QED
  BY <1>2, <1>3

\* The clock moves; the timer of a coroutine whose event came is unlinked; timeouts are marked.
LEMMA TimeOthers ==
  ASSUME SchedInv, TimeInv, Tick \/ StepBack \/ Merge \/ \E c \in Co : HandleEvent(c)
  PROVE  TimeInv'
<1>1. /\ expire \in [Co -> Nat] /\ t_link \in [Co -> TW!Links] /\ is_timeout \in [Co -> BOOLEAN]
      /\ clock \in Nat /\ w_start \in Nat /\ w_index \in Nat
  BY DEF SchedInv, TypeOK
<1>2. CASE Tick \/ StepBack
  <2>1. UNCHANGED <<w_start, w_index, expire, t_link, is_timeout>>
    BY <1>2 DEF Tick, StepBack, TW!Tick, TW!StepBack, TW!wheelVars, coVars
  <2> QED
    BY <2>1, TimeKept
<1>3. CASE Merge
  <2>1. /\ is_timeout' = [c \in Co |-> is_timeout[c] \/ c \in Range(ret_link)]
        /\ t_link' = [c \in Co |-> IF c \in Range(ret_link) THEN TW!ActiveLink ELSE t_link[c]]
        /\ UNCHANGED <<w_start, w_index, expire, clock>>
    BY <1>3 DEF Merge
  <2>2. \A c \in Co : c \in Range(ret_link) => t_link[c] = TW!RetLink
    BY DEF SchedInv, Located
  <2>3. SlotTrue' /\ NoneRefused'
    BY <1>1, <2>1, LinkFacts DEF TimeInv, SlotTrue, NoneRefused
  <2>4. DueOnly'
    BY <1>1, <2>1, <2>2, LinkFacts DEF TimeInv, DueOnly
  <2> QED
    BY <2>3, <2>4 DEF TimeInv
<1>4. ASSUME NEW c \in Co, HandleEvent(c) PROVE TimeInv'
  <2>1. /\ t_link' = t_link \/ t_link' = [t_link EXCEPT ![c] = TW!ActiveLink]
        /\ UNCHANGED <<w_start, w_index, expire, clock, is_timeout>>
    BY <1>4 DEF HandleEvent, Unlinked, TW!Unlink, wheelVars, coVars
  <2> QED
    BY <1>1, <2>1, LinkFacts DEF TimeInv, SlotTrue, DueOnly, NoneRefused
<1> QED
  BY <1>2, <1>3, <1>4

\* The slots that are taken are the slots of the items that are due.
LEMMA TakenIsDue ==
  ASSUME SchedInv, TimeInv, NEW n \in 1 .. WSize, Enough(n), NEW c \in Co, t_link[c] \in TW!Slots
  PROVE  t_link[c] \in Taken(n) <=> expire[c] <= clock
<1> DEFINE d == expire[c] - w_start
<1>1. /\ expire[c] \in Nat /\ clock \in Nat /\ w_start \in Nat /\ w_index \in Nat
      /\ w_start <= expire[c] /\ expire[c] < w_start + WSize /\ w_start <= clock
      /\ t_link[c] = (w_index + d) % WSize
  BY DEF SchedInv, TypeOK, Enough, TimeInv, SlotTrue
<1>2. d \in 0 .. WSize - 1
  BY <1>1
<1>3. t_link[c] \in Taken(n) <=> d \in 0 .. n - 1
  <2>1. ASSUME t_link[c] \in Taken(n) PROVE d \in 0 .. n - 1
    <3>1. PICK k \in 0 .. n - 1 : t_link[c] = (w_index + k) % WSize
      BY <2>1 DEF Taken
    <3>2. k \in 0 .. WSize - 1 /\ (w_index + d) % WSize = (w_index + k) % WSize
      BY <1>1, <3>1
    <3>3. d = k
      BY <1>1, <1>2, <3>2, ModInj
    <3> QED
      BY <3>3
  <2>2. ASSUME d \in 0 .. n - 1 PROVE t_link[c] \in Taken(n)
    BY <1>1, <2>2 DEF Taken
  <2> QED
    BY <2>1, <2>2
<1>4. d \in 0 .. n - 1 <=> expire[c] <= clock
  BY <1>1, <1>2 DEF Enough
<1> QED
  BY <1>3, <1>4

\* take_all_timeout takes what is due and leaves the rest where it belongs.
LEMMA TimeTake ==
  ASSUME SchedInv, TimeInv, TimelyUse, Take
  PROVE  TimeInv'
<1>1. /\ phase = "take" /\ TW!TakeAllTimeout(clock) /\ UNCHANGED <<clock, is_timeout>>
  BY DEF Take, coVars
<1>2. /\ expire \in [Co -> Nat] /\ t_link \in [Co -> TW!Links] /\ clock \in Nat /\ w_start \in Nat
      /\ w_index \in Nat /\ clock - w_start + 1 < IntHalf
  BY DEF SchedInv, TypeOK, ClockOK, TimelyUse
<1>3. ret_link = <<>> /\ ShortPause
  BY <1>1 DEF SchedInv, PhaseOK, TimelyUse, ShortPause
<1>4. \/ \E n \in 1 .. WSize : Takes(n)
      \/ UNCHANGED <<w_start, w_index, expire, t_link>>
  BY <1>1, <1>2, <1>3, TakeCases
<1>5. CASE UNCHANGED <<w_start, w_index, expire, t_link>>
  BY <1>1, <1>5, TimeKept
<1>6. ASSUME NEW n \in 1 .. WSize, Takes(n) PROVE TimeInv'
  <2>1. /\ Enough(n) /\ Taken(n) \subseteq TW!Slots
        /\ t_link' = [c \in Co |-> IF t_link[c] \in Taken(n) THEN TW!RetLink ELSE t_link[c]]
        /\ w_start' = clock /\ w_index' = w_index + n - 1 /\ expire' = expire
    BY <1>6 DEF Takes
  <2>2. SlotTrue'
    <3> SUFFICES ASSUME NEW c \in Co, t_link'[c] \in TW!Slots
                 PROVE  /\ clock <= expire[c] /\ expire[c] < clock + WSize
                        /\ t_link'[c] = ((w_index + n - 1) + (expire[c] - clock)) % WSize
      BY <2>1 DEF SlotTrue
    <3>1. t_link'[c] = t_link[c] /\ t_link[c] \in TW!Slots /\ t_link[c] \notin Taken(n)
      BY <2>1, LinkFacts
    <3>2. /\ expire[c] \in Nat /\ expire[c] > clock /\ expire[c] < w_start + WSize
          /\ t_link[c] = (w_index + (expire[c] - w_start)) % WSize
      BY <1>2, <2>1, <3>1, TakenIsDue DEF TimeInv, SlotTrue
    <3>3. n = clock - w_start + 1
      BY <1>2, <2>1, <3>2 DEF Enough
    <3>4. (w_index + n - 1) + (expire[c] - clock) = w_index + (expire[c] - w_start)
      BY <1>2, <3>2, <3>3
    <3> QED
      BY <1>2, <3>1, <3>2, <3>4
  <2>3. DueOnly'
    <3> SUFFICES ASSUME NEW c \in Co, t_link'[c] = TW!RetLink \/ is_timeout[c] PROVE expire[c] <= clock
      BY <1>1, <2>1 DEF DueOnly
    <3>1. CASE t_link[c] \in Taken(n)
      BY <2>1, <3>1, TakenIsDue
    <3>2. CASE t_link[c] \notin Taken(n)
      <4>1. expire[c] <= w_start
        BY <2>1, <3>2 DEF TimeInv, DueOnly
      <4> QED
        BY <1>2, <2>1, <4>1 DEF Enough
    <3> QED
      BY <3>1, <3>2
  <2>4. NoneRefused'
    BY <2>1, LinkFacts DEF TimeInv, NoneRefused
  <2> QED
    BY <2>2, <2>3, <2>4 DEF TimeInv
<1> QED
  BY <1>4, <1>5, <1>6

\* Every step keeps the timers true.
LEMMA TimeStep == TimelyUse /\ SchedInv /\ TimeInv /\ [Next]_vars => TimeInv'
<1> SUFFICES ASSUME TimelyUse, SchedInv, TimeInv, [Next]_vars PROVE TimeInv'
  OBVIOUS
<1>1. CASE UNCHANGED vars
  <2>1. UNCHANGED <<w_start, w_index, expire, t_link, is_timeout>>
    BY <1>1 DEF vars, wheelVars, coVars
  <2> QED
    BY <2>1, TimeKept
<1>2. CASE Loop
  <2>1. CASE BeginLoop \/ Poll \/ EndEvents \/ EndDrain \/ Func \/ clear_co
             \/ \E c \in Co \cup {Leaked} : CrashEvent(c)
    <3>1. UNCHANGED <<w_start, w_index, expire, t_link, is_timeout>>
      BY <2>1 DEF BeginLoop, Poll, EndEvents, EndDrain, Func, clear_co, CrashEvent, wheelVars, coVars
    <3> QED
      BY <3>1, TimeKept
  <2> QED
    BY <1>2, <2>1, TimeTake, TimeOthers, TimeForeverResume DEF Loop
<1>3. CASE Tick \/ StepBack
  BY <1>3, TimeOthers
<1>4. ASSUME NEW c \in Co, Spawn(c) \/ ResumeYielded(c) \/ Yield(c) \/ Finish(c) PROVE TimeInv'
  <2>1. UNCHANGED <<w_start, w_index, expire, t_link, is_timeout>>
    BY <1>4 DEF Spawn, ResumeYielded, Yield, Finish, wheelVars, coVars
  <2> QED
    BY <2>1, TimeKept
<1>5. ASSUME NEW c \in Co, Register(c) PROVE TimeInv'
  <2>1. ASSUME NEW fd \in Fds \cup {NoFd}, NEW t \in Timeouts, RegisterError(c, fd, t) PROVE TimeInv'
    <3>1. UNCHANGED <<w_start, w_index, expire, t_link, is_timeout>>
      BY <2>1 DEF RegisterError, wheelVars
    <3> QED
      BY <3>1, TimeKept
  <2> QED
    BY <1>5, <2>1, TimeRegister, TimeForeverResume DEF Register
<1>6. ASSUME NEW fd \in Fds, CloseFd(fd) PROVE TimeInv'
  <2>1. UNCHANGED <<w_start, w_index, expire, t_link, is_timeout>>
    BY <1>6 DEF CloseFd, wheelVars, coVars
  <2> QED
    BY <2>1, TimeKept
<1> QED
  BY <1>1, <1>2, <1>3, <1>4, <1>5, <1>6 DEF Next

\* The invariant with the timers.
LEMMA TimelyInv == TimelyUse => (Spec => [](SchedInv /\ TimeInv))
<1> SUFFICES ASSUME TimelyUse PROVE Spec => [](SchedInv /\ TimeInv)
  OBVIOUS
<1>1. Init => TimeInv
  <2> SUFFICES ASSUME Init PROVE TimeInv
    OBVIOUS
  <2>1. /\ expire = [c \in Co |-> 0] /\ t_link = [c \in Co |-> TW!NullLink]
        /\ is_timeout = [c \in Co |-> FALSE]
    BY DEF Init, TW!Init
  <2> QED
    BY <2>1, LinkFacts DEF TimeInv, SlotTrue, DueOnly, NoneRefused
<1>2. ShortPause
  BY DEF TimelyUse, ShortPause
<1>3. (SchedInv /\ TimeInv) /\ [Next]_vars => (SchedInv /\ TimeInv)'
  BY <1>2, SchedStep, TimeStep
<1> QED
  BY <1>1, <1>3, SchedInit, PTL DEF Spec

(***************************************************************************)
(* With timely use, register_event reports a timeout only for a timer that *)
(* was due at the last take, whatever comes together in one turn of        *)
(* event_loop, and also when the clock has been set back in between.       *)
(***************************************************************************)
THEOREM TimeoutsAreHonest ==
  ASSUME TimelyUse
  PROVE  Spec => []TimeoutHonest
<1>1. SchedInv /\ TimeInv => TimeoutHonest
  BY DEF SchedInv, ItemsOK, TimeInv, DueOnly, TimeoutHonest
<1> QED
  BY <1>1, TimelyInv, PTL

(***************************************************************************)
(* Without a timeout of 0, which register_event rejects after it has given *)
(* its item to epoll, no item is left behind.                              *)
(***************************************************************************)
NoZero == 0 \notin Timeouts

NoneLeaked == (\A f \in Fds : item_map[f] # Leaked) /\ Leaked \notin Range(events)

\* add and del by a coroutine leave no item behind, and epoll_wait finds none.
LEMMA LeakStep ==
  ASSUME NoZero, SchedInv, NoneLeaked, [Next]_vars
  PROVE  NoneLeaked'
<1>1. item_map \in [Fds -> Co \cup {NoCo, Leaked}] /\ rfd \in [Co -> Fds \cup {NoFd}]
      /\ events \in Seq(Co \cup {Leaked})
  BY DEF SchedInv, TypeOK
<1>2. CASE UNCHANGED <<item_map, events>>
  BY <1>2 DEF NoneLeaked
<1>3. ASSUME NEW c \in Co, NEW fd \in Fds \cup {NoFd}, EpollAdd(fd, c), UNCHANGED events
      PROVE  NoneLeaked'
  BY <1>1, <1>3 DEF EpollAdd, epoll, NoneLeaked
<1>4. ASSUME NEW c \in Co, EpollDel(rfd[c]), UNCHANGED events
      PROVE  NoneLeaked'
  BY <1>1, <1>4 DEF EpollDel, epoll, NoneLeaked
<1>5. CASE Poll
  <2>1. PICK S \in SUBSET {f \in Fds : interest[f] # NoCo} : \E fs \in SetToSeqs(S) :
          events' = [k \in DOMAIN fs |-> interest[fs[k]]]
    BY <1>5 DEF Poll
  <2>2. PICK fs \in SetToSeqs(S) : events' = [k \in DOMAIN fs |-> interest[fs[k]]]
    BY <2>1
  <2>3. \A k \in DOMAIN fs : fs[k] \in S
    BY <2>2 DEF SetToSeqs
  <2>4. \A f \in S : interest[f] # Leaked
    BY DEF SchedInv, NoDangling, NoneLeaked
  <2>5. Leaked \notin Range(events')
    BY <2>2, <2>3, <2>4 DEF Range
  <2>6. UNCHANGED item_map
    BY <1>5 DEF Poll, epollVars, epoll
  <2> QED
    BY <2>5, <2>6 DEF NoneLeaked
<1>6. ASSUME NEW c \in Co, HandleEvent(c) PROVE NoneLeaked'
  <2>1. UNCHANGED item_map /\ events # <<>> /\ (events' = <<>> \/ events' = Tail(events))
    BY <1>6 DEF HandleEvent, epollVars, epoll
  <2>2. Range(Tail(events)) \subseteq Range(events) /\ Range(<<>>) = {}
    BY <1>1, <2>1, PopList DEF Range
  <2> QED
    BY <2>1, <2>2 DEF NoneLeaked
<1>7. CASE UNCHANGED vars
  BY <1>2, <1>7 DEF vars, epollVars, epoll
<1>8. CASE Loop
  <2>1. CASE BeginLoop \/ EndEvents \/ Take \/ Merge \/ EndDrain \/ Func \/ clear_co
             \/ \E c \in Co \cup {Leaked} : CrashEvent(c)
    BY <1>2, <2>1 DEF BeginLoop, EndEvents, Take, Merge, EndDrain, Func, clear_co, CrashEvent, epollVars, epoll
  <2>2. ASSUME NEW c \in Co, Resume(c) PROVE NoneLeaked'
    BY <1>4, <2>2 DEF Resume
  <2> QED
    BY <1>5, <1>6, <1>8, <2>1, <2>2 DEF Loop
<1>9. CASE Tick \/ StepBack
  BY <1>2, <1>9 DEF Tick, StepBack, epollVars, epoll
<1>10. ASSUME NEW c \in Co, Spawn(c) \/ ResumeYielded(c) \/ Yield(c) \/ Finish(c) PROVE NoneLeaked'
  BY <1>2, <1>10 DEF Spawn, ResumeYielded, Yield, Finish, epollVars, epoll
<1>11. ASSUME NEW c \in Co, Register(c) PROVE NoneLeaked'
  <2>1. ASSUME NEW fd \in Fds \cup {NoFd}, RegisterForever(c, fd) PROVE NoneLeaked'
    BY <1>3, <2>1 DEF RegisterForever, Suspend
  <2>2. ASSUME NEW fd \in Fds \cup {NoFd}, NEW t \in Timeouts, RegisterTimer(c, fd, t) PROVE NoneLeaked'
    BY <1>3, <2>2 DEF RegisterTimer, Suspend
  <2>3. ASSUME NEW fd \in Fds \cup {NoFd}, NEW t \in Timeouts, RegisterError(c, fd, t) PROVE NoneLeaked'
    BY <1>2, <2>3 DEF RegisterError, NoZero, epoll
  <2> QED
    BY <1>11, <2>1, <2>2, <2>3 DEF Register
<1>12. ASSUME NEW fd \in Fds, CloseFd(fd) PROVE NoneLeaked'
  BY <1>2, <1>12 DEF CloseFd, EpollClosed
<1> QED
  BY <1>7, <1>8, <1>9, <1>10, <1>11, <1>12 DEF Next

(***************************************************************************)
(* With timely use and no timeout of 0, event_loop never uses a null       *)
(* t_link or an uninitialized t_item.                                      *)
(***************************************************************************)
THEOREM LoopNeverCrashes ==
  ASSUME TimelyUse, NoZero
  PROVE  Spec => []NoCrash
<1>1. Init => NoneLeaked /\ NoCrash
  <2> SUFFICES ASSUME Init PROVE NoneLeaked /\ NoCrash
    OBVIOUS
  <2>1. item_map = [f \in Fds |-> NoCo] /\ events = <<>> /\ crashed = FALSE
    BY DEF Init, EpollInit
  <2> QED
    BY <2>1 DEF NoneLeaked, NoCrash, Range
<1>2. SchedInv /\ TimeInv /\ NoneLeaked /\ NoCrash /\ [Next]_vars => NoneLeaked' /\ NoCrash'
  <2> SUFFICES ASSUME SchedInv, TimeInv, NoneLeaked, NoCrash, [Next]_vars PROVE NoneLeaked' /\ NoCrash'
    OBVIOUS
  <2>1. NoneLeaked'
    BY LeakStep
  <2>2. ASSUME NEW c \in Co \cup {Leaked}, CrashEvent(c) PROVE FALSE
    <3>1. events # <<>> /\ Head(events) = c /\ BadItem(c)
      BY <2>2 DEF CrashEvent
    <3>2. c \in Range(events)
      BY <3>1, PopList DEF SchedInv, TypeOK
    <3>3. c \in Co
      BY <3>2 DEF NoneLeaked
    <3>4. expire[c] > 0 /\ t_link[c] = TW!NullLink
      BY <3>1, <3>3 DEF BadItem
    <3> QED
      BY <3>3, <3>4 DEF TimeInv, NoneRefused
  <2>3. crashed' = crashed
    <3>1. CASE Loop
      BY <2>2, <3>1 DEF Loop, BeginLoop, Poll, EndEvents, Take, Merge, EndDrain, Func, clear_co,
                        HandleEvent, Resume
    <3>2. CASE Tick \/ StepBack \/ UNCHANGED vars
      BY <3>2 DEF Tick, StepBack, vars
    <3>3. CASE \E c \in Co : Spawn(c) \/ ResumeYielded(c) \/ Yield(c) \/ Finish(c) \/ Register(c)
      BY <3>3 DEF Spawn, ResumeYielded, Yield, Finish, Register, RegisterForever, RegisterTimer, RegisterError
    <3>4. CASE \E fd \in Fds : CloseFd(fd)
      BY <3>4 DEF CloseFd
    <3> QED
      BY <3>1, <3>2, <3>3, <3>4 DEF Next
  <2> QED
    BY <2>1, <2>3 DEF NoCrash
<1> QED
  BY <1>1, <1>2, TimelyInv, PTL DEF Spec

-----------------------------------------------------------------------------
(***************************************************************************)
(* Descriptors.  No descriptor has two waiters, and none is closed while   *)
(* it has one: how the wrappers of one connection use register_event.      *)
(***************************************************************************)
OwnFds == ~SharedFd /\ ~CloseInUse

OneWaiter ==
  \A c, d \in Co : st[c] = "wait" /\ st[d] = "wait" /\ rfd[c] = rfd[d] /\ rfd[c] # NoFd => c = d

WaitInv == lost = {} /\ OneWaiter /\ Registered

\* register_event on a descriptor that nobody waits on.
LEMMA WaitSuspend ==
  ASSUME OwnFds, SchedInv, WaitInv, NEW c \in Co, NEW fd \in Fds \cup {NoFd}, FdFree(fd), Suspend(c, fd),
         st[c] # "wait"
  PROVE  WaitInv'
<1>1. /\ st' = [st EXCEPT ![c] = "wait"] /\ rfd' = [rfd EXCEPT ![c] = fd] /\ lost' = lost \ {c}
      /\ EpollAdd(fd, c)
  BY DEF Suspend
<1>2. /\ st \in [Co -> States] /\ rfd \in [Co -> Fds \cup {NoFd}]
      /\ item_map \in [Fds -> Co \cup {NoCo, Leaked}] /\ interest \in [Fds -> Co \cup {NoCo, Leaked}]
  BY DEF SchedInv, TypeOK
<1>3. ASSUME fd # NoFd, NEW d \in Co, st[d] = "wait" PROVE rfd[d] # fd
  BY <1>3 DEF FdFree, OwnFds, Waiters, WaitInv
<1>4. lost' = {}
  BY <1>1 DEF WaitInv
<1>5. OneWaiter'
  BY <1>1, <1>2, <1>3 DEF WaitInv, OneWaiter
<1>6. fd # NoFd => item_map[fd] \notin Co
  BY <1>2, <1>3 DEF SchedInv, NoDangling
<1>7. fd # NoFd => interest'[fd] = c \/ item_map'[fd] = Leaked
  <2> SUFFICES ASSUME fd # NoFd PROVE interest'[fd] = c \/ item_map'[fd] = Leaked
    OBVIOUS
  <2>1. CASE item_map[fd] = NoCo
    BY <1>1, <1>2, <2>1 DEF EpollAdd
  <2>2. CASE item_map[fd] = Leaked
    BY <1>1, <2>2 DEF EpollAdd, epoll
  <2> QED
    BY <1>2, <1>6, <2>1, <2>2
<1>8. \A f \in Fds : f # fd => interest'[f] = interest[f] /\ item_map'[f] = item_map[f]
  BY <1>1, <1>2 DEF EpollAdd, epoll
<1>9. Registered'
  <2> SUFFICES ASSUME NEW d \in Co, st'[d] = "wait", rfd'[d] # NoFd
               PROVE  interest'[rfd'[d]] = d \/ item_map'[rfd'[d]] = Leaked
    BY DEF Registered
  <2>1. CASE d = c
    BY <1>1, <1>2, <1>7, <2>1
  <2>2. CASE d # c
    <3>1. st[d] = "wait" /\ rfd'[d] = rfd[d] /\ rfd[d] \in Fds /\ rfd[d] # fd
      BY <1>1, <1>2, <1>3, <2>2
    <3> QED
      BY <1>8, <3>1 DEF WaitInv, Registered
  <2> QED
    BY <2>1, <2>2
<1> QED
  BY <1>4, <1>5, <1>9 DEF WaitInv

\* The rest of register_event deletes its own registration.
LEMMA WaitResume ==
  ASSUME SchedInv, WaitInv, NEW c \in Co, Resume(c)
  PROVE  WaitInv'
<1>1. /\ st' = [st EXCEPT ![c] = "run"] /\ rfd' = [rfd EXCEPT ![c] = NoFd] /\ lost' = lost \ {c}
      /\ EpollDel(rfd[c]) /\ active # <<>> /\ Head(active) = c
  BY DEF Resume
<1>2. /\ st \in [Co -> States] /\ rfd \in [Co -> Fds \cup {NoFd}] /\ active \in Seq(Co)
      /\ item_map \in [Fds -> Co \cup {NoCo, Leaked}] /\ interest \in [Fds -> Co \cup {NoCo, Leaked}]
  BY DEF SchedInv, TypeOK
<1>3. st[c] = "wait"
  <2>1. c \in Range(active)
    BY <1>1, <1>2, PopList
  <2> QED
    BY <2>1, LinkFacts DEF SchedInv, Located
<1>4. \A f \in Fds : f # rfd[c] => interest'[f] = interest[f] /\ item_map'[f] = item_map[f]
  BY <1>1, <1>2 DEF EpollDel, epoll
<1>5. Registered'
  <2> SUFFICES ASSUME NEW d \in Co, st'[d] = "wait", rfd'[d] # NoFd
               PROVE  interest'[rfd'[d]] = d \/ item_map'[rfd'[d]] = Leaked
    BY DEF Registered
  <2>1. d # c /\ st[d] = "wait" /\ rfd'[d] = rfd[d] /\ rfd[d] \in Fds
    BY <1>1, <1>2
  <2>2. rfd[d] # rfd[c]
    BY <1>2, <1>3, <2>1 DEF WaitInv, OneWaiter
  <2> QED
    BY <1>4, <2>1, <2>2 DEF WaitInv, Registered
<1>6. OneWaiter'
  BY <1>1, <1>2 DEF WaitInv, OneWaiter
<1> QED
  BY <1>1, <1>5, <1>6 DEF WaitInv

\* Steps after which the same coroutines wait on the same descriptors.
LEMMA WaitKept ==
  ASSUME WaitInv, UNCHANGED <<rfd, lost, item_map, interest>>,
         \A c \in Co : st'[c] = "wait" => st[c] = "wait"
  PROVE  WaitInv'
<1>1. OneWaiter'
  BY DEF WaitInv, OneWaiter
<1>2. Registered'
  BY DEF WaitInv, Registered
<1> QED
  BY <1>1, <1>2 DEF WaitInv

\* Every step keeps the waiters registered.
LEMMA WaitStep == OwnFds /\ SchedInv /\ WaitInv /\ [Next]_vars => WaitInv'
<1> SUFFICES ASSUME OwnFds, SchedInv, WaitInv, [Next]_vars PROVE WaitInv'
  OBVIOUS
<1>1. /\ st \in [Co -> States] /\ rfd \in [Co -> Fds \cup {NoFd}]
      /\ item_map \in [Fds -> Co \cup {NoCo, Leaked}] /\ interest \in [Fds -> Co \cup {NoCo, Leaked}]
  BY DEF SchedInv, TypeOK
<1>2. CASE UNCHANGED vars
  BY <1>2, WaitKept DEF vars, coVars, epollVars, epoll
<1>3. CASE Loop
  <2>1. CASE BeginLoop \/ Poll \/ EndEvents \/ Take \/ Merge \/ EndDrain \/ Func
             \/ (\E c \in Co \cup {Leaked} : CrashEvent(c)) \/ \E c \in Co : HandleEvent(c)
    <3>1. UNCHANGED <<st, rfd, lost, item_map, interest>>
      BY <2>1 DEF BeginLoop, Poll, EndEvents, Take, Merge, EndDrain, Func, CrashEvent, HandleEvent,
                  coVars, epollVars, epoll
    <3> QED
      BY <3>1, WaitKept
  <2>2. CASE clear_co
    <3>1. /\ UNCHANGED <<rfd, lost, item_map, interest>>
          /\ st' = [c \in Co |-> IF c \in Range(destroy_co) THEN "freed" ELSE st[c]]
      BY <2>2 DEF clear_co, coVars, epollVars, epoll
    <3>2. \A c \in Co : st'[c] = "wait" => st[c] = "wait"
      BY <3>1
    <3> QED
      BY <3>1, <3>2, WaitKept
  <2> QED
    BY <1>3, <2>1, <2>2, WaitResume DEF Loop
<1>4. CASE Tick \/ StepBack
  BY <1>4, WaitKept DEF Tick, StepBack, coVars, epollVars, epoll
<1>5. ASSUME NEW c \in Co, Spawn(c) \/ ResumeYielded(c) \/ Yield(c) \/ Finish(c) PROVE WaitInv'
  <2>1. /\ UNCHANGED <<rfd, lost, item_map, interest>>
        /\ \E s \in {"run", "yield", "ended"} : st' = [st EXCEPT ![c] = s]
    BY <1>5 DEF Spawn, ResumeYielded, Yield, Finish, coVars, epollVars, epoll
  <2>2. \A d \in Co : st'[d] = "wait" => st[d] = "wait"
    BY <1>1, <2>1
  <2> QED
    BY <2>1, <2>2, WaitKept
<1>6. ASSUME NEW c \in Co, Register(c) PROVE WaitInv'
  <2>1. ASSUME NEW fd \in Fds \cup {NoFd}, Running(c), FdFree(fd), Suspend(c, fd) PROVE WaitInv'
    BY <2>1, TopOfStack, WaitSuspend
  <2>2. ASSUME NEW fd \in Fds \cup {NoFd}, NEW t \in Timeouts, RegisterError(c, fd, t) PROVE WaitInv'
    <3>1. UNCHANGED <<st, rfd, lost>> /\ FdFree(fd) /\ (UNCHANGED epoll \/ EpollAdd(fd, Leaked))
      BY <2>2 DEF RegisterError
    <3>2. CASE UNCHANGED epoll
      BY <3>1, <3>2, WaitKept DEF epoll
    <3>3. CASE EpollAdd(fd, Leaked)
      <4>1. ASSUME fd # NoFd, NEW d \in Co, st[d] = "wait" PROVE rfd[d] # fd
        BY <3>1, <4>1 DEF FdFree, OwnFds, Waiters, WaitInv
      <4>2. \A f \in Fds : f # fd => interest'[f] = interest[f] /\ item_map'[f] = item_map[f]
        BY <1>1, <3>3 DEF EpollAdd, epoll
      <4>3. ASSUME NEW d \in Co, st[d] = "wait", rfd[d] # NoFd
            PROVE  interest'[rfd[d]] = d \/ item_map'[rfd[d]] = Leaked
        <5>1. rfd[d] \in Fds /\ rfd[d] # fd
          BY <1>1, <4>1, <4>3
        <5>2. interest[rfd[d]] = d \/ item_map[rfd[d]] = Leaked
          BY <4>3 DEF WaitInv, Registered
        <5> QED
          BY <4>2, <5>1, <5>2
      <4> QED
        BY <3>1, <4>3 DEF WaitInv, OneWaiter, Registered
    <3> QED
      BY <3>1, <3>2, <3>3
  <2> QED
    BY <1>6, <2>1, <2>2 DEF Register, RegisterForever, RegisterTimer
<1>7. ASSUME NEW fd \in Fds, CloseFd(fd) PROVE WaitInv'
  <2>1. /\ Waiters(fd) = {} /\ lost' = lost \cup Waiters(fd) /\ UNCHANGED <<st, rfd, item_map>>
        /\ interest' = [interest EXCEPT ![fd] = NoCo]
    BY <1>7 DEF CloseFd, OwnFds, EpollClosed, coVars
  <2>2. ASSUME NEW d \in Co, st[d] = "wait", rfd[d] # NoFd
        PROVE  interest'[rfd[d]] = d \/ item_map'[rfd[d]] = Leaked
    <3>1. rfd[d] \in Fds /\ rfd[d] # fd
      BY <1>1, <2>1, <2>2 DEF Waiters, WaitInv
    <3> QED
      BY <1>1, <2>1, <2>2, <3>1 DEF WaitInv, Registered
  <2> QED
    BY <2>1, <2>2 DEF WaitInv, OneWaiter, Registered
<1> QED
  BY <1>2, <1>3, <1>4, <1>5, <1>6, <1>7 DEF Next

(***************************************************************************)
(* If descriptors have one waiter and are not closed under it, epoll knows *)
(* whoever waits on one for as long as it waits: del, which goes by the    *)
(* descriptor and not by the item, never removes another's registration.   *)
(***************************************************************************)
THEOREM WaitersStayRegistered ==
  ASSUME OwnFds, ShortPause
  PROVE  Spec => []Registered
<1>1. Init => WaitInv
  BY DEF Init, WaitInv, OneWaiter, Registered
<1>2. (SchedInv /\ WaitInv) /\ [Next]_vars => (SchedInv /\ WaitInv)'
  BY SchedStep, WaitStep
<1>3. WaitInv => Registered
  BY DEF WaitInv
<1> QED
  BY <1>1, <1>2, <1>3, SchedInit, PTL DEF Spec

-----------------------------------------------------------------------------
(***************************************************************************)
(* The refinement of EventLoop.  Its operators on sequences are again      *)
(* those of SequencesExt.                                                  *)
(***************************************************************************)
LEMMA SameLists ==
  /\ \A q : Abstract!Range(q) = Range(q)
  /\ \A q : Abstract!IsInjective(q) <=> IsInjective(q)
  /\ \A S : Abstract!SetToSeqs(S) = SetToSeqs(S)
<1>1. \A q : Abstract!Range(q) = Range(q)
  BY DEF Abstract!Range, Range
<1>2. \A q : Abstract!IsInjective(q) <=> IsInjective(q)
  BY DEF Abstract!IsInjective, IsInjective
<1>3. \A S : Abstract!SetToSeqs(S) = SetToSeqs(S)
  BY Zenon DEF Abstract!SetToSeqs, SetToSeqs, Abstract!Cardinality, Cardinality
<1> QED
  BY <1>1, <1>2, <1>3

\* The variables of EventLoop.
Timer == [c \in Co |-> expire[c] > 0]
TimedOut == [c \in Co |-> is_timeout[c] \/ ret[c] = "timeout"]
Working == IF phase = "drain" THEN active ELSE <<>>

\* One coroutine's timer is set or removed.
LEMMA TimerStep ==
  ASSUME NEW c \in Co, NEW timed \in BOOLEAN, expire \in [Co -> Nat], expire' \in [Co -> Nat],
         expire'[c] > 0 <=> timed, \A d \in Co \ {c} : expire'[d] = expire[d]
  PROVE  Timer' = [Timer EXCEPT ![c] = timed]
<1>1. Timer \in [Co -> BOOLEAN] /\ Timer' \in [Co -> BOOLEAN]
  BY DEF Timer
<1>2. Timer'[c] <=> timed
  BY DEF Timer
<1>3. \A d \in Co \ {c} : Timer'[d] <=> Timer[d]
  BY DEF Timer
<1> HIDE DEF Timer
<1> QED
  BY <1>1, <1>2, <1>3

\* The coroutines, the call stack and epoll as they are, and nothing else: EventLoop stands still.
LEMMA LoopStutters ==
  ASSUME UNCHANGED <<item_map, interest, st, stack, rfd, destroy_co>>,
         Timer' = Timer, TimedOut' = TimedOut, Working' = Working
  PROVE  UNCHANGED Abstract!loop
  BY DEF Abstract!loop, Timer, TimedOut, Working

\* resume, yield and the end of a coroutine.
LEMMA RefineStack ==
  ASSUME SchedInv, NEW c \in Co, Spawn(c) \/ ResumeYielded(c) \/ Yield(c) \/ Finish(c)
  PROVE  Abstract!LoopNext
<1>1. UNCHANGED <<item_map, interest, rfd, expire, is_timeout, ret, phase, active>>
  BY DEF Spawn, ResumeYielded, Yield, Finish, wheelVars, coVars, epollVars, epoll
<1>2. CASE Spawn(c) \/ ResumeYielded(c)
  <2>1. Abstract!Start(c)
    BY <1>1, <1>2 DEF Spawn, ResumeYielded, Abstract!Start
  <2> QED
    BY <2>1 DEF Abstract!LoopNext
<1>3. CASE Yield(c)
  <2>1. Abstract!Yield(c)
    BY <1>1, <1>3 DEF Yield, Running, Abstract!Yield, Abstract!Running, Abstract!Resumer
  <2> QED
    BY <2>1 DEF Abstract!LoopNext
<1>4. CASE Finish(c)
  <2>1. Abstract!Finish(c)
    BY <1>1, <1>4 DEF Finish, Running, Abstract!Finish, Abstract!Running, Abstract!Resumer
  <2> QED
    BY <2>1 DEF Abstract!LoopNext
<1> QED
  BY <1>2, <1>3, <1>4

\* register_event up to its yield.
LEMMA RefineSuspend ==
  ASSUME SchedInv, NEW c \in Co, NEW fd \in Fds \cup {NoFd}, NEW timed \in BOOLEAN,
         Running(c), Suspend(c, fd), UNCHANGED <<active, destroy_co, phase>>,
         expire' \in [Co -> Nat], expire'[c] > 0 <=> timed, \A d \in Co \ {c} : expire'[d] = expire[d]
  PROVE  Abstract!LoopNext
<1>1. /\ EpollAdd(fd, c) /\ st' = [st EXCEPT ![c] = "wait"] /\ stack' = Tail(stack)
      /\ rfd' = [rfd EXCEPT ![c] = fd] /\ is_timeout' = [is_timeout EXCEPT ![c] = FALSE]
      /\ ret' = [ret EXCEPT ![c] = "none"]
  BY DEF Suspend
<1>2. is_timeout \in [Co -> BOOLEAN] /\ ret \in [Co -> Results] /\ expire \in [Co -> Nat]
  BY DEF SchedInv, TypeOK
<1>3. Timer' = [Timer EXCEPT ![c] = timed]
  BY <1>2, TimerStep
<1>4. TimedOut' = [TimedOut EXCEPT ![c] = FALSE]
  BY <1>1, <1>2 DEF TimedOut
<1>5. Working' = Working
  BY DEF Working
<1>6. Abstract!EpollAdd(fd, c) /\ Abstract!Running(c)
  BY <1>1 DEF EpollAdd, epoll, Abstract!EpollAdd, Abstract!epoll, Running, Abstract!Running
<1>7. Abstract!Suspend(c, fd, timed)
  BY <1>1, <1>3, <1>4, <1>5, <1>6 DEF Abstract!Suspend, Abstract!Resumer, Timer, TimedOut, Working
<1> QED
  BY <1>7 DEF Abstract!LoopNext

\* register_event with a timeout the wheel has no room for, and the others.
LEMMA RefineRegister ==
  ASSUME NoZero, SchedInv, NEW c \in Co, Register(c)
  PROVE  Abstract!LoopNext
<1>1. PICK fd \in Fds \cup {NoFd} :
        \/ RegisterForever(c, fd)
        \/ \E t \in Timeouts : RegisterTimer(c, fd, t) \/ RegisterError(c, fd, t)
  BY DEF Register
<1>2. expire \in [Co -> Nat] /\ clock \in Nat
  BY DEF SchedInv, TypeOK
<1>3. CASE RegisterForever(c, fd)
  <2>1. /\ Running(c) /\ Suspend(c, fd) /\ UNCHANGED <<expire, active, destroy_co, phase>>
    BY <1>3 DEF RegisterForever, wheelVars
  <2>2. expire[c] = 0
    BY <2>1, TopOfStack, RunsUnlinked
  <2> QED
    BY <1>2, <2>1, <2>2, RefineSuspend
<1>4. ASSUME NEW t \in Timeouts, RegisterTimer(c, fd, t) PROVE Abstract!LoopNext
  <2>1. /\ Running(c) /\ Suspend(c, fd) /\ UNCHANGED <<active, destroy_co, phase>> /\ t > 0
        /\ expire' = [expire EXCEPT ![c] = clock + t]
    BY <1>4 DEF RegisterTimer, TW!AddTimeout
  <2>2. expire' \in [Co -> Nat] /\ expire'[c] > 0 /\ \A d \in Co \ {c} : expire'[d] = expire[d]
    BY <1>2, <2>1
  <2> QED
    BY <2>1, <2>2, RefineSuspend
<1>5. ASSUME NEW t \in Timeouts, RegisterError(c, fd, t) PROVE Abstract!LoopNext
  <2>1. /\ Running(c) /\ ret' = [ret EXCEPT ![c] = "error"]
        /\ UNCHANGED <<item_map, interest, expire, is_timeout, st, stack, rfd, active, destroy_co, phase>>
    BY <1>5 DEF RegisterError, NoZero, epoll, wheelVars
  <2>2. ~is_timeout[c]
    <3>1. st[c] = "run"
      BY <2>1, TopOfStack
    <3> QED
      BY <3>1, RunsUnlinked, LinkFacts DEF SchedInv, ItemsOK
  <2>3. is_timeout \in [Co -> BOOLEAN] /\ ret \in [Co -> Results]
    BY DEF SchedInv, TypeOK
  <2>4. TimedOut' = [TimedOut EXCEPT ![c] = FALSE]
    BY <2>1, <2>2, <2>3 DEF TimedOut
  <2>5. Timer' = Timer /\ Working' = Working
    BY <2>1 DEF Timer, Working
  <2>6. Abstract!Refuse(c)
    BY <2>1, <2>4, <2>5 DEF Abstract!Refuse, Abstract!Running, Running, Timer, TimedOut, Working
  <2> QED
    BY <2>6 DEF Abstract!LoopNext
<1> QED
  BY <1>1, <1>3, <1>4, <1>5

\* The merge is the turn of EventLoop: first whoever had an event, then whose time is up.
LEMMA RefineMerge ==
  ASSUME SchedInv, Merge
  PROVE  Abstract!LoopNext
<1>1. /\ phase = "merge" /\ phase' = "drain" /\ active' = active \o ret_link
      /\ is_timeout' = [c \in Co |-> is_timeout[c] \/ c \in Range(ret_link)]
      /\ UNCHANGED <<expire, st, stack, rfd, ret, item_map, interest, destroy_co>>
  BY DEF Merge, epollVars, epoll
<1>2. /\ active \in Seq(Co) /\ ret_link \in Seq(Co) /\ IsInjective(active) /\ IsInjective(ret_link)
  BY DEF SchedInv, TypeOK, Located, ListsOnce
<1>3. Range(active) \subseteq Co /\ Range(ret_link) \subseteq Co
  BY <1>2 DEF Range
<1>4. Range(active) \cap Range(ret_link) = {}
  BY <1>3, LinkFacts DEF SchedInv, Located
<1>5. IsInjective(active \o ret_link)
  BY <1>2, <1>4, ConcatList
<1>6. ASSUME NEW c \in Range(active) PROVE Abstract!Registered(c)
  <2>1. c \in Co /\ t_link[c] = TW!ActiveLink
    BY <1>3 DEF SchedInv, Located
  <2>2. st[c] = "wait" /\ rfd[c] \in Fds /\ interest[rfd[c]] = c
    BY <1>1, <2>1, LinkFacts DEF SchedInv, Located, EventsOK
  <2> QED
    BY <2>2 DEF Abstract!Registered
<1>7. ASSUME NEW c \in Range(ret_link) PROVE st[c] = "wait" /\ Timer[c]
  <2>1. c \in Co /\ t_link[c] = TW!RetLink
    BY <1>3 DEF SchedInv, Located
  <2>2. st[c] = "wait" /\ expire[c] > 0
    BY <2>1, LinkFacts DEF SchedInv, Located, ItemsOK
  <2> QED
    BY <2>1, <2>2 DEF Timer
<1>8. stack = <<>> /\ Working = <<>> /\ Working' = active \o ret_link /\ Timer' = Timer
  BY <1>1 DEF SchedInv, PhaseOK, Working, Timer
<1>9. TimedOut' = [c \in Co |-> TimedOut[c] \/ c \in Range(ret_link)]
  BY <1>1 DEF TimedOut
<1>10. ASSUME NEW es, NEW ts, es = active, ts = ret_link PROVE Abstract!Turn(es, ts)
  BY <1>1, <1>5, <1>6, <1>7, <1>8, <1>9, <1>10, SameLists DEF Abstract!Turn, Working, Timer, TimedOut
<1>11. /\ active \in Abstract!SetToSeqs(Range(active))
       /\ ret_link \in Abstract!SetToSeqs((Range(active) \cup Range(ret_link)) \ Range(active))
  <2>1. (Range(active) \cup Range(ret_link)) \ Range(active) = Range(ret_link)
    BY <1>4
  <2> QED
    BY <1>2, <2>1, OrderOfRange, SameLists
<1>12. /\ Range(active) \cup Range(ret_link) \in SUBSET Co
       /\ Range(active) \in SUBSET (Range(active) \cup Range(ret_link))
  BY <1>3
<1>13. \E S \in SUBSET Co : \E E \in SUBSET S :
         \E es \in Abstract!SetToSeqs(E), ts \in Abstract!SetToSeqs(S \ E) : Abstract!Turn(es, ts)
  <2>1. PICK es, ts : es = active /\ ts = ret_link
    OBVIOUS
  <2>2. PICK S, E : S = Range(active) \cup Range(ret_link) /\ E = Range(active)
    OBVIOUS
  <2>3. Abstract!Turn(es, ts)
    BY <1>10, <2>1
  <2>4. S \in SUBSET Co /\ E \in SUBSET S
    BY <1>12, <2>2
  <2>5. es \in Abstract!SetToSeqs(E) /\ ts \in Abstract!SetToSeqs(S \ E)
    BY <1>11, <2>1, <2>2
  <2> QED
    BY <2>3, <2>4, <2>5
<1> QED
  BY <1>13 DEF Abstract!LoopNext

\* The head of the active list is resumed.
LEMMA RefineResume ==
  ASSUME SchedInv, NEW c \in Co, Resume(c)
  PROVE  Abstract!LoopNext
<1>1. /\ phase = "drain" /\ stack = <<>> /\ active # <<>> /\ Head(active) = c
      /\ active' = Tail(active) /\ stack' = <<c>> /\ expire' = [expire EXCEPT ![c] = 0]
      /\ st' = [st EXCEPT ![c] = "run"] /\ rfd' = [rfd EXCEPT ![c] = NoFd] /\ EpollDel(rfd[c])
      /\ ret' = [ret EXCEPT ![c] = IF is_timeout[c] THEN "timeout" ELSE "event"]
      /\ is_timeout' = [is_timeout EXCEPT ![c] = FALSE] /\ UNCHANGED <<destroy_co, phase>>
  BY DEF Resume
<1>2. /\ is_timeout \in [Co -> BOOLEAN] /\ ret \in [Co -> Results] /\ expire \in [Co -> Nat]
      /\ active \in Seq(Co)
  BY DEF SchedInv, TypeOK
<1>3. ret[c] = "none"
  <2>1. c \in Range(active)
    BY <1>1, <1>2, PopList
  <2> QED
    BY <2>1, LinkFacts DEF SchedInv, Located, ItemsOK
<1>4. Timer' = [Timer EXCEPT ![c] = FALSE]
  <2>1. /\ expire' \in [Co -> Nat] /\ ~(expire'[c] > 0) /\ FALSE \in BOOLEAN
        /\ \A d \in Co \ {c} : expire'[d] = expire[d]
    BY <1>1, <1>2
  <2> QED
    BY <1>2, <2>1, TimerStep
<1>5. TimedOut' = TimedOut
  <2>1. ASSUME NEW d \in Co
        PROVE  (is_timeout'[d] \/ ret'[d] = "timeout") <=> (is_timeout[d] \/ ret[d] = "timeout")
    <3>1. CASE d = c
      BY <1>1, <1>2, <1>3, <3>1
    <3>2. CASE d # c
      BY <1>1, <1>2, <3>2
    <3> QED
      BY <3>1, <3>2
  <2> QED
    BY <2>1 DEF TimedOut
<1>6. Working = active /\ Working' = active'
  BY <1>1 DEF Working
<1>7. Abstract!EpollDel(rfd[c])
  BY <1>1 DEF EpollDel, epoll, Abstract!EpollDel, Abstract!epoll
<1>8. Abstract!Resume(c)
  BY <1>1, <1>4, <1>5, <1>6, <1>7 DEF Abstract!Resume, Timer, TimedOut, Working
<1> QED
  BY <1>8 DEF Abstract!LoopNext

\* clear_co, and a descriptor that is closed.
LEMMA RefineClear ==
  ASSUME SchedInv, clear_co \/ \E fd \in Fds : CloseFd(fd)
  PROVE  Abstract!LoopNext
<1>1. CASE clear_co
  <2>1. /\ phase = "clear" /\ phase' = "poll" /\ destroy_co' = <<>>
        /\ st' = [c \in Co |-> IF c \in Range(destroy_co) THEN "freed" ELSE st[c]]
        /\ UNCHANGED <<expire, stack, rfd, is_timeout, ret, item_map, interest>>
    BY <1>1 DEF clear_co, wheelVars, coVars, epollVars, epoll
  <2>2. stack = <<>> /\ Working = <<>> /\ Working' = <<>> /\ Timer' = Timer /\ TimedOut' = TimedOut
    BY <2>1 DEF SchedInv, PhaseOK, Working, Timer, TimedOut
  <2>3. Abstract!clear_co
    BY <2>1, <2>2, SameLists DEF Abstract!clear_co, Working, Timer, TimedOut
  <2> QED
    BY <2>3 DEF Abstract!LoopNext
<1>2. ASSUME NEW fd \in Fds, CloseFd(fd) PROVE Abstract!LoopNext
  <2>1. /\ EpollClosed(fd)
        /\ UNCHANGED <<expire, st, stack, rfd, is_timeout, ret, active, destroy_co, phase>>
    BY <1>2 DEF CloseFd, wheelVars, coVars
  <2>2. Abstract!Closed(fd)
    BY <2>1 DEF EpollClosed, Abstract!EpollClosed, Abstract!Closed
  <2> QED
    BY <2>2 DEF Abstract!LoopNext
<1> QED
  BY <1>1, <1>2

\* The other steps: the wheel, the clock and the lists of one turn are not part of EventLoop.
LEMMA RefineStutter ==
  ASSUME SchedInv,
         \/ BeginLoop \/ Poll \/ EndEvents \/ Take \/ EndDrain \/ Func \/ Tick \/ StepBack
         \/ \E c \in Co \cup {Leaked} : CrashEvent(c)
         \/ \E c \in Co : HandleEvent(c)
  PROVE  UNCHANGED Abstract!loop
<1>1. UNCHANGED <<item_map, interest, st, stack, rfd, destroy_co, is_timeout, ret>>
  BY DEF BeginLoop, Poll, EndEvents, Take, EndDrain, Func, Tick, StepBack, CrashEvent, HandleEvent, coVars,
         epollVars, epoll
<1>2. UNCHANGED expire
  <2>1. CASE Take
    BY <2>1 DEF Take, TW!TakeAllTimeout, TW!wheelVars
  <2>2. CASE Tick \/ StepBack
    BY <2>2 DEF Tick, StepBack, TW!Tick, TW!StepBack, TW!wheelVars
  <2>3. CASE BeginLoop \/ Poll \/ EndEvents \/ EndDrain \/ Func
             \/ (\E c \in Co \cup {Leaked} : CrashEvent(c)) \/ \E c \in Co : HandleEvent(c)
    BY <2>3 DEF BeginLoop, Poll, EndEvents, EndDrain, Func, CrashEvent, HandleEvent, wheelVars
  <2> QED
    BY <2>1, <2>2, <2>3
<1>3. Timer' = Timer /\ TimedOut' = TimedOut
  BY <1>1, <1>2 DEF Timer, TimedOut
<1>4. Working' = Working
  <2>1. CASE BeginLoop \/ Poll \/ EndEvents \/ Take \/ Func \/ \E c \in Co : HandleEvent(c)
    <3>1. phase # "drain" /\ phase' # "drain"
      BY <2>1 DEF BeginLoop, Poll, EndEvents, Take, Func, HandleEvent
    <3> QED
      BY <3>1 DEF Working
  <2>2. CASE EndDrain
    BY <2>2 DEF EndDrain, Working
  <2>3. CASE Tick \/ StepBack \/ \E c \in Co \cup {Leaked} : CrashEvent(c)
    BY <2>3 DEF Tick, StepBack, CrashEvent, Working
  <2> QED
    BY <2>1, <2>2, <2>3
<1> QED
  BY <1>1, <1>3, <1>4, LoopStutters

\* Every step of the scheduler is one of EventLoop or leaves it as it is.
LEMMA RefineStep == NoZero /\ SchedInv /\ [Next]_vars => [Abstract!LoopNext]_(Abstract!loop)
<1> SUFFICES ASSUME NoZero, SchedInv, [Next]_vars PROVE Abstract!LoopNext \/ UNCHANGED Abstract!loop
  OBVIOUS
<1>1. CASE UNCHANGED vars
  <2>1. UNCHANGED <<item_map, interest, st, stack, rfd, destroy_co, is_timeout, ret, expire, phase, active>>
    BY <1>1 DEF vars, wheelVars, coVars, epollVars, epoll
  <2>2. Timer' = Timer /\ TimedOut' = TimedOut /\ Working' = Working
    BY <2>1 DEF Timer, TimedOut, Working
  <2> QED
    BY <2>1, <2>2, LoopStutters
<1>2. CASE Loop
  BY <1>2, RefineStutter, RefineMerge, RefineResume, RefineClear DEF Loop
<1>3. CASE Tick \/ StepBack
  BY <1>3, RefineStutter
<1>4. ASSUME NEW c \in Co, Spawn(c) \/ ResumeYielded(c) \/ Yield(c) \/ Finish(c) \/ Register(c)
      PROVE  Abstract!LoopNext
  BY <1>4, RefineStack, RefineRegister
<1>5. ASSUME NEW fd \in Fds, CloseFd(fd) PROVE Abstract!LoopNext
  BY <1>5, RefineClear
<1> QED
  BY <1>1, <1>2, <1>3, <1>4, <1>5 DEF Next

(***************************************************************************)
(* Without a timeout of 0, the scheduler is the event loop of EventLoop,   *)
(* on which the wrappers of the system calls are built: whoever is resumed *)
(* was registered for its event or had a timer, and the list of one turn   *)
(* is worked off, each coroutine once, before the next one is made.        *)
(***************************************************************************)
THEOREM SchedulerRefinesLoop ==
  ASSUME NoZero, ShortPause
  PROVE  Spec => IsEventLoop
<1>1. Init => Abstract!LoopInit
  <2> SUFFICES ASSUME Init PROVE Abstract!LoopInit
    OBVIOUS
  <2>1. /\ item_map = [f \in Fds |-> NoCo] /\ interest = [f \in Fds |-> NoCo]
        /\ st = [c \in Co |-> "new"] /\ stack = <<>> /\ rfd = [c \in Co |-> NoFd]
        /\ is_timeout = [c \in Co |-> FALSE] /\ active = <<>> /\ destroy_co = <<>>
        /\ phase = "main" /\ ret = [c \in Co |-> "none"] /\ expire = [c \in Co |-> 0]
    BY DEF Init, EpollInit, TW!Init
  <2>2. Timer = [c \in Co |-> FALSE] /\ TimedOut = [c \in Co |-> FALSE] /\ Working = <<>>
    <3>1. \A c \in Co : ~(expire[c] > 0) /\ ~is_timeout[c] /\ ret[c] # "timeout"
      BY <2>1
    <3>2. Timer = [c \in Co |-> FALSE]
      <4>1. Timer \in [Co -> BOOLEAN]
        BY DEF Timer
      <4>2. \A c \in Co : ~Timer[c]
        BY Zenon, <3>1 DEF Timer
      <4> HIDE DEF Timer
      <4> QED
        BY <4>1, <4>2
    <3>3. TimedOut = [c \in Co |-> FALSE]
      BY Zenon, <3>1 DEF TimedOut
    <3> QED
      BY <2>1, <3>2, <3>3 DEF Working
  <2> QED
    BY <2>1, <2>2 DEF Abstract!LoopInit, Abstract!EpollInit, Timer, TimedOut, Working
<1>2. SchedInv /\ [Next]_vars => SchedInv'
  BY SchedStep
<1>3. SchedInv /\ [Next]_vars => [Abstract!LoopNext]_(Abstract!loop)
  BY RefineStep
<1> QED
  BY <1>1, <1>2, <1>3, SchedInit, PTL DEF Spec, IsEventLoop, Abstract!LoopSpec

-----------------------------------------------------------------------------
=============================================================================
