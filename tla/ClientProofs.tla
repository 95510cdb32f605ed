---------------------------- MODULE ClientProofs -----------------------------
(***************************************************************************)
(* Any number of clients on any number of descriptors: the wrapped system  *)
(* calls keep descriptors, socket_infs, registrations and streams apart,   *)
(* however sockets fail, are closed and their numbers used again.          *)
(***************************************************************************)
EXTENDS Client, Lists

-----------------------------------------------------------------------------
(***************************************************************************)
(* The inductive invariant.  A client runs, waits in a wrapper on its own  *)
(* descriptor, or has not started; the wrapper it is in is the one its     *)
(* place in the client says.                                               *)
(***************************************************************************)
StackOK ==
  /\ stack # <<>> => \E c \in Co : stack = <<c>>
  /\ \A c \in Co : st[c] \in {"new", "run", "wait"} /\ (st[c] = "run" <=> stack = <<c>>)

InCall(c) ==
  \/ call[c].op = "sleep" /\ call[c].fd = NoFd /\ pc[c] = "socket"
  \/ call[c].op = "connect" /\ call[c].fd = fd_[c] /\ pc[c] = "connected" /\ call[c].n <= Tries
  \/ /\ call[c].op \in {"send", "recv"} /\ call[c].fd = fd_[c] /\ pc[c] = "used"
     /\ call[c].n < MsgLen /\ call[c].kind = "ms"

WhereOK ==
  \A c \in Co :
    /\ pc[c] = "new" <=> st[c] = "new"
    /\ fd_[c] # NoFd <=> pc[c] \in {"connect", "connected", "used"}
    /\ st[c] = "new" => call[c] = NoCall
    /\ st[c] # "wait" => rfd[c] = NoFd
    /\ st[c] = "wait" => rfd[c] = call[c].fd /\ call[c] # NoCall
    /\ call[c] # NoCall => InCall(c)

EpollOK ==
  /\ \A f \in Fds : /\ interest[f] = item_map[f]
                    /\ item_map[f] \in Co => st[item_map[f]] = "wait" /\ rfd[item_map[f]] = f
  /\ \A c \in Co : st[c] = "wait" /\ rfd[c] # NoFd => item_map[rfd[c]] = c

ActiveOK == IsInjective(active) /\ \A c \in Co : c \in Range(active) => st[c] = "wait"

OwnOK == \A c, d \in Co : fd_[c] = fd_[d] /\ fd_[c] # NoFd => c = d

InfOK ==
  \A f \in Fds :
    /\ sock[f].state # "free" <=> \E c \in Co : fd_[c] = f
    /\ g_socket_inf[f] = IF sock[f].state = "free" THEN NoInf ELSE socket_inf

Streams == Watched = Fds => Contiguous

\* A connection attempt that the loop has seen an event for, and no timeout, has been answered.
Answered ==
  \A c \in Co : call[c].op = "connect" /\ ~is_timeout[c] /\ (st[c] = "run" \/ c \in Range(active)) =>
                sock[call[c].fd].state # "connecting"

ClientInv ==
  /\ TypeOK /\ StackOK /\ WhereOK /\ EpollOK /\ ActiveOK
  /\ OwnOK /\ InfOK /\ NoCrash /\ ConnectTrue /\ Streams /\ Answered

USE SysAssumption

\* The lowest free descriptor is free.
LEMMA LowestFree == FreeFds # {} => NewFd \in FreeFds
<1> SUFFICES ASSUME FreeFds # {} PROVE NewFd \in FreeFds
  OBVIOUS
<1>1. FreeFds \subseteq Nat
  BY DEF FreeFds
<1>2. PICK S : S = FreeFds
  OBVIOUS
<1>3. Min(S) \in S
  BY <1>1, <1>2, MinOfSome
<1> QED
  BY <1>2, <1>3 DEF NewFd

\* Min and Max of two numbers.
LEMMA MinMax ==
  /\ \A a, b \in Int : Min({a, b}) = IF a <= b THEN a ELSE b
  /\ Max({3, MsgLen}) \in Nat /\ Max({3, MsgLen}) >= 3 /\ Max({3, MsgLen}) >= MsgLen
<1>1. Max({3, MsgLen}) \in {3, MsgLen} /\ Max({3, MsgLen}) >= 3 /\ Max({3, MsgLen}) >= MsgLen
  <2>1. 3 \in Int /\ MsgLen \in Int
    OBVIOUS
  <2> QED
    BY <2>1, MaxOfTwo
<1> QED
  BY <1>1, MinOfTwo

\* What write and send can take of the rest of a message.
LEMMA TakesSome ==
  ASSUME sock \in [Fds -> Sockets], NEW fd \in Fds, NEW n \in 0 .. MsgLen
  PROVE  Takes(fd, n) \in 0 .. (MsgLen - n) /\ Takes(fd, n) <= sock[fd].room
<1>1. sock[fd].room \in 0 .. Room
  BY DEF Sockets
<1> QED
  BY <1>1, MinMax DEF Takes

-----------------------------------------------------------------------------
(***************************************************************************)
(* A step of the client that runs: the other clients, and the descriptors  *)
(* that are not its own, are left alone, and its own stay consistent.      *)
(***************************************************************************)
OthersKept(c) ==
  /\ \A d \in Co \ {c} : pc'[d] = pc[d] /\ fd_'[d] = fd_[d] /\ call'[d] = call[d] /\ res'[d] = res[d]
  /\ \A f \in Fds : f # fd_[c] /\ f # fd_'[c] =>
       /\ sock'[f] = sock[f] /\ g_socket_inf'[f] = g_socket_inf[f]
       /\ f \in Watched => stream'[f] = stream[f]
  /\ UNCHANGED <<active, destroy_co>>

OwnKept(c) ==
  /\ fd_'[c] # NoFd => /\ sock'[fd_'[c]].state # "free" /\ g_socket_inf'[fd_'[c]] = socket_inf
                       /\ fd_'[c] # fd_[c] => sock[fd_'[c]].state = "free"
  /\ fd_[c] # NoFd /\ fd_'[c] # fd_[c] => sock'[fd_[c]].state = "free" /\ g_socket_inf'[fd_[c]] = NoInf
  /\ fd_'[c] # NoFd <=> pc'[c] \in {"connect", "connected", "used"}
  /\ pc'[c] # "new" /\ (call'[c] # NoCall => InCall(c)')
  /\ pc'[c] = "connected" /\ call'[c] = NoCall /\ res'[c] = "ok" => sock'[fd_'[c]].state = "open"
  /\ Watched = Fds /\ call'[c].op = "send" /\ call'[c].n > 0 =>
       stream'[call'[c].fd] = <<c, call'[c].n>>

KernelType ==
  /\ sock \in [Fds -> Sockets]
  /\ stream \in [Watched -> (Co \cup {NoCo}) \X (0 .. MsgLen)]
  /\ g_socket_inf \in [Fds -> [entry : {"none", "null", "inf"}, read : Kinds, write : Kinds]]

CallType ==
  /\ errno \in {"EAGAIN", "EINTR", "other"} /\ fate \in {"alive", "crashed", "killed", "aborted"}
  /\ call \in [Co -> [op : Ops, fd : Fds \cup {NoFd}, n : 0 .. Max({3, MsgLen}), kind : Kinds]]
  /\ res \in [Co -> {"none", "ok", "fail", "data", "eof", "sent", "TIME_OUT"}]
  /\ pc \in [Co -> {"new", "sleep", "socket", "connect", "connected", "used"}]
  /\ fd_ \in [Co -> Fds \cup {NoFd}]

LoopType ==
  /\ item_map \in [Fds -> Co \cup {NoCo}] /\ interest \in [Fds -> Co \cup {NoCo}]
  /\ st \in [Co -> States] /\ stack \in Seq(Co) /\ rfd \in [Co -> Fds \cup {NoFd}]
  /\ timer \in [Co -> BOOLEAN] /\ is_timeout \in [Co -> BOOLEAN]
  /\ active \in Seq(Co) /\ destroy_co \in Seq(Co)

\* The three parts of the type invariant.
LEMMA TypeParts == TypeOK <=> KernelType /\ CallType /\ LoopType
  BY DEF TypeOK, SysTypeOK, KernelType, CallType, LoopType

StepOf(c) == KernelType' /\ CallType' /\ fate' # "crashed" /\ OthersKept(c) /\ OwnKept(c)

\* Descriptors, socket_infs and streams after such a step.
LEMMA OwnStep ==
  ASSUME ClientInv, NEW c \in Co, StepOf(c)
  PROVE  OwnOK' /\ InfOK' /\ ConnectTrue' /\ Streams' /\ NoCrash'
<1>1. /\ fd_ \in [Co -> Fds \cup {NoFd}] /\ fd_' \in [Co -> Fds \cup {NoFd}]
      /\ OwnOK /\ InfOK /\ WhereOK
  BY TypeParts DEF ClientInv, StepOf, CallType
<1>2. OthersKept(c) /\ OwnKept(c)
  BY DEF StepOf
<1>3. ASSUME NEW d \in Co, d # c, fd_[d] # NoFd
      PROVE  fd_[d] \in Fds /\ fd_[d] # fd_[c] /\ fd_[d] # fd_'[c] /\ fd_'[d] = fd_[d]
  <2>1. fd_[d] \in Fds /\ fd_[d] # fd_[c] /\ fd_'[d] = fd_[d]
    BY <1>1, <1>2, <1>3 DEF OwnOK, OthersKept
  <2>2. sock[fd_[d]].state # "free"
    BY <1>1, <2>1 DEF InfOK
  <2> QED
    BY <1>2, <2>1, <2>2 DEF OwnKept
<1>4. OwnOK'
  <2> SUFFICES ASSUME NEW d \in Co, NEW e \in Co, fd_'[d] = fd_'[e], fd_'[d] # NoFd PROVE d = e
    BY DEF OwnOK
  <2>1. d # c => fd_'[d] = fd_[d]
    BY <1>2 DEF OthersKept
  <2>2. e # c => fd_'[e] = fd_[e]
    BY <1>2 DEF OthersKept
  <2> QED
    BY <1>1, <1>3, <2>1, <2>2 DEF OwnOK
<1>5. InfOK'
  <2> SUFFICES ASSUME NEW f \in Fds
               PROVE  /\ sock'[f].state # "free" <=> \E d \in Co : fd_'[d] = f
                      /\ g_socket_inf'[f] = IF sock'[f].state = "free" THEN NoInf ELSE socket_inf
    BY DEF InfOK
  <2>0. f # NoFd
    OBVIOUS
  <2>1. CASE f = fd_'[c]
    BY <1>2, <2>0, <2>1 DEF OwnKept
  <2>2. CASE f # fd_'[c] /\ f = fd_[c]
    <3>1. sock'[f].state = "free" /\ g_socket_inf'[f] = NoInf
      BY <1>2, <2>0, <2>2 DEF OwnKept
    <3>2. \A d \in Co : fd_'[d] # f
      <4> TAKE d \in Co
      <4>1. CASE d = c
        BY <2>2, <4>1
      <4>2. CASE d # c
        BY <1>1, <1>2, <2>0, <2>2, <4>2 DEF OthersKept, OwnOK
      <4> QED
        BY <4>1, <4>2
    <3> QED
      BY <3>1, <3>2
  <2>3. CASE f # fd_'[c] /\ f # fd_[c]
    <3>1. sock'[f] = sock[f] /\ g_socket_inf'[f] = g_socket_inf[f]
      BY <1>2, <2>3 DEF OthersKept
    <3>2. \A d \in Co : fd_'[d] = f <=> fd_[d] = f
      BY <1>2, <2>3 DEF OthersKept
    <3> QED
      BY <1>1, <3>1, <3>2 DEF InfOK
  <2> QED
    BY <2>1, <2>2, <2>3
<1>6. ConnectTrue'
  <2> SUFFICES ASSUME NEW d \in Co, pc'[d] = "connected", call'[d] = NoCall, res'[d] = "ok"
               PROVE  sock'[fd_'[d]].state = "open"
    BY DEF ConnectTrue
  <2>1. CASE d = c
    BY <1>2, <2>1 DEF OwnKept
  <2>2. CASE d # c
    <3>1. pc[d] = "connected" /\ call[d] = NoCall /\ res[d] = "ok" /\ fd_[d] # NoFd
      BY <1>1, <1>2, <2>2 DEF OthersKept, WhereOK
    <3>2. sock[fd_[d]].state = "open"
      BY <3>1 DEF ClientInv, ConnectTrue
    <3>3. sock'[fd_[d]] = sock[fd_[d]] /\ fd_'[d] = fd_[d]
      BY <1>2, <1>3, <2>2, <3>1 DEF OthersKept
    <3> QED
      BY <3>2, <3>3
  <2> QED
    BY <2>1, <2>2
<1>7. Streams'
  <2> SUFFICES ASSUME Watched = Fds, NEW d \in Co, call'[d].op = "send", call'[d].n > 0
               PROVE  stream'[call'[d].fd] = <<d, call'[d].n>>
    BY DEF Streams, Contiguous
  <2>1. CASE d = c
    BY <1>2, <2>1 DEF OwnKept
  <2>2. CASE d # c
    <3>1. call'[d] = call[d]
      BY <1>2, <2>2 DEF OthersKept
    <3>2. stream[call[d].fd] = <<d, call[d].n>>
      BY <3>1 DEF ClientInv, Streams, Contiguous
    <3>3. call[d].fd = fd_[d] /\ fd_[d] # NoFd
      <4>1. call[d].op = "send"
        BY <3>1
      <4>2. call[d] # NoCall
        BY <4>1 DEF NoCall
      <4> QED
        BY <1>1, <4>1, <4>2 DEF WhereOK, InCall
    <3>4. stream'[fd_[d]] = stream[fd_[d]]
      BY <1>2, <1>3, <2>2, <3>3 DEF OthersKept
    <3> QED
      BY <3>1, <3>2, <3>3, <3>4
  <2> QED
    BY <2>1, <2>2
<1>8. NoCrash'
  BY DEF StepOf, NoCrash
<1> QED
  BY <1>4, <1>5, <1>6, <1>7, <1>8

\* What the loop has seen of the others' attempts stays; its own is over, or waited for again.
LEMMA AnsweredStep ==
  ASSUME ClientInv, NEW c \in Co, stack = <<c>>, StepOf(c), call'[c] = NoCall \/ st'[c] = "wait",
         \A d \in Co : d # c => st'[d] = st[d] /\ is_timeout'[d] = is_timeout[d]
  PROVE  Answered'
<1>1. OthersKept(c) /\ OwnKept(c) /\ OwnOK /\ InfOK /\ WhereOK /\ StackOK /\ ActiveOK /\ Answered
  BY DEF StepOf, ClientInv
<1>2. active' = active /\ c \notin Range(active)
  BY <1>1 DEF OthersKept, StackOK, ActiveOK
<1>3. fd_ \in [Co -> Fds \cup {NoFd}]
  BY TypeParts DEF ClientInv, CallType
<1> SUFFICES ASSUME NEW d \in Co, call'[d].op = "connect", ~is_timeout'[d],
                    st'[d] = "run" \/ d \in Range(active')
             PROVE  sock'[call'[d].fd].state # "connecting"
  BY DEF Answered
<1>4. NoCall.op # "connect"
  BY DEF NoCall
<1>5. d # c
  BY <1>2, <1>4
<1>6. call'[d] = call[d] /\ fd_'[d] = fd_[d] /\ st'[d] = st[d] /\ is_timeout'[d] = is_timeout[d]
  BY <1>1, <1>5 DEF OthersKept
<1>7. sock[call[d].fd].state # "connecting"
  BY <1>1, <1>2, <1>6 DEF Answered
<1>8. call[d].fd = fd_[d] /\ fd_[d] # NoFd
  BY <1>1, <1>4, <1>6 DEF WhereOK, InCall
<1>9. fd_[d] \in Fds /\ fd_[d] # fd_[c] /\ sock[fd_[d]].state # "free"
  BY <1>1, <1>3, <1>5, <1>8 DEF OwnOK, InfOK
<1>10. fd_[d] # fd_'[c]
  BY <1>1, <1>8, <1>9 DEF OwnKept
<1>11. sock'[fd_[d]] = sock[fd_[d]]
  BY <1>1, <1>9, <1>10 DEF OthersKept
<1> QED
  BY <1>6, <1>7, <1>8, <1>11

\* It goes on running, behind the wrapper.
LEMMA ReturnStep ==
  ASSUME ClientInv, NEW c \in Co, stack = <<c>>, StepOf(c), call' = [call EXCEPT ![c] = NoCall],
         UNCHANGED <<st, stack, rfd, timer, is_timeout, item_map, interest>>
  PROVE  ClientInv'
<1>1. OthersKept(c) /\ OwnKept(c)
  BY DEF StepOf
<1>2. UNCHANGED <<active, destroy_co>>
  BY <1>1 DEF OthersKept
<1>3. TypeOK'
  <2>1. LoopType'
    BY <1>2, TypeParts DEF ClientInv, LoopType
  <2>2. TypeOK' <=> KernelType' /\ CallType' /\ LoopType'
    BY DEF TypeOK, SysTypeOK, KernelType, CallType, LoopType
  <2> QED
    BY <2>1, <2>2 DEF StepOf
<1>4. StackOK' /\ EpollOK' /\ ActiveOK'
  BY <1>2 DEF ClientInv, StackOK, EpollOK, ActiveOK
<1>5. st[c] = "run"
  BY DEF ClientInv, StackOK
<1>6. WhereOK'
  <2> SUFFICES ASSUME NEW d \in Co
               PROVE  /\ pc'[d] = "new" <=> st'[d] = "new"
                      /\ fd_'[d] # NoFd <=> pc'[d] \in {"connect", "connected", "used"}
                      /\ st'[d] = "new" => call'[d] = NoCall
                      /\ st'[d] # "wait" => rfd'[d] = NoFd
                      /\ st'[d] = "wait" => rfd'[d] = call'[d].fd /\ call'[d] # NoCall
                      /\ call'[d] # NoCall => InCall(d)'
    BY DEF WhereOK
  <2>1. CASE d = c
    BY <1>1, <1>5, <2>1 DEF OwnKept, ClientInv, WhereOK
  <2>2. CASE d # c
    <3>1. pc'[d] = pc[d] /\ fd_'[d] = fd_[d] /\ call'[d] = call[d]
      BY <1>1, <2>2 DEF OthersKept
    <3> QED
      BY <3>1 DEF ClientInv, WhereOK, InCall
  <2> QED
    BY <2>1, <2>2
<1>7. Answered'
  <2>1. call'[c] = NoCall
    BY TypeParts DEF ClientInv, CallType
  <2> QED
    BY <2>1, AnsweredStep
<1> QED
  BY <1>3, <1>4, <1>6, <1>7, OwnStep DEF ClientInv

\* It waits on its descriptor, which nobody else is registered for, or sleeps.
LEMMA SuspendStep ==
  ASSUME ClientInv, NEW c \in Co, stack = <<c>>, StepOf(c), UNCHANGED fd_, NEW fd,
         Suspend(c, fd, TRUE), call'[c].fd = fd, call'[c] # NoCall
  PROVE  ClientInv'
<1>1. OthersKept(c) /\ OwnKept(c) /\ UNCHANGED <<active, destroy_co>>
  BY DEF StepOf, OthersKept
<1>2. /\ st' = [st EXCEPT ![c] = "wait"] /\ stack' = Tail(stack) /\ rfd' = [rfd EXCEPT ![c] = fd]
      /\ timer' = [timer EXCEPT ![c] = TRUE] /\ is_timeout' = [is_timeout EXCEPT ![c] = FALSE]
      /\ EpollAdd(fd, c)
  BY DEF Suspend, Resumer
<1>3. /\ item_map \in [Fds -> Co \cup {NoCo}] /\ interest \in [Fds -> Co \cup {NoCo}]
      /\ st \in [Co -> States] /\ rfd \in [Co -> Fds \cup {NoFd}]
      /\ fd_ \in [Co -> Fds \cup {NoFd}]
  BY TypeParts DEF ClientInv, LoopType, CallType
<1>4. timer \in [Co -> BOOLEAN] /\ is_timeout \in [Co -> BOOLEAN]
  BY TypeParts DEF ClientInv, LoopType
<1>5. st[c] = "run" /\ \A d \in Co : d # c => st[d] # "run"
  BY DEF ClientInv, StackOK
<1>6. fd \in {NoFd, fd_[c]}
  BY <1>1 DEF OwnKept, InCall
<1>7. fd # NoFd => item_map[fd] = NoCo
  <2> SUFFICES ASSUME fd # NoFd, item_map[fd] # NoCo PROVE FALSE
    OBVIOUS
  <2> DEFINE d == item_map[fd]
  <2>1. fd \in Fds /\ d \in Co
    BY <1>3, <1>6
  <2>2. st[d] = "wait" /\ rfd[d] = fd
    BY <2>1 DEF ClientInv, EpollOK
  <2> HIDE DEF d
  <2>3. fd_[d] = fd
    BY <2>1, <2>2 DEF ClientInv, WhereOK, InCall
  <2>4. d = c
    BY <1>6, <2>1, <2>3 DEF ClientInv, OwnOK
  <2> QED
    BY <1>5, <2>2, <2>4
<1>8. /\ item_map' \in [Fds -> Co \cup {NoCo}] /\ interest' \in [Fds -> Co \cup {NoCo}]
      /\ \A f \in Fds : IF f = fd THEN item_map'[f] = c /\ interest'[f] = c
                        ELSE item_map'[f] = item_map[f] /\ interest'[f] = interest[f]
  <2>1. CASE fd = NoFd
    BY <1>2, <1>3, <2>1 DEF EpollAdd, epoll
  <2>2. CASE fd # NoFd
    <3>1. /\ item_map' = [item_map EXCEPT ![fd] = c] /\ interest' = [interest EXCEPT ![fd] = c]
      BY <1>2, <1>7, <2>2 DEF EpollAdd
    <3> QED
      BY <1>3, <3>1
  <2> QED
    BY <2>1, <2>2
<1>9. TypeOK'
  <2>1. stack' = <<>>
    BY <1>2
  <2>2. /\ st' \in [Co -> States] /\ stack' \in Seq(Co) /\ rfd' \in [Co -> Fds \cup {NoFd}]
    BY <1>2, <1>3, <1>6, <2>1 DEF States
  <2>3. timer' \in [Co -> BOOLEAN] /\ is_timeout' \in [Co -> BOOLEAN]
    BY <1>2, <1>4
  <2>4. LoopType'
    BY <1>1, <1>8, <2>2, <2>3, TypeParts DEF ClientInv, LoopType
  <2>5. TypeOK' <=> KernelType' /\ CallType' /\ LoopType'
    BY DEF TypeOK, SysTypeOK, KernelType, CallType, LoopType
  <2> QED
    BY <2>4, <2>5 DEF StepOf
<1>10. StackOK'
  <2>1. stack' = <<>>
    BY <1>2
  <2> QED
    BY <1>2, <1>3, <1>5, <2>1 DEF ClientInv, StackOK
<1>11. EpollOK'
  <2>1. ASSUME NEW f \in Fds
        PROVE  /\ interest'[f] = item_map'[f]
               /\ item_map'[f] \in Co => st'[item_map'[f]] = "wait" /\ rfd'[item_map'[f]] = f
    <3>1. CASE f = fd
      BY <1>2, <1>3, <1>8, <3>1
    <3>2. CASE f # fd
      <4>1. item_map'[f] = item_map[f] /\ interest'[f] = interest[f]
        BY <1>8, <3>2
      <4>2. item_map[f] \in Co => st[item_map[f]] = "wait" /\ rfd[item_map[f]] = f /\ item_map[f] # c
        BY <1>5 DEF ClientInv, EpollOK
      <4> QED
        BY <1>2, <1>3, <4>1, <4>2 DEF ClientInv, EpollOK
    <3> QED
      BY <3>1, <3>2
  <2>2. ASSUME NEW d \in Co, st'[d] = "wait", rfd'[d] # NoFd PROVE item_map'[rfd'[d]] = d
    <3>1. CASE d = c
      BY <1>2, <1>3, <1>6, <1>8, <2>2, <3>1
    <3>2. CASE d # c
      <4>1. st[d] = "wait" /\ rfd'[d] = rfd[d] /\ rfd[d] \in Fds /\ item_map[rfd[d]] = d
        BY <1>2, <1>3, <2>2, <3>2 DEF ClientInv, EpollOK
      <4>2. rfd[d] # fd
        BY <1>3, <1>7, <2>2, <4>1
      <4> QED
        BY <1>8, <4>1, <4>2
    <3> QED
      BY <3>1, <3>2
  <2> QED
    BY <2>1, <2>2 DEF EpollOK
<1>12. ActiveOK'
  BY <1>1, <1>2, <1>3 DEF ClientInv, ActiveOK
<1>13. WhereOK'
  <2> SUFFICES ASSUME NEW d \in Co
               PROVE  /\ pc'[d] = "new" <=> st'[d] = "new"
                      /\ fd_'[d] # NoFd <=> pc'[d] \in {"connect", "connected", "used"}
                      /\ st'[d] = "new" => call'[d] = NoCall
                      /\ st'[d] # "wait" => rfd'[d] = NoFd
                      /\ st'[d] = "wait" => rfd'[d] = call'[d].fd /\ call'[d] # NoCall
                      /\ call'[d] # NoCall => InCall(d)'
    BY DEF WhereOK
  <2>1. CASE d = c
    <3>1. st'[c] = "wait" /\ rfd'[c] = fd
      BY <1>2, <1>3
    <3> QED
      BY <1>1, <2>1, <3>1 DEF OwnKept
  <2>2. CASE d # c
    <3>1. /\ pc'[d] = pc[d] /\ fd_'[d] = fd_[d] /\ call'[d] = call[d] /\ st'[d] = st[d]
          /\ rfd'[d] = rfd[d]
      BY <1>1, <1>2, <1>3, <2>2 DEF OthersKept
    <3> QED
      BY <3>1 DEF ClientInv, WhereOK, InCall
  <2> QED
    BY <2>1, <2>2
<1>14. Answered'
  <2>1. st'[c] = "wait" /\ \A d \in Co : d # c => st'[d] = st[d] /\ is_timeout'[d] = is_timeout[d]
    BY <1>2, <1>3, <1>4
  <2> QED
    BY <2>1, AnsweredStep
<1> QED
  BY <1>9, <1>10, <1>11, <1>12, <1>13, <1>14, OwnStep DEF ClientInv

-----------------------------------------------------------------------------
\* Before the first client starts.
LEMMA ClientInit == Init => ClientInv
<1> SUFFICES ASSUME Init PROVE ClientInv
  OBVIOUS
<1>1. /\ item_map = [f \in Fds |-> NoCo] /\ interest = [f \in Fds |-> NoCo]
      /\ st = [c \in Co |-> "new"] /\ stack = <<>> /\ active = <<>> /\ destroy_co = <<>>
      /\ rfd = [c \in Co |-> NoFd] /\ timer = [c \in Co |-> FALSE] /\ is_timeout = [c \in Co |-> FALSE]
  BY DEF Init, LoopInit, EpollInit
<1>2. /\ sock = [f \in Fds |-> FreeSock] /\ stream = [f \in Watched |-> NoUnit]
      /\ g_socket_inf = [f \in Fds |-> NoInf] /\ errno = "other" /\ call = [c \in Co |-> NoCall]
      /\ res = [c \in Co |-> "none"] /\ fate = "alive"
      /\ pc = [c \in Co |-> "new"] /\ fd_ = [c \in Co |-> NoFd]
  BY DEF Init, SysInit
<1>3. TypeOK
  <2>1. LoopType
    <3>1. timer \in [Co -> BOOLEAN] /\ is_timeout \in [Co -> BOOLEAN]
      BY <1>1
    <3> QED
      BY <1>1, <3>1 DEF LoopType, States
  <2>2. KernelType
    <3>1. sock \in [Fds -> Sockets]
      BY <1>2 DEF FreeSock, Sockets
    <3>2. stream \in [Watched -> (Co \cup {NoCo}) \X (0 .. MsgLen)]
      BY <1>2 DEF NoUnit
    <3>3. g_socket_inf \in [Fds -> [entry : {"none", "null", "inf"}, read : Kinds, write : Kinds]]
      BY <1>2 DEF NoInf, socket_inf, Kinds
    <3> QED
      BY <3>1, <3>2, <3>3 DEF KernelType
  <2>3. CallType
    <3>1. call \in [Co -> [op : Ops, fd : Fds \cup {NoFd}, n : 0 .. Max({3, MsgLen}), kind : Kinds]]
      <4>1. 0 \in 0 .. Max({3, MsgLen})
        BY MinMax
      <4> QED
        BY <1>2, <4>1 DEF NoCall, Ops, Kinds
    <3> QED
      BY <1>2, <3>1 DEF CallType
  <2> QED
    BY <2>1, <2>2, <2>3, TypeParts
<1>4. StackOK /\ WhereOK /\ EpollOK /\ OwnOK
  BY <1>1, <1>2 DEF StackOK, WhereOK, EpollOK, OwnOK
<1>5. ActiveOK
  BY <1>1 DEF ActiveOK, IsInjective, Range
<1>6. InfOK
  BY <1>2 DEF InfOK, FreeSock
<1>7. NoCrash /\ ConnectTrue
  BY <1>2 DEF NoCrash, ConnectTrue
<1>8. Streams /\ Answered
  BY <1>2 DEF Streams, Contiguous, Answered, NoCall
<1> QED
  BY <1>3, <1>4, <1>5, <1>6, <1>7, <1>8 DEF ClientInv

(***************************************************************************)
(* The steps of the client that runs.                                      *)
(***************************************************************************)

Calls == [op : Ops, fd : Fds \cup {NoFd}, n : 0 .. Max({3, MsgLen}), kind : Kinds]
Results == {"none", "ok", "fail", "data", "eof", "sent", "TIME_OUT"}
Places == {"new", "sleep", "socket", "connect", "connected", "used"}

\* The one that runs is alone on the stack, and waits for nothing.
LEMMA RunFacts ==
  ASSUME ClientInv, NEW c \in Co, Running(c)
  PROVE  /\ stack = <<c>> /\ st[c] = "run" /\ rfd[c] = NoFd /\ pc[c] # "new"
         /\ sock \in [Fds -> Sockets]
         /\ stream \in [Watched -> (Co \cup {NoCo}) \X (0 .. MsgLen)]
         /\ g_socket_inf \in [Fds -> [entry : {"none", "null", "inf"}, read : Kinds, write : Kinds]]
         /\ call \in [Co -> Calls] /\ res \in [Co -> Results] /\ pc \in [Co -> Places]
         /\ fd_ \in [Co -> Fds \cup {NoFd}] /\ errno \in {"EAGAIN", "EINTR", "other"}
         /\ fate \in {"alive", "crashed", "killed", "aborted"} /\ fate # "crashed"
         /\ fd_[c] # NoFd <=> pc[c] \in {"connect", "connected", "used"}
         /\ fd_[c] # NoFd => /\ fd_[c] \in Fds /\ sock[fd_[c]].state # "free"
                             /\ g_socket_inf[fd_[c]] = socket_inf
         /\ call[c] # NoCall => InCall(c)
<1>1. stack = <<c>> /\ st[c] = "run"
  BY DEF ClientInv, StackOK, Running
<1>2. rfd[c] = NoFd /\ pc[c] # "new" /\ (call[c] # NoCall => InCall(c))
      /\ (fd_[c] # NoFd <=> pc[c] \in {"connect", "connected", "used"})
  BY <1>1 DEF ClientInv, WhereOK
<1>3. KernelType /\ CallType
  BY TypeParts DEF ClientInv
<1>4. fd_[c] # NoFd => /\ fd_[c] \in Fds /\ sock[fd_[c]].state # "free"
                       /\ g_socket_inf[fd_[c]] = socket_inf
  BY <1>3 DEF ClientInv, InfOK, CallType
<1>5. fate # "crashed"
  BY DEF ClientInv, NoCrash
<1> QED
  BY <1>1, <1>2, <1>3, <1>4, <1>5 DEF KernelType, CallType, Calls, Results, Places

\* A step that changes of the clients only what concerns the one that runs.
LEMMA Stepped ==
  ASSUME ClientInv, NEW c \in Co, Running(c), KernelType', OwnKept(c),
         errno' \in {"EAGAIN", "EINTR", "other"}, fate' \in {"alive", "killed"},
         UNCHANGED <<active, destroy_co>>,
         NEW k \in Calls, NEW r \in Results, NEW p \in Places, NEW g \in Fds \cup {NoFd},
         call' = [call EXCEPT ![c] = k], res' = [res EXCEPT ![c] = r],
         pc' = [pc EXCEPT ![c] = p], fd_' = [fd_ EXCEPT ![c] = g],
         \A f \in Fds : f # fd_[c] /\ f # g =>
           /\ sock'[f] = sock[f] /\ g_socket_inf'[f] = g_socket_inf[f]
           /\ f \in Watched => stream'[f] = stream[f]
  PROVE  StepOf(c)
<1>1. /\ call \in [Co -> Calls] /\ res \in [Co -> Results] /\ pc \in [Co -> Places]
      /\ fd_ \in [Co -> Fds \cup {NoFd}]
  BY RunFacts
<1>2. /\ call' \in [Co -> Calls] /\ res' \in [Co -> Results] /\ pc' \in [Co -> Places]
      /\ fd_' \in [Co -> Fds \cup {NoFd}]
  BY <1>1
<1>3. CallType'
  BY <1>2 DEF CallType, Calls, Results, Places
<1>4. OthersKept(c)
  <2>1. fd_'[c] = g
    BY <1>1
  <2>2. \A d \in Co \ {c} : pc'[d] = pc[d] /\ fd_'[d] = fd_[d] /\ call'[d] = call[d] /\ res'[d] = res[d]
    BY <1>1
  <2> QED
    BY <2>1, <2>2 DEF OthersKept
<1> QED
  BY <1>3, <1>4 DEF StepOf

\* NoCall is a call like the others.
LEMMA NoCallType == NoCall \in Calls /\ NoCall.op = "none" /\ NoCall.n = 0
  BY MinMax DEF NoCall, Calls, Ops, Kinds

\* The EXCEPT forms of what is left alone.
LEMMA Same ==
  ASSUME NEW S, NEW T, NEW f \in [S -> T], NEW x \in S
  PROVE  f = [f EXCEPT ![x] = f[x]]
  OBVIOUS

\* A step of the one that runs which leaves the descriptors of all as they are.
LEMMA QuietStep ==
  ASSUME ClientInv, NEW c \in Co, Running(c), UNCHANGED <<kernel, g_socket_inf, fd_>>,
         errno' \in {"EAGAIN", "EINTR", "other"}, fate' \in {"alive", "killed"},
         UNCHANGED <<active, destroy_co>>,
         NEW k \in Calls, NEW r \in Results, NEW p \in Places \ {"new"},
         call' = [call EXCEPT ![c] = k], res' = [res EXCEPT ![c] = r], pc' = [pc EXCEPT ![c] = p],
         fd_[c] # NoFd <=> p \in {"connect", "connected", "used"},
         k # NoCall => InCall(c)', k.op # "send" \/ (k.fd = call[c].fd /\ k.n = call[c].n /\ call[c].op = "send"),
         p = "connected" /\ k = NoCall /\ r = "ok" => sock[fd_[c]].state = "open"
  PROVE  StepOf(c)
<1>1. /\ call \in [Co -> Calls] /\ res \in [Co -> Results] /\ pc \in [Co -> Places]
      /\ fd_ \in [Co -> Fds \cup {NoFd}] /\ sock' = sock /\ stream' = stream
      /\ g_socket_inf' = g_socket_inf /\ fd_' = fd_
  BY RunFacts DEF kernel
<1>2. KernelType'
  BY <1>1, TypeParts DEF ClientInv, KernelType
<1>3. call'[c] = k /\ res'[c] = r /\ pc'[c] = p
  BY <1>1
<1>4. OwnKept(c)
  <2>1. fd_[c] # NoFd => sock[fd_[c]].state # "free" /\ g_socket_inf[fd_[c]] = socket_inf
    BY RunFacts
  <2>2. Watched = Fds /\ k.op = "send" /\ k.n > 0 => stream[k.fd] = <<c, k.n>>
    BY DEF ClientInv, Streams, Contiguous
  <2> QED
    BY <1>1, <1>3, <2>1, <2>2 DEF OwnKept
<1>5. fd_' = [fd_ EXCEPT ![c] = fd_[c]] /\ fd_[c] \in Fds \cup {NoFd}
  BY <1>1
<1> QED
  BY <1>1, <1>2, <1>4, <1>5, Stepped

\* co_register with a timeout the wheel holds suspends its caller.
LEMMA Registers ==
  ASSUME NEW c, NEW op, NEW fd, NEW n, co_register(c, op, fd, n, "ms")
  PROVE  /\ Suspend(c, fd, TRUE) /\ res' = [res EXCEPT ![c] = "none"]
         /\ call' = [call EXCEPT ![c] = [op |-> op, fd |-> fd, n |-> n, kind |-> "ms"]]
         /\ UNCHANGED <<active, destroy_co>>
<1>1. ("ms" = "ms") = TRUE
  OBVIOUS
<1>2. Suspend(c, fd, "ms" = "ms") => Suspend(c, fd, TRUE)
  BY <1>1
<1> QED
  BY <1>2 DEF co_register, Suspend

\* What the loop keeps when nobody is suspended.
LEMMA LoopKept ==
  UNCHANGED loop => UNCHANGED <<st, stack, rfd, timer, is_timeout, item_map, interest, active, destroy_co>>
  BY DEF loop

\* A wait that timed out ends the wrapper.
LEMMA TimesOutStep ==
  ASSUME ClientInv, NEW c \in Co, Running(c), Alive, TimesOut(c), UNCHANGED <<pc, fd_>>
  PROVE  ClientInv'
<1>1. /\ call' = [call EXCEPT ![c] = NoCall] /\ res' = [res EXCEPT ![c] = "TIME_OUT"]
      /\ UNCHANGED <<loop, kernel, g_socket_inf, errno, fate, fd_>> /\ fate = "alive"
  BY DEF TimesOut, Return, Alive
<1>2. pc' = [pc EXCEPT ![c] = pc[c]] /\ pc[c] \in Places \ {"new"} /\ stack = <<c>>
      /\ (fd_[c] # NoFd <=> pc[c] \in {"connect", "connected", "used"}) /\ errno \in {"EAGAIN", "EINTR", "other"}
  BY RunFacts, Same
<1>3. UNCHANGED <<st, stack, rfd, timer, is_timeout, item_map, interest, active, destroy_co>>
  BY <1>1, LoopKept
<1>4. StepOf(c)
  BY <1>1, <1>2, <1>3, NoCallType, QuietStep DEF Results
<1> QED
  BY <1>1, <1>2, <1>3, <1>4, ReturnStep

\* The end of a sleep.
LEMMA SleepWokenStep ==
  ASSUME ClientInv, NEW c \in Co, SleepWoken(c), UNCHANGED <<pc, fd_>>
  PROVE  ClientInv'
  BY TimesOutStep DEF SleepWoken, Woken

\* A sleep.
LEMMA PauseStep ==
  ASSUME ClientInv, NEW c \in Co, Pause(c)
  PROVE  ClientInv'
<1> DEFINE k == [op |-> "sleep", fd |-> NoFd, n |-> 0, kind |-> "ms"]
<1>1. /\ Running(c) /\ fate = "alive" /\ pc[c] = "sleep" /\ pc' = [pc EXCEPT ![c] = "socket"]
      /\ UNCHANGED <<kernel, g_socket_inf, errno, fate, fd_>>
      /\ co_register(c, "sleep", NoFd, 0, "ms")
  BY DEF Pause, Sleep, Free, Alive, Goto
<1>2. Suspend(c, NoFd, TRUE) /\ call' = [call EXCEPT ![c] = k] /\ res' = [res EXCEPT ![c] = "none"]
      /\ UNCHANGED <<active, destroy_co>>
  <2>1. Suspend(c, NoFd, TRUE) /\ UNCHANGED <<active, destroy_co>>
    BY <1>1, Registers
  <2>2. call' = [call EXCEPT ![c] = k] /\ res' = [res EXCEPT ![c] = "none"]
    BY <1>1 DEF co_register
  <2> QED
    BY <2>1, <2>2
<1>3. k \in Calls /\ k # NoCall /\ k.op = "sleep" /\ k.fd = NoFd
  BY MinMax DEF Calls, Ops, Kinds, NoCall
<1> HIDE DEF k
<1>4. fd_[c] = NoFd /\ stack = <<c>> /\ call'[c] = k /\ pc'[c] = "socket" /\ errno \in {"EAGAIN", "EINTR", "other"}
  BY <1>1, <1>2, RunFacts
<1>5. InCall(c)'
  BY <1>3, <1>4 DEF InCall
<1>6. StepOf(c)
  BY <1>1, <1>2, <1>3, <1>4, <1>5, QuietStep DEF Results, Places
<1> QED
  BY <1>1, <1>2, <1>3, <1>4, <1>6, SuspendStep

\* The answer to a connection attempt, or the next try.
LEMMA ConnectWokenStep ==
  ASSUME ClientInv, NEW c \in Co, ConnectWoken(c), UNCHANGED <<pc, fd_>>
  PROVE  ClientInv'
<1>0. PICK fd, n : fd = call[c].fd /\ n = call[c].n
  OBVIOUS
<1>1. Running(c) /\ fate = "alive" /\ call[c].op = "connect" /\ UNCHANGED <<kernel, g_socket_inf, fate, fd_>>
  BY DEF ConnectWoken, Woken, Alive
<1>2. call[c] # NoCall
  BY <1>1, NoCallType
<1>3. fd = fd_[c] /\ pc[c] = "connected" /\ n <= Tries
  BY <1>0, <1>1, <1>2, RunFacts DEF InCall
<1>4. pc' = [pc EXCEPT ![c] = pc[c]] /\ pc[c] \in Places \ {"new"} /\ stack = <<c>>
      /\ (fd_[c] # NoFd <=> pc[c] \in {"connect", "connected", "used"}) /\ errno \in {"EAGAIN", "EINTR", "other"}
      /\ fd_[c] \in Fds /\ n \in Nat
  BY <1>0, <1>1, <1>3, RunFacts, Same, MinMax DEF Calls
<1>5. CASE n < Tries /\ co_register(c, "connect", fd, n + 1, "ms") /\ UNCHANGED errno
  <2> DEFINE k == [op |-> "connect", fd |-> fd, n |-> n + 1, kind |-> "ms"]
  <2>1. Suspend(c, fd, TRUE) /\ call' = [call EXCEPT ![c] = k] /\ res' = [res EXCEPT ![c] = "none"]
        /\ UNCHANGED <<active, destroy_co>>
    <3>1. Suspend(c, fd, TRUE) /\ UNCHANGED <<active, destroy_co>>
      BY <1>5, Registers
    <3>2. call' = [call EXCEPT ![c] = k] /\ res' = [res EXCEPT ![c] = "none"]
      BY <1>5 DEF co_register
    <3> QED
      BY <3>1, <3>2
  <2>2. k \in Calls /\ k # NoCall /\ k.op = "connect" /\ k.fd = fd /\ k.n <= Tries
    BY <1>3, <1>4, <1>5, MinMax DEF Calls, Ops, Kinds, NoCall, Tries
  <2> HIDE DEF k
  <2>3. call'[c] = k
    BY <1>1, <2>1, RunFacts
  <2>4. InCall(c)'
    BY <1>1, <1>3, <2>2, <2>3 DEF InCall
  <2>5. StepOf(c)
    BY <1>1, <1>3, <1>4, <1>5, <2>1, <2>2, <2>4, QuietStep DEF Results
  <2> QED
    BY <1>1, <1>4, <2>1, <2>2, <2>3, <2>5, SuspendStep
<1>6. ASSUME NEW r \in {"TIME_OUT", "fail", "ok"}, r = "ok" => sock[fd].state = "open",
             errno' \in {"EAGAIN", "EINTR", "other"}, Return(c, r), UNCHANGED loop
      PROVE  ClientInv'
  <2>1. call' = [call EXCEPT ![c] = NoCall] /\ res' = [res EXCEPT ![c] = r]
    BY <1>6 DEF Return
  <2>2. UNCHANGED <<st, stack, rfd, timer, is_timeout, item_map, interest, active, destroy_co>>
    BY <1>6, LoopKept
  <2>3. StepOf(c)
    BY <1>1, <1>3, <1>4, <1>6, <2>1, <2>2, NoCallType, QuietStep DEF Results
  <2> QED
    BY <1>4, <2>1, <2>2, <2>3, ReturnStep
<1>7. CASE errno' = "other" /\ Return(c, "TIME_OUT") /\ UNCHANGED loop
  BY <1>6, <1>7
<1>8. CASE /\ ~is_timeout[c] /\ UNCHANGED loop
           /\ \E r \in SoError(fd) : Return(c, r) /\ errno' = IF r = "ok" THEN errno ELSE "other"
  <2>1. sock[fd].state # "connecting"
    BY <1>0, <1>1, <1>8, RunFacts DEF ClientInv, Answered
  <2> QED
    BY <1>4, <1>6, <1>8, <2>1 DEF SoError
<1> QED
  BY <1>0, <1>5, <1>7, <1>8 DEF ConnectWoken

\* A new socket: the descriptor is free, so nobody's.
LEMMA SocketStep ==
  ASSUME ClientInv, NEW c \in Co, Socket(c)
  PROVE  ClientInv'
<1>1. PICK fd \in Fds \cup {NoFd} :
        /\ co_socket(c, fd) /\ fd_' = [fd_ EXCEPT ![c] = fd]
        /\ pc' = [pc EXCEPT ![c] = IF fd = NoFd THEN "sleep" ELSE "connect"]
  BY DEF Socket, Goto
<1>2. pc[c] = "socket" /\ Running(c) /\ fate = "alive" /\ UNCHANGED <<loop, fate>>
  BY <1>1 DEF Socket, co_socket, Free, Alive
<1>3. stack = <<c>> /\ fd_[c] = NoFd /\ errno \in {"EAGAIN", "EINTR", "other"}
  BY <1>2, RunFacts
<1>4. UNCHANGED <<st, stack, rfd, timer, is_timeout, item_map, interest, active, destroy_co>>
  BY <1>2, LoopKept
<1>5. CASE fd = NoFd
  <2>1. /\ errno' = "other" /\ call' = [call EXCEPT ![c] = NoCall] /\ res' = [res EXCEPT ![c] = "fail"]
        /\ UNCHANGED <<kernel, g_socket_inf>> /\ pc' = [pc EXCEPT ![c] = "sleep"]
    BY <1>1, <1>5 DEF co_socket, Return
  <2>2. UNCHANGED fd_
    BY <1>1, <1>2, <1>3, <1>5, RunFacts
  <2>3. StepOf(c)
    BY <1>2, <1>3, <1>4, <2>1, <2>2, NoCallType, QuietStep DEF Results, Places
  <2> QED
    BY <1>3, <1>4, <2>1, <2>3, ReturnStep
<1>6. CASE fd # NoFd
  <2> DEFINE s == NewSock("idle")
  <2>1. /\ sock' = [sock EXCEPT ![fd] = s]
        /\ stream' = [f \in Watched |-> IF f = fd THEN NoUnit ELSE stream[f]]
        /\ g_socket_inf' = [g_socket_inf EXCEPT ![fd] = socket_inf]
        /\ call' = [call EXCEPT ![c] = NoCall] /\ res' = [res EXCEPT ![c] = "ok"] /\ UNCHANGED errno
        /\ pc' = [pc EXCEPT ![c] = "connect"] /\ fd = NewFd
    BY <1>1, <1>6 DEF co_socket, Open, Record, AddInf, Return
  <2>2. s \in Sockets /\ s.state = "idle"
    BY DEF NewSock, Sockets
  <2> HIDE DEF s
  <2>3. fd \in Fds /\ sock[fd].state = "free"
    <3>1. FreeFds # {}
      BY <1>6, <2>1 DEF NewFd
    <3> QED
      BY <2>1, <3>1, LowestFree DEF FreeFds
  <2>4. KernelType'
    BY <1>2, <2>1, <2>2, <2>3, RunFacts DEF KernelType, socket_inf, Kinds, NoUnit
  <2>5. fd_'[c] = fd /\ pc'[c] = "connect" /\ call'[c] = NoCall /\ sock'[fd] = s /\ g_socket_inf'[fd] = socket_inf
    BY <1>1, <1>2, <2>1, <2>3, RunFacts
  <2>6. OwnKept(c)
    BY <1>3, <1>6, <2>2, <2>3, <2>5, NoCallType DEF OwnKept
  <2>7. \A f \in Fds : f # fd_[c] /\ f # fd =>
          /\ sock'[f] = sock[f] /\ g_socket_inf'[f] = g_socket_inf[f]
          /\ f \in Watched => stream'[f] = stream[f]
    BY <1>2, <2>1, RunFacts
  <2>8. StepOf(c)
    <3>1. errno' \in {"EAGAIN", "EINTR", "other"} /\ fate' \in {"alive", "killed"} /\ UNCHANGED <<active, destroy_co>>
          /\ NoCall \in Calls /\ "ok" \in Results /\ "connect" \in Places
      BY <1>2, <1>3, <1>4, <2>1, NoCallType DEF Results, Places
    <3> QED
      BY <1>1, <1>2, <2>1, <2>4, <2>6, <2>7, <3>1, Stepped
  <2> QED
    BY <1>3, <1>4, <2>1, <2>8, ReturnStep
<1> QED
  BY <1>5, <1>6

\* The socket of c, its stream, its call, its result and its place become s, u, k, r and p.
OwnEffect(c, fd, s, u, k, r, p) ==
  /\ fd = fd_[c] /\ fd # NoFd /\ UNCHANGED <<fd_, g_socket_inf>>
  /\ s \in Sockets /\ s.state # "free" /\ sock' = [sock EXCEPT ![fd] = s]
  /\ u \in (Co \cup {NoCo}) \X (0 .. MsgLen)
  /\ stream' = [f \in Watched |-> IF f = fd THEN u ELSE stream[f]]
  /\ errno' \in {"EAGAIN", "EINTR", "other"} /\ fate' \in {"alive", "killed"} /\ UNCHANGED <<active, destroy_co>>
  /\ k \in Calls /\ r \in Results /\ p \in {"connected", "used"}
  /\ call' = [call EXCEPT ![c] = k] /\ res' = [res EXCEPT ![c] = r] /\ pc' = [pc EXCEPT ![c] = p]
  /\ k # NoCall => InCall(c)'
  /\ k.op = "send" /\ k.n > 0 => k.fd = fd /\ u = <<c, k.n>>
  /\ p = "connected" /\ k = NoCall /\ r = "ok" => s.state = "open"

\* Its own socket changes and stays.
LEMMA OwnSocket ==
  ASSUME ClientInv, NEW c \in Co, Running(c), NEW fd, NEW s, NEW u, NEW k, NEW r, NEW p,
         OwnEffect(c, fd, s, u, k, r, p)
  PROVE  StepOf(c)
<1> USE DEF OwnEffect
<1>1. /\ call \in [Co -> Calls] /\ res \in [Co -> Results] /\ pc \in [Co -> Places]
      /\ fd_ \in [Co -> Fds \cup {NoFd}] /\ sock \in [Fds -> Sockets] /\ fd_[c] \in Fds
      /\ g_socket_inf[fd_[c]] = socket_inf
  BY RunFacts
<1>2. KernelType'
  BY <1>1, TypeParts DEF ClientInv, KernelType
<1>3. call'[c] = k /\ res'[c] = r /\ pc'[c] = p /\ fd_'[c] = fd_[c] /\ sock'[fd_[c]] = s
  BY <1>1
<1>4. OwnKept(c)
  <2>1. Watched = Fds /\ k.op = "send" /\ k.n > 0 => stream'[k.fd] = <<c, k.n>>
    BY <1>1
  <2> QED
    BY <1>1, <1>3, <2>1 DEF OwnKept
<1>5. \A f \in Fds : f # fd_[c] => sock'[f] = sock[f] /\ (f \in Watched => stream'[f] = stream[f])
  BY <1>1
<1>6. fd_' = [fd_ EXCEPT ![c] = fd_[c]] /\ fd_[c] \in Fds \cup {NoFd} /\ p \in Places
  BY <1>1 DEF Places
<1> QED
  BY <1>1, <1>2, <1>4, <1>5, <1>6, Stepped

\* The stream as the function that a write sets at one place.
LEMMA StreamSame ==
  ASSUME ClientInv, NEW fd \in Fds, UNCHANGED stream
  PROVE  \E u \in (Co \cup {NoCo}) \X (0 .. MsgLen) :
           /\ stream' = [f \in Watched |-> IF f = fd THEN u ELSE stream[f]]
           /\ Watched = Fds => u = stream[fd]
<1>1. stream \in [Watched -> (Co \cup {NoCo}) \X (0 .. MsgLen)]
  BY TypeParts DEF ClientInv, KernelType
<1>2. CASE fd \in Watched
  <2>1. stream[fd] \in (Co \cup {NoCo}) \X (0 .. MsgLen)
    BY <1>1, <1>2
  <2>2. stream' = [f \in Watched |-> IF f = fd THEN stream[fd] ELSE stream[f]]
    BY <1>1, <1>2
  <2> QED
    BY <2>1, <2>2
<1>3. CASE fd \notin Watched
  <2>1. NoUnit \in (Co \cup {NoCo}) \X (0 .. MsgLen)
    BY DEF NoUnit
  <2>2. stream' = [f \in Watched |-> IF f = fd THEN NoUnit ELSE stream[f]]
    BY <1>1, <1>3
  <2> QED
    BY <1>3, <2>1, <2>2
<1> QED
  BY <1>2, <1>3

\* connect, which nobody else does on this descriptor.
LEMMA ConnectStep ==
  ASSUME ClientInv, NEW c \in Co, Connect(c)
  PROVE  ClientInv'
<1>0. PICK fd : fd = fd_[c]
  OBVIOUS
<1>1. /\ Running(c) /\ fate = "alive" /\ pc[c] = "connect" /\ pc' = [pc EXCEPT ![c] = "connected"]
      /\ UNCHANGED <<stream, g_socket_inf, fate, fd_>> /\ co_connect(c, fd)
  BY <1>0 DEF Connect, co_connect, Free, Alive, Goto
<1>2. /\ stack = <<c>> /\ fd \in Fds /\ fd # NoFd /\ errno \in {"EAGAIN", "EINTR", "other"}
      /\ sock[fd] \in Sockets /\ sock \in [Fds -> Sockets] /\ sock[fd].state # "free"
      /\ call \in [Co -> Calls] /\ pc \in [Co -> Places]
  BY <1>0, <1>1, RunFacts
<1>3. PICK u \in (Co \cup {NoCo}) \X (0 .. MsgLen) :
        stream' = [f \in Watched |-> IF f = fd THEN u ELSE stream[f]]
  BY <1>1, <1>2, StreamSame
<1>4. ASSUME NEW s \in Sockets, s.state # "free", sock' = [sock EXCEPT ![fd] = s],
             NEW r \in {"ok", "fail"}, r = "ok" => s.state = "open",
             errno' \in {"EAGAIN", "EINTR", "other"}, Return(c, r), UNCHANGED loop
      PROVE  ClientInv'
  <2>1. call' = [call EXCEPT ![c] = NoCall] /\ res' = [res EXCEPT ![c] = r]
    BY <1>4 DEF Return
  <2>2. UNCHANGED <<st, stack, rfd, timer, is_timeout, item_map, interest, active, destroy_co>>
    BY <1>4, LoopKept
  <2>3. StepOf(c)
    <3>1. r \in Results /\ NoCall \in Calls /\ NoCall.op # "send" /\ fate' \in {"alive", "killed"}
      BY <1>1, NoCallType DEF Results
    <3> QED
      <4>1. OwnEffect(c, fd, s, u, NoCall, r, "connected")
        BY <1>0, <1>1, <1>2, <1>3, <1>4, <2>1, <2>2, <3>1 DEF OwnEffect
      <4> QED
        BY <1>1, <4>1, OwnSocket
  <2> QED
    BY <1>2, <2>1, <2>2, <2>3, ReturnStep
<1>5. CASE sock' = [sock EXCEPT ![fd].state = "open"] /\ Return(c, "ok") /\ UNCHANGED <<loop, errno>>
  <2> DEFINE s == [sock[fd] EXCEPT !.state = "open"]
  <2>1. s \in Sockets /\ s.state = "open" /\ sock' = [sock EXCEPT ![fd] = s]
    BY <1>2, <1>5 DEF Sockets
  <2> QED
    BY <1>2, <1>4, <1>5, <2>1
<1>6. CASE errno' = "other" /\ Return(c, "fail") /\ UNCHANGED <<loop, sock>>
  <2>1. sock' = [sock EXCEPT ![fd] = sock[fd]]
    BY <1>2, <1>6
  <2> QED
    BY <1>2, <1>4, <1>6, <2>1
<1>7. CASE sock' = [sock EXCEPT ![fd].state = "connecting"] /\ errno' = "other" /\ co_register(c, "connect", fd, 1, "ms")
  <2> DEFINE s == [sock[fd] EXCEPT !.state = "connecting"]
             k == [op |-> "connect", fd |-> fd, n |-> 1, kind |-> "ms"]
  <2>1. s \in Sockets /\ s.state = "connecting" /\ sock' = [sock EXCEPT ![fd] = s]
    BY <1>2, <1>7 DEF Sockets
  <2>2. Suspend(c, fd, TRUE) /\ UNCHANGED <<active, destroy_co>>
    BY <1>7, Registers
  <2>3. call' = [call EXCEPT ![c] = k] /\ res' = [res EXCEPT ![c] = "none"]
    BY <1>7 DEF co_register
  <2>4. k \in Calls /\ k # NoCall /\ k.op = "connect" /\ k.fd = fd /\ k.n <= Tries
    <3>1. 1 \in 0 .. Max({3, MsgLen})
      BY MinMax
    <3>2. k \in Calls /\ k.op = "connect" /\ k.fd = fd /\ k.n <= Tries
      BY <1>2, <3>1 DEF Calls, Ops, Kinds, Tries
    <3> QED
      BY <3>2, NoCallType
  <2> HIDE DEF s, k
  <2>5. call'[c] = k /\ pc'[c] = "connected"
    BY <1>1, <1>2, <2>3
  <2>6. InCall(c)'
    BY <1>0, <1>1, <2>4, <2>5 DEF InCall
  <2>7. StepOf(c)
    <3>1. "none" \in Results /\ fate' \in {"alive", "killed"} /\ errno' \in {"EAGAIN", "EINTR", "other"}
      BY <1>1, <1>7 DEF Results
    <3> QED
      <4>1. OwnEffect(c, fd, s, u, k, "none", "connected")
        BY <1>0, <1>1, <1>2, <1>3, <2>1, <2>2, <2>3, <2>4, <2>6, <3>1 DEF OwnEffect
      <4> QED
        BY <1>1, <4>1, OwnSocket
  <2> QED
    BY <1>1, <1>2, <2>2, <2>4, <2>5, <2>7, SuspendStep
<1> QED
  BY <1>1, <1>5, <1>6, <1>7 DEF co_connect

\* close: nobody waits on the descriptor of a client that runs.
LEMMA CloseStep ==
  ASSUME ClientInv, NEW c \in Co, Close(c)
  PROVE  ClientInv'
<1>0. PICK fd : fd = fd_[c]
  OBVIOUS
<1>1. /\ Running(c) /\ fate = "alive" /\ pc[c] \in {"connected", "used"} /\ pc' = [pc EXCEPT ![c] = "sleep"]
      /\ fd_' = [fd_ EXCEPT ![c] = NoFd] /\ UNCHANGED <<errno, fate>>
      /\ CloseSocket(fd) /\ Closed(fd)
      /\ call' = [call EXCEPT ![c] = NoCall] /\ res' = [res EXCEPT ![c] = "ok"]
  BY <1>0 DEF Close, co_close, Free, Alive, Goto, Return
<1>2. /\ stack = <<c>> /\ st[c] = "run" /\ fd \in Fds /\ fd # NoFd /\ errno \in {"EAGAIN", "EINTR", "other"}
      /\ sock \in [Fds -> Sockets] /\ g_socket_inf[fd] = socket_inf
      /\ call \in [Co -> Calls] /\ pc \in [Co -> Places] /\ fd_ \in [Co -> Fds \cup {NoFd}]
      /\ stream \in [Watched -> (Co \cup {NoCo}) \X (0 .. MsgLen)]
      /\ g_socket_inf \in [Fds -> [entry : {"none", "null", "inf"}, read : Kinds, write : Kinds]]
  BY <1>0, <1>1, RunFacts
<1>3. interest \in [Fds -> Co \cup {NoCo}]
  BY TypeParts DEF ClientInv, LoopType
<1>4. interest[fd] = NoCo
  <2> SUFFICES ASSUME interest[fd] # NoCo PROVE FALSE
    OBVIOUS
  <2> DEFINE d == interest[fd]
  <2>1. d \in Co /\ item_map[fd] = d
    BY <1>2, <1>3 DEF ClientInv, EpollOK
  <2>2. st[d] = "wait" /\ rfd[d] = fd
    BY <1>2, <2>1 DEF ClientInv, EpollOK
  <2> HIDE DEF d
  <2>3. fd_[d] = fd
    BY <1>2, <2>1, <2>2 DEF ClientInv, WhereOK, InCall
  <2>4. d = c
    BY <1>0, <1>2, <2>1, <2>3 DEF ClientInv, OwnOK
  <2> QED
    BY <1>2, <2>2, <2>4
<1>5. UNCHANGED <<st, stack, rfd, timer, is_timeout, item_map, interest, active, destroy_co>>
  BY <1>1, <1>2, <1>3, <1>4 DEF Closed, EpollClosed
<1>6. /\ g_socket_inf' = [g_socket_inf EXCEPT ![fd] = NoInf] /\ sock' = [sock EXCEPT ![fd] = FreeSock]
      /\ stream' = [f \in Watched |-> IF f = fd THEN NoUnit ELSE stream[f]]
  <2>1. HasInf(fd)
    BY <1>2 DEF HasInf, socket_inf
  <2> QED
    BY <1>1, <2>1 DEF CloseSocket, Record
<1>7. FreeSock \in Sockets /\ FreeSock.state = "free" /\ NoUnit \in (Co \cup {NoCo}) \X (0 .. MsgLen)
      /\ NoInf \in [entry : {"none", "null", "inf"}, read : Kinds, write : Kinds]
  BY DEF FreeSock, Sockets, NoUnit, NoInf, socket_inf, Kinds
<1>8. KernelType'
  BY <1>2, <1>6, <1>7 DEF KernelType
<1>9. OwnKept(c)
  <2>1. /\ fd_'[c] = NoFd /\ pc'[c] = "sleep" /\ call'[c] = NoCall /\ sock'[fd].state = "free"
        /\ g_socket_inf'[fd] = NoInf
    BY <1>1, <1>2, <1>6, <1>7
  <2> QED
    BY <1>0, <2>1, NoCallType DEF OwnKept
<1>10. \A f \in Fds : f # fd_[c] /\ f # NoFd =>
          /\ sock'[f] = sock[f] /\ g_socket_inf'[f] = g_socket_inf[f]
          /\ f \in Watched => stream'[f] = stream[f]
  BY <1>0, <1>2, <1>6
<1>11. StepOf(c)
  <2>1. errno' \in {"EAGAIN", "EINTR", "other"} /\ fate' \in {"alive", "killed"}
        /\ NoCall \in Calls /\ "ok" \in Results /\ "sleep" \in Places /\ NoFd \in Fds \cup {NoFd}
    BY <1>1, <1>2, NoCallType DEF Results, Places
  <2> QED
    BY <1>1, <1>5, <1>8, <1>9, <1>10, <2>1, Stepped
<1> QED
  BY <1>1, <1>2, <1>5, <1>11, ReturnStep

\* What read and recv do to a socket.
LEMMA ReadTypes ==
  ASSUME NEW fd \in Fds, sock \in [Fds -> Sockets], errno \in {"EAGAIN", "EINTR", "other"}
  PROVE  /\ read(fd).s \in Sockets /\ read(fd).s.state = sock[fd].state
         /\ read(fd).e \in {"EAGAIN", "EINTR", "other"} /\ read(fd).r \in {"data", "eof", "fail"}
<1> DEFINE s == sock[fd]
<1>1. s \in Sockets
  OBVIOUS
<1>2. /\ [s EXCEPT !.in = FALSE] \in Sockets /\ [s EXCEPT !.in = FALSE].state = s.state
      /\ [s EXCEPT !.end = "shut"] \in Sockets /\ [s EXCEPT !.end = "shut"].state = s.state
  BY <1>1 DEF Sockets
<1>3. s.end \in {"no", "fin", "rst", "shut"}
  BY <1>1 DEF Sockets
<1>4. \/ read(fd) = [r |-> "data", s |-> [s EXCEPT !.in = FALSE], e |-> errno]
      \/ read(fd) = [r |-> "eof", s |-> s, e |-> errno]
      \/ read(fd) = [r |-> "fail", s |-> [s EXCEPT !.end = "shut"], e |-> "other"]
      \/ read(fd) = [r |-> "fail", s |-> s, e |-> "EAGAIN"]
      \/ read(fd) = [r |-> "fail", s |-> s, e |-> "other"]
  BY <1>3 DEF read
<1> HIDE DEF s
<1>5. ASSUME NEW r \in {"data", "eof", "fail"}, NEW t \in Sockets, t.state = s.state,
             NEW e \in {"EAGAIN", "EINTR", "other"}, read(fd) = [r |-> r, s |-> t, e |-> e]
      PROVE  /\ read(fd).s \in Sockets /\ read(fd).s.state = s.state
             /\ read(fd).e \in {"EAGAIN", "EINTR", "other"} /\ read(fd).r \in {"data", "eof", "fail"}
  BY <1>5
<1> QED
  BY <1>1, <1>2, <1>4, <1>5 DEF s

\* read and recv behind their co_register.
LEMMA ReadWokenStep ==
  ASSUME ClientInv, NEW c \in Co, ReadWoken(c), UNCHANGED <<pc, fd_>>
  PROVE  ClientInv'
<1>0. PICK fd : fd = call[c].fd
  OBVIOUS
<1>1. Running(c) /\ Alive /\ fate = "alive" /\ call[c].op \in {"read", "recv"}
  BY DEF ReadWoken, Woken, Alive
<1>2. call[c] # NoCall
  BY <1>1, NoCallType
<1>3. fd = fd_[c] /\ pc[c] = "used"
  BY <1>0, <1>1, <1>2, RunFacts DEF InCall
<1>4. CASE TimesOut(c)
  BY <1>1, <1>4, TimesOutStep
<1>5. CASE ~TimesOut(c)
  <2>1. /\ sock' = [sock EXCEPT ![fd] = read(fd).s] /\ errno' = read(fd).e
        /\ call' = [call EXCEPT ![c] = NoCall] /\ res' = [res EXCEPT ![c] = read(fd).r]
        /\ UNCHANGED <<loop, stream, g_socket_inf, fate>>
    BY <1>0, <1>5 DEF ReadWoken, Return
  <2>2. /\ stack = <<c>> /\ fd \in Fds /\ fd # NoFd /\ errno \in {"EAGAIN", "EINTR", "other"}
        /\ sock \in [Fds -> Sockets] /\ sock[fd].state # "free" /\ pc \in [Co -> Places]
    BY <1>1, <1>3, RunFacts
  <2>3. PICK s, e, r : s = read(fd).s /\ e = read(fd).e /\ r = read(fd).r
    OBVIOUS
  <2>4. s \in Sockets /\ s.state # "free" /\ e \in {"EAGAIN", "EINTR", "other"} /\ r \in Results
    BY <2>2, <2>3, ReadTypes DEF Results
  <2>5. PICK u \in (Co \cup {NoCo}) \X (0 .. MsgLen) :
          stream' = [f \in Watched |-> IF f = fd THEN u ELSE stream[f]]
    BY <2>1, <2>2, StreamSame
  <2>6. UNCHANGED <<st, stack, rfd, timer, is_timeout, item_map, interest, active, destroy_co>>
    BY <2>1, LoopKept
  <2>7. StepOf(c)
    <3>1. NoCall \in Calls /\ NoCall.op # "send" /\ fate' \in {"alive", "killed"}
          /\ pc' = [pc EXCEPT ![c] = "used"] /\ "used" \in {"connected", "used"} /\ "used" # "connected"
      BY <1>1, <1>3, <2>1, <2>2, NoCallType
    <3> QED
      <4>1. OwnEffect(c, fd, s, u, NoCall, r, "used")
        BY <1>1, <1>3, <2>1, <2>2, <2>3, <2>4, <2>5, <2>6, <3>1 DEF OwnEffect
      <4> QED
        BY <1>1, <4>1, OwnSocket
  <2> QED
    BY <2>1, <2>2, <2>6, <2>7, ReturnStep
<1> QED
  BY <1>4, <1>5

\* What write and send do to the socket and the stream of their caller.
LEMMA WriteEffect ==
  ASSUME ClientInv, NEW c \in Co, Running(c), NEW fd \in Fds, sock[fd].state # "free", fate = "alive",
         NEW n \in 0 .. MsgLen - 1, NEW k, k = Takes(fd, n), write(c, fd, n)
  PROVE  /\ k \in 0 .. MsgLen - n
         /\ errno' \in {"EAGAIN", "EINTR", "other"} /\ fate' \in {"alive", "killed"}
         /\ \E s \in Sockets, u \in (Co \cup {NoCo}) \X (0 .. MsgLen) :
              /\ s.state # "free" /\ sock' = [sock EXCEPT ![fd] = s]
              /\ stream' = [f \in Watched |-> IF f = fd THEN u ELSE stream[f]]
              /\ k > 0 /\ n + k # MsgLen => u = <<c, n + k>>
<1>1. /\ sock \in [Fds -> Sockets] /\ errno \in {"EAGAIN", "EINTR", "other"} /\ sock[fd] \in Sockets
      /\ sock[fd].room \in 0 .. Room
  BY RunFacts DEF Sockets
<1>2. k \in 0 .. MsgLen - n /\ k <= sock[fd].room
  BY <1>1, TakesSome
<1>3. CASE k > 0 /\ sock' = [sock EXCEPT ![fd].room = @ - k] /\ UNCHANGED <<errno, fate>>
           /\ Record(fd, IF Piece(n, k) = MsgLen THEN NoUnit ELSE <<c, Piece(n, k)>>)
  <2> DEFINE s == [sock[fd] EXCEPT !.room = @ - k]
             u == IF n + k = MsgLen THEN NoUnit ELSE <<c, n + k>>
  <2>1. sock[fd].room - k \in 0 .. Room
    BY <1>1, <1>2
  <2>2. s \in Sockets /\ s.state = sock[fd].state /\ sock' = [sock EXCEPT ![fd] = s]
    BY <1>1, <1>3, <2>1 DEF Sockets
  <2>3. u \in (Co \cup {NoCo}) \X (0 .. MsgLen) /\ (n + k # MsgLen => u = <<c, n + k>>)
    BY <1>2 DEF NoUnit
  <2>4. stream' = [f \in Watched |-> IF f = fd THEN u ELSE stream[f]]
    BY <1>3 DEF Record, Piece
  <2> HIDE DEF s, u
  <2> QED
    BY <1>1, <1>2, <1>3, <2>2, <2>3, <2>4
<1>4. ASSUME NEW s \in Sockets, s.state = sock[fd].state, sock' = [sock EXCEPT ![fd] = s], UNCHANGED stream, k = 0
      PROVE  \E u \in (Co \cup {NoCo}) \X (0 .. MsgLen) :
               /\ s.state # "free" /\ sock' = [sock EXCEPT ![fd] = s]
               /\ stream' = [f \in Watched |-> IF f = fd THEN u ELSE stream[f]]
               /\ k > 0 /\ n + k # MsgLen => u = <<c, n + k>>
  <2>1. PICK u \in (Co \cup {NoCo}) \X (0 .. MsgLen) :
          stream' = [f \in Watched |-> IF f = fd THEN u ELSE stream[f]]
    BY <1>4, StreamSame
  <2> QED
    BY <1>4, <2>1
<1>5. CASE k = 0 /\ UNCHANGED <<sock, stream>> /\ fate' \in {"alive", "killed"} /\ errno' \in {"EAGAIN", "EINTR", "other"}
  <2>1. sock' = [sock EXCEPT ![fd] = sock[fd]]
    BY <1>1, <1>5
  <2> QED
    BY <1>1, <1>2, <1>4, <1>5, <2>1
<1>6. CASE /\ k = 0 /\ sock' = [sock EXCEPT ![fd].end = "shut"] /\ errno' = "other" /\ UNCHANGED <<stream, fate>>
  <2> DEFINE s == [sock[fd] EXCEPT !.end = "shut"]
  <2>1. s \in Sockets /\ s.state = sock[fd].state /\ sock' = [sock EXCEPT ![fd] = s]
    BY <1>1, <1>6 DEF Sockets
  <2> HIDE DEF s
  <2> QED
    BY <1>2, <1>4, <1>6, <2>1
<1>7. sock[fd].end \in {"rst", "shut"} => k = 0
  BY DEF Takes
<1>8. \/ k > 0 /\ sock' = [sock EXCEPT ![fd].room = @ - k] /\ UNCHANGED <<errno, fate>>
         /\ Record(fd, IF Piece(n, k) = MsgLen THEN NoUnit ELSE <<c, Piece(n, k)>>)
      \/ k = 0 /\ UNCHANGED <<sock, stream>> /\ fate' \in {"alive", "killed"} /\ errno' \in {"EAGAIN", "EINTR", "other"}
      \/ k = 0 /\ sock' = [sock EXCEPT ![fd].end = "shut"] /\ errno' = "other" /\ UNCHANGED <<stream, fate>>
  BY <1>1, <1>7 DEF write, kernel
<1> QED
  BY <1>3, <1>5, <1>6, <1>8

\* A write, and the return or the wait behind it.
LEMMA WriteStep ==
  ASSUME ClientInv, NEW c \in Co, Running(c), fate = "alive", NEW fd, fd = fd_[c], fd # NoFd,
         pc' = [pc EXCEPT ![c] = "used"], UNCHANGED <<fd_, g_socket_inf>>,
         NEW n \in 0 .. MsgLen - 1, NEW k, k = Takes(fd, n), write(c, fd, n),
         \/ UNCHANGED loop /\ \E r \in {"fail", "sent"} : Return(c, r)
         \/ n + k # MsgLen /\ (n # 0 => k # 0) /\ co_register(c, "send", fd, n + k, "ms")
  PROVE  ClientInv'
<1>1. stack = <<c>> /\ fd \in Fds /\ sock[fd].state # "free" /\ call \in [Co -> Calls] /\ pc \in [Co -> Places]
  BY RunFacts
<1>2. k \in 0 .. MsgLen - n /\ errno' \in {"EAGAIN", "EINTR", "other"} /\ fate' \in {"alive", "killed"}
  BY <1>1, WriteEffect
<1>3. PICK s \in Sockets, u \in (Co \cup {NoCo}) \X (0 .. MsgLen) :
              /\ s.state # "free" /\ sock' = [sock EXCEPT ![fd] = s]
              /\ stream' = [f \in Watched |-> IF f = fd THEN u ELSE stream[f]]
              /\ k > 0 /\ n + k # MsgLen => u = <<c, n + k>>
  BY <1>1, WriteEffect
<1>4. CASE UNCHANGED loop /\ \E r \in {"fail", "sent"} : Return(c, r)
  <2>1. UNCHANGED <<st, stack, rfd, timer, is_timeout, item_map, interest, active, destroy_co>>
    BY <1>4, LoopKept
  <2>2. PICK r \in {"fail", "sent"} : Return(c, r)
    BY <1>4
  <2>3. OwnEffect(c, fd, s, u, NoCall, r, "used")
    BY <1>1, <1>2, <1>3, <2>1, <2>2, NoCallType DEF OwnEffect, Return, Results
  <2>4. StepOf(c)
    BY <2>3, OwnSocket
  <2> QED
    BY <1>1, <2>1, <2>2, <2>4, ReturnStep DEF Return
<1>5. CASE n + k # MsgLen /\ (n # 0 => k # 0) /\ co_register(c, "send", fd, n + k, "ms")
  <2> DEFINE a == [op |-> "send", fd |-> fd, n |-> n + k, kind |-> "ms"]
  <2>1. Suspend(c, fd, TRUE) /\ UNCHANGED <<active, destroy_co>>
    BY <1>5, Registers
  <2>2. call' = [call EXCEPT ![c] = a] /\ res' = [res EXCEPT ![c] = "none"]
    BY <1>5 DEF co_register
  <2>3. n + k \in 0 .. Max({3, MsgLen}) /\ n + k < MsgLen
    BY <1>2, <1>5, MinMax
  <2>4. a \in Calls /\ a.op = "send" /\ a.fd = fd /\ a.n = n + k /\ a.kind = "ms"
    BY <1>1, <2>3 DEF Calls, Ops, Kinds
  <2>5. a # NoCall
    BY <2>4, NoCallType
  <2> HIDE DEF a
  <2>6. call'[c] = a /\ pc'[c] = "used"
    BY <1>1, <2>2
  <2>7. InCall(c)'
    BY <2>3, <2>4, <2>6 DEF InCall
  <2>8. a.n > 0 => u = <<c, a.n>>
    BY <1>2, <1>3, <1>5, <2>4
  <2>9. OwnEffect(c, fd, s, u, a, "none", "used")
    BY <1>1, <1>2, <1>3, <2>1, <2>2, <2>4, <2>5, <2>7, <2>8 DEF OwnEffect, Results
  <2>10. StepOf(c)
    BY <2>9, OwnSocket
  <2> QED
    BY <1>1, <2>1, <2>4, <2>5, <2>6, <2>10, SuspendStep
<1> QED
  BY <1>4, <1>5

\* write and send behind their co_register.
LEMMA WriteWokenStep ==
  ASSUME ClientInv, NEW c \in Co, WriteWoken(c), UNCHANGED <<pc, fd_>>
  PROVE  ClientInv'
<1>0. PICK fd, n, k, m : fd = call[c].fd /\ n = call[c].n /\ k = Takes(fd, n) /\ m = call[c].kind
  OBVIOUS
<1>1. Running(c) /\ Alive /\ fate = "alive" /\ call[c].op \in {"write", "send"}
  BY DEF WriteWoken, Woken, Alive
<1>2. call[c] # NoCall
  BY <1>1, NoCallType
<1>3. fd = fd_[c] /\ pc[c] = "used" /\ n < MsgLen /\ m = "ms" /\ call[c].op = "send"
  BY <1>0, <1>1, <1>2, RunFacts DEF InCall
<1>4. CASE TimesOut(c)
  BY <1>1, <1>4, TimesOutStep
<1>5. CASE ~TimesOut(c)
  <2>1. /\ write(c, fd, n) /\ UNCHANGED g_socket_inf
        /\ \/ UNCHANGED loop /\ \E r \in {"fail", "sent"} : Return(c, r)
           \/ n + k # MsgLen /\ (n # 0 => k # 0) /\ co_register(c, "send", fd, n + k, "ms")
    BY <1>0, <1>3, <1>5 DEF WriteWoken
  <2>2. n \in 0 .. MsgLen - 1 /\ fd # NoFd /\ pc' = [pc EXCEPT ![c] = "used"]
    <3>1. call[c] \in Calls /\ pc \in [Co -> Places] /\ fd # NoFd
      BY <1>1, <1>3, RunFacts
    <3>2. n \in Nat
      BY <1>0, <3>1, MinMax DEF Calls
    <3> QED
      BY <1>3, <3>1, <3>2
  <2> QED
    BY <1>0, <1>1, <1>3, <2>1, <2>2, WriteStep
<1> QED
  BY <1>4, <1>5

\* co_send and co_recv up to their first wait.
LEMMA UseStep ==
  ASSUME ClientInv, NEW c \in Co, Use(c)
  PROVE  ClientInv'
<1>0. PICK fd, k : fd = fd_[c] /\ k = Takes(fd, 0)
  OBVIOUS
<1>1. Running(c) /\ fate = "alive" /\ pc[c] \in {"connected", "used"} /\ UNCHANGED fd_
      /\ pc' = [pc EXCEPT ![c] = "used"]
  BY DEF Use, co_write, co_read, Free, Alive, Goto
<1>2. /\ stack = <<c>> /\ fd # NoFd /\ fd \in Fds /\ HasInf(fd) /\ errno \in {"EAGAIN", "EINTR", "other"}
      /\ g_socket_inf[fd].read = "ms" /\ g_socket_inf[fd].write = "ms"
      /\ call \in [Co -> Calls] /\ pc \in [Co -> Places]
  BY <1>0, <1>1, RunFacts DEF HasInf, socket_inf
<1>3. CASE co_write(c, "send", fd)
  <2>1. /\ write(c, fd, 0) /\ UNCHANGED g_socket_inf
        /\ \/ UNCHANGED loop /\ \E r \in {"fail", "sent"} : Return(c, r)
           \/ k # MsgLen /\ co_register(c, "send", fd, k, "ms")
    BY <1>0, <1>2, <1>3 DEF co_write, CrashOn
  <2>2. k \in Int
    BY <1>0, <1>1, <1>2, TakesSome, RunFacts
  <2>3. 0 + k = k /\ 0 \in 0 .. MsgLen - 1
    BY <2>2
  <2> QED
    BY <1>0, <1>1, <1>2, <2>1, <2>3, WriteStep
<1>4. CASE co_read(c, "recv", fd)
  <2> DEFINE a == [op |-> "recv", fd |-> fd, n |-> 0, kind |-> "ms"]
  <2>1. co_register(c, "recv", fd, 0, "ms") /\ UNCHANGED <<kernel, g_socket_inf, errno, fate>>
    BY <1>2, <1>4 DEF co_read, CrashOn
  <2>2. Suspend(c, fd, TRUE) /\ UNCHANGED <<active, destroy_co>>
    BY <2>1, Registers
  <2>3. call' = [call EXCEPT ![c] = a] /\ res' = [res EXCEPT ![c] = "none"]
    BY <2>1 DEF co_register
  <2>4. a \in Calls /\ a.op = "recv" /\ a.fd = fd /\ a.n = 0 /\ a.kind = "ms"
    <3>1. 0 \in 0 .. Max({3, MsgLen})
      BY MinMax
    <3> QED
      BY <1>2, <3>1 DEF Calls, Ops, Kinds
  <2>5. a # NoCall
    BY <2>4, NoCallType
  <2> HIDE DEF a
  <2>6. call'[c] = a /\ pc'[c] = "used"
    BY <1>1, <1>2, <2>3
  <2>7. InCall(c)'
    BY <1>0, <1>1, <2>4, <2>6 DEF InCall
  <2>8. StepOf(c)
    <3>1. errno' \in {"EAGAIN", "EINTR", "other"} /\ fate' \in {"alive", "killed"} /\ "none" \in Results
          /\ "used" \in Places \ {"new"} /\ UNCHANGED <<kernel, g_socket_inf, fd_>>
      BY <1>1, <1>2, <2>1 DEF Results, Places
    <3> QED
      BY <1>0, <1>1, <1>2, <2>2, <2>3, <2>4, <2>5, <2>7, <3>1, QuietStep
  <2> QED
    BY <1>1, <1>2, <2>2, <2>4, <2>5, <2>6, <2>8, SuspendStep
<1> QED
  BY <1>0, <1>3, <1>4 DEF Use

(***************************************************************************)
(* The start of a client, the loop and the peers.                          *)
(***************************************************************************)

\* The client and the calls keep what they have.
LEMMA QuietRest ==
  ASSUME ClientInv, UNCHANGED <<kernel, g_socket_inf, call, res, fate, fd_>>
  PROVE  KernelType' /\ OwnOK' /\ InfOK' /\ NoCrash' /\ Streams'
<1>1. KernelType' 
  BY TypeParts DEF ClientInv, KernelType, kernel
<1>2. OwnOK' /\ InfOK' /\ NoCrash' /\ Streams'
  BY DEF ClientInv, OwnOK, InfOK, NoCrash, Streams, Contiguous, kernel
<1> QED
  BY <1>1, <1>2

\* main starts a client.
LEMMA StartStep ==
  ASSUME ClientInv, NEW c \in Co, StartClient(c)
  PROVE  ClientInv'
<1>1. /\ stack = <<>> /\ pc[c] = "new" /\ st' = [st EXCEPT ![c] = "run"] /\ stack' = <<c>>
      /\ pc' = [pc EXCEPT ![c] = "socket"] /\ UNCHANGED fd_
      /\ UNCHANGED <<item_map, interest, rfd, timer, is_timeout, active, destroy_co>>
      /\ UNCHANGED <<kernel, g_socket_inf, errno, call, res, fate>>
  BY DEF StartClient, Start, Goto, calls
<1>2. KernelType /\ CallType /\ LoopType /\ StackOK /\ WhereOK /\ EpollOK /\ ActiveOK /\ ConnectTrue
  BY TypeParts DEF ClientInv
<1>3. st \in [Co -> States] /\ pc \in [Co -> Places]
  BY <1>2 DEF LoopType, CallType, Places
<1>4. st[c] = "new" /\ call[c] = NoCall /\ rfd[c] = NoFd /\ fd_[c] = NoFd
  BY <1>1, <1>2 DEF WhereOK
<1>5. KernelType' /\ OwnOK' /\ InfOK' /\ NoCrash' /\ Streams'
  BY <1>1, QuietRest
<1>6. TypeOK'
  <2>1. CallType'
    BY <1>1, <1>2, <1>3 DEF CallType, Places
  <2>2. LoopType'
    BY <1>1, <1>2, <1>3 DEF LoopType, States
  <2> QED
    BY <1>5, <2>1, <2>2 DEF TypeOK, SysTypeOK, KernelType, CallType, LoopType
<1>7. StackOK'
  BY <1>1, <1>2, <1>3 DEF StackOK
<1>8. WhereOK'
  BY <1>1, <1>2, <1>3, <1>4 DEF WhereOK, InCall
<1>9. EpollOK'
  <2>1. \A d \in Co : st'[d] = "wait" <=> st[d] = "wait"
    BY <1>1, <1>3, <1>4
  <2> QED
    BY <1>1, <1>2, <2>1 DEF EpollOK
<1>10. ActiveOK'
  BY <1>1, <1>2, <1>3, <1>4 DEF ActiveOK
<1>11. ConnectTrue'
  BY <1>1, <1>2, <1>3 DEF ConnectTrue, kernel
<1>12. Answered'
  <2>1. \A d \in Co : call[d].op = "connect" => d # c
    BY <1>4 DEF NoCall
  <2> QED
    BY <1>1, <1>3, <2>1 DEF ClientInv, Answered, kernel
<1> QED
  BY <1>5, <1>6, <1>7, <1>8, <1>9, <1>10, <1>11, <1>12 DEF ClientInv

\* The loop resumes the next one, whose registration ends.
LEMMA ResumeStep ==
  ASSUME ClientInv, ResumeNext, UNCHANGED <<pc, fd_>>
  PROVE  ClientInv'
<1>1. PICK c \in Co :
        /\ Resume(c)
        /\ errno' = IF rfd[c] # NoFd /\ item_map[rfd[c]] # NoCo /\ interest[rfd[c]] = NoCo
                    THEN "other" ELSE errno
  BY DEF ResumeNext
<1>2. UNCHANGED <<kernel, g_socket_inf, call, res, fate, fd_>>
  BY DEF ResumeNext
<1>3. /\ stack = <<>> /\ active # <<>> /\ Head(active) = c /\ active' = Tail(active)
      /\ st' = [st EXCEPT ![c] = "run"] /\ stack' = <<c>> /\ rfd' = [rfd EXCEPT ![c] = NoFd]
      /\ timer' = [timer EXCEPT ![c] = FALSE] /\ UNCHANGED <<is_timeout, destroy_co>>
  BY <1>1 DEF Resume
<1>4. KernelType /\ CallType /\ LoopType /\ StackOK /\ WhereOK /\ EpollOK /\ ActiveOK /\ ConnectTrue
  BY TypeParts DEF ClientInv
<1>5. /\ item_map \in [Fds -> Co \cup {NoCo}] /\ interest \in [Fds -> Co \cup {NoCo}]
      /\ st \in [Co -> States] /\ rfd \in [Co -> Fds \cup {NoFd}] /\ active \in Seq(Co)
      /\ destroy_co \in Seq(Co)
  BY <1>4 DEF LoopType
<1>6. timer \in [Co -> BOOLEAN] /\ is_timeout \in [Co -> BOOLEAN]
  BY <1>4 DEF LoopType
<1>7. /\ c \in Range(active) /\ Tail(active) \in Seq(Co) /\ IsInjective(Tail(active))
      /\ \A d \in Range(Tail(active)) : d \in Range(active) /\ d # c
  BY <1>3, <1>4, <1>5, PopList DEF ActiveOK
<1>8. st[c] = "wait" /\ (rfd[c] # NoFd => item_map[rfd[c]] = c)
  BY <1>4, <1>7 DEF ActiveOK, EpollOK
<1>9. /\ item_map' \in [Fds -> Co \cup {NoCo}] /\ interest' \in [Fds -> Co \cup {NoCo}]
      /\ \A f \in Fds : IF f = rfd[c] THEN item_map'[f] = NoCo /\ interest'[f] = NoCo
                        ELSE item_map'[f] = item_map[f] /\ interest'[f] = interest[f]
  <2>1. EpollDel(rfd[c])
    BY <1>1 DEF Resume
  <2>2. CASE rfd[c] = NoFd
    BY <1>5, <2>1, <2>2 DEF EpollDel, epoll
  <2>3. CASE rfd[c] # NoFd
    <3>1. item_map[rfd[c]] # NoCo
      BY <1>8, <2>3
    <3>2. item_map' = [item_map EXCEPT ![rfd[c]] = NoCo] /\ interest' = [interest EXCEPT ![rfd[c]] = NoCo]
      BY <2>1, <2>3, <3>1 DEF EpollDel
    <3> QED
      BY <1>5, <3>2
  <2> QED
    BY <2>2, <2>3
<1>10. KernelType' /\ OwnOK' /\ InfOK' /\ NoCrash' /\ Streams'
  BY <1>2, QuietRest
<1>11. TypeOK'
  <2>1. CallType'
    BY <1>1, <1>2, <1>4 DEF CallType
  <2>2. /\ st' \in [Co -> States] /\ stack' \in Seq(Co) /\ rfd' \in [Co -> Fds \cup {NoFd}]
        /\ active' \in Seq(Co) /\ destroy_co' \in Seq(Co)
    BY <1>3, <1>5, <1>7 DEF States
  <2>3. timer' \in [Co -> BOOLEAN] /\ is_timeout' \in [Co -> BOOLEAN]
    BY <1>3, <1>6
  <2>4. LoopType'
    BY <1>9, <2>2, <2>3 DEF LoopType
  <2> QED
    BY <1>10, <2>1, <2>4 DEF TypeOK, SysTypeOK, KernelType, CallType, LoopType
<1>12. StackOK'
  BY <1>3, <1>4, <1>5 DEF StackOK
<1>13. WhereOK'
  BY <1>2, <1>3, <1>4, <1>5, <1>8 DEF WhereOK, InCall
<1>14. EpollOK'
  <2>1. ASSUME NEW f \in Fds
        PROVE  /\ interest'[f] = item_map'[f]
               /\ item_map'[f] \in Co => st'[item_map'[f]] = "wait" /\ rfd'[item_map'[f]] = f
    <3>1. CASE f = rfd[c]
      BY <1>9, <3>1
    <3>2. CASE f # rfd[c]
      <4>1. item_map'[f] = item_map[f] /\ interest'[f] = interest[f]
        BY <1>9, <3>2
      <4>2. item_map[f] \in Co => st[item_map[f]] = "wait" /\ rfd[item_map[f]] = f /\ item_map[f] # c
        BY <1>4, <3>2 DEF EpollOK
      <4> QED
        BY <1>3, <1>4, <1>5, <4>1, <4>2 DEF EpollOK
    <3> QED
      BY <3>1, <3>2
  <2>2. ASSUME NEW d \in Co, st'[d] = "wait", rfd'[d] # NoFd PROVE item_map'[rfd'[d]] = d
    <3>1. d # c /\ st[d] = "wait" /\ rfd'[d] = rfd[d] /\ rfd[d] \in Fds /\ item_map[rfd[d]] = d
      BY <1>3, <1>4, <1>5, <2>2 DEF EpollOK
    <3>2. rfd[d] # rfd[c]
      BY <1>8, <3>1
    <3> QED
      BY <1>9, <3>1, <3>2
  <2> QED
    BY <2>1, <2>2 DEF EpollOK
<1>15. ActiveOK'
  BY <1>3, <1>4, <1>5, <1>7 DEF ActiveOK
<1>16. ConnectTrue'
  BY <1>2, <1>4 DEF ConnectTrue, kernel
<1>17. Answered'
  <2>1. \A d \in Co : st'[d] = "run" \/ d \in Range(active') => st[d] = "run" \/ d \in Range(active)
    BY <1>3, <1>5, <1>7
  <2> QED
    BY <1>2, <1>3, <2>1 DEF ClientInv, Answered, kernel
<1> QED
  BY <1>10, <1>11, <1>12, <1>13, <1>14, <1>15, <1>16, <1>17 DEF ClientInv

\* A turn of the loop.
LEMMA PollStep ==
  ASSUME ClientInv, PollTurn, UNCHANGED <<pc, fd_>>
  PROVE  ClientInv'
<1>1. PICK R \in SUBSET Co, D \in SUBSET Co :
        (\A c \in R : Ready(c)) /\ \E es \in SetToSeqs(R), ts \in SetToSeqs(D) : Turn(es, ts)
  <2> DEFINE ready == {c \in Co : Ready(c)}
             timed == {c \in Co : st[c] = "wait" /\ timer[c]}
  <2>1. PICK due \in SUBSET (timed \ ready) : \E es \in SetToSeqs(ready), ts \in SetToSeqs(due) : Turn(es, ts)
    BY DEF PollTurn
  <2>2. ready \in SUBSET Co /\ due \in SUBSET Co /\ \A c \in ready : Ready(c)
    OBVIOUS
  <2> HIDE DEF ready, timed
  <2> QED
    BY <2>1, <2>2
<1>2. PICK es \in SetToSeqs(R), ts \in SetToSeqs(D) : Turn(es, ts)
  BY <1>1
<1>3. es \in Seq(Co) /\ ts \in Seq(Co) /\ Range(es) \subseteq R
  <2>1. IsFiniteSet(Co)
    OBVIOUS
  <2> QED
    BY <2>1, OrdersAreLists
<1>4. UNCHANGED <<kernel, g_socket_inf, errno, call, res, fate, pc, fd_>>
  BY DEF PollTurn, calls
<1>5. /\ stack = <<>> /\ active = <<>> /\ IsInjective(es \o ts) /\ active' = es \o ts
      /\ (\A c \in Range(es) : st[c] = "wait") /\ (\A c \in Range(ts) : st[c] = "wait")
      /\ is_timeout' = [c \in Co |-> is_timeout[c] \/ c \in Range(ts)]
      /\ UNCHANGED <<item_map, interest, st, stack, rfd, timer, destroy_co>>
  BY <1>2 DEF Turn, Registered
<1>6. es \o ts \in Seq(Co) /\ Range(es \o ts) = Range(es) \cup Range(ts)
  BY <1>3, ConcatList
<1>7. KernelType /\ CallType /\ LoopType /\ StackOK /\ WhereOK /\ EpollOK /\ ConnectTrue
  BY TypeParts DEF ClientInv
<1>8. KernelType' /\ OwnOK' /\ InfOK' /\ NoCrash' /\ Streams'
  BY <1>4, QuietRest
<1>9. TypeOK'
  <2>1. CallType'
    BY <1>4, <1>7 DEF CallType
  <2>2. is_timeout' \in [Co -> BOOLEAN]
    BY <1>5
  <2>3. LoopType'
    BY <1>5, <1>6, <1>7, <2>2 DEF LoopType
  <2> QED
    BY <1>8, <2>1, <2>3 DEF TypeOK, SysTypeOK, KernelType, CallType, LoopType
<1>10. StackOK' /\ WhereOK' /\ EpollOK'
  BY <1>4, <1>5, <1>7 DEF StackOK, WhereOK, EpollOK, InCall
<1>11. ConnectTrue'
  BY <1>4, <1>7 DEF ConnectTrue, kernel
<1>12. ActiveOK'
  <2>1. \A c \in Range(es) \cup Range(ts) : st[c] = "wait"
    BY <1>2 DEF Turn, Registered
  <2> QED
    BY <1>5, <1>6, <2>1 DEF ActiveOK
<1>13. Answered'
  <2> SUFFICES ASSUME NEW c \in Co, call[c].op = "connect", ~is_timeout'[c],
                      st[c] = "run" \/ c \in Range(active')
               PROVE  sock[call[c].fd].state # "connecting"
    BY <1>4, <1>5 DEF Answered, kernel
  <2>1. st[c] # "run"
    BY <1>5, <1>7 DEF StackOK
  <2>2. c \in Range(es)
    BY <1>5, <1>6, <2>1
  <2>3. Ready(c)
    BY <1>1, <1>3, <2>2
  <2>4. rfd[c] = call[c].fd
    BY <1>7, <2>3 DEF Ready, Registered, WhereOK
  <2> QED
    BY <2>3, <2>4 DEF Ready, Readable, Writable
<1> QED
  BY <1>8, <1>9, <1>10, <1>11, <1>12, <1>13 DEF ClientInv

\* An interrupted turn.
LEMMA InterruptedStep ==
  ASSUME ClientInv, Interrupted, UNCHANGED <<pc, fd_>>
  PROVE  ClientInv'
<1>1. /\ UNCHANGED <<item_map, interest, st, stack, rfd, timer, is_timeout, active, destroy_co, sock, stream,
                     g_socket_inf, call, res, fate, pc, fd_>>
      /\ errno' = "EINTR"
  BY DEF Interrupted, loop, kernel
<1>2. TypeOK'
  BY <1>1 DEF ClientInv, TypeOK, SysTypeOK
<1>3. StackOK' /\ WhereOK' /\ EpollOK' /\ ActiveOK' /\ OwnOK' /\ InfOK'
  BY <1>1 DEF ClientInv, StackOK, WhereOK, EpollOK, ActiveOK, OwnOK, InfOK, InCall
<1>4. NoCrash' /\ ConnectTrue' /\ Streams' /\ Answered'
  BY <1>1 DEF ClientInv, NoCrash, ConnectTrue, Streams, Contiguous, Answered
<1> QED
  BY <1>2, <1>3, <1>4 DEF ClientInv

\* A peer: a socket stays the one it is, and an established connection stays one.
LEMMA PeerStepKeeps ==
  ASSUME ClientInv, NEW fd \in Fds, Peer(fd), UNCHANGED <<pc, fd_>>
  PROVE  ClientInv'
<1>1. KernelType /\ CallType /\ LoopType /\ StackOK /\ WhereOK /\ EpollOK /\ ActiveOK /\ ConnectTrue
      /\ OwnOK /\ InfOK /\ NoCrash /\ Streams
  BY TypeParts DEF ClientInv
<1>2. sock \in [Fds -> Sockets] /\ sock[fd] \in Sockets
  BY <1>1 DEF KernelType
<1>3. UNCHANGED <<loop, stream, g_socket_inf, errno, call, res, fate>>
  BY DEF Peer, PeerStep, calls
<1>4. PICK s \in Sockets :
        /\ sock' = [sock EXCEPT ![fd] = s] /\ s.state # "free" /\ sock[fd].state # "free"
        /\ sock[fd].state = "open" => s.state = "open"
        /\ s.state # "connecting"
  <2>1. ASSUME NEW s \in Sockets, PeerStep(fd, s), s.state \notin {"free", "connecting"}, sock[fd].state # "free",
               sock[fd].state = "open" => s.state = "open"
        PROVE  \E t \in Sockets :
                 /\ sock' = [sock EXCEPT ![fd] = t] /\ t.state # "free" /\ sock[fd].state # "free"
                 /\ sock[fd].state = "open" => t.state = "open"
                 /\ t.state # "connecting"
    BY <2>1 DEF PeerStep
  <2>2. PICK t : t = sock[fd]
    OBVIOUS
  <2>3. /\ [t EXCEPT !.in = TRUE] \in Sockets /\ [t EXCEPT !.in = TRUE].state = t.state
        /\ [t EXCEPT !.room = Room] \in Sockets /\ [t EXCEPT !.room = Room].state = t.state
        /\ [t EXCEPT !.end = "fin"] \in Sockets /\ [t EXCEPT !.end = "fin"].state = t.state
        /\ [t EXCEPT !.end = "rst"] \in Sockets /\ [t EXCEPT !.end = "rst"].state = t.state
        /\ [t EXCEPT !.state = "open"] \in Sockets /\ [t EXCEPT !.state = "open"].state = "open"
        /\ [t EXCEPT !.state = "refused"] \in Sockets /\ [t EXCEPT !.state = "refused"].state = "refused"
    <3>1. t \in Sockets /\ Room \in 0 .. Room
      BY <1>2, <2>2
    <3>2. [t EXCEPT !.in = TRUE] \in Sockets /\ [t EXCEPT !.in = TRUE].state = t.state
      BY <3>1 DEF Sockets
    <3>3. [t EXCEPT !.room = Room] \in Sockets /\ [t EXCEPT !.room = Room].state = t.state
      BY <3>1 DEF Sockets
    <3>4. /\ [t EXCEPT !.end = "fin"] \in Sockets /\ [t EXCEPT !.end = "fin"].state = t.state
          /\ [t EXCEPT !.end = "rst"] \in Sockets /\ [t EXCEPT !.end = "rst"].state = t.state
      BY <3>1 DEF Sockets
    <3>5. /\ [t EXCEPT !.state = "open"] \in Sockets /\ [t EXCEPT !.state = "open"].state = "open"
          /\ [t EXCEPT !.state = "refused"] \in Sockets /\ [t EXCEPT !.state = "refused"].state = "refused"
      BY <3>1 DEF Sockets
    <3> QED
      BY <3>2, <3>3, <3>4, <3>5
  <2>4. \/ t.state = "open" /\ PeerStep(fd, [t EXCEPT !.in = TRUE])
        \/ t.state = "open" /\ PeerStep(fd, [t EXCEPT !.room = Room])
        \/ t.state = "open" /\ PeerStep(fd, [t EXCEPT !.end = "fin"])
        \/ t.state = "open" /\ PeerStep(fd, [t EXCEPT !.end = "rst"])
        \/ t.state = "connecting" /\ PeerStep(fd, [t EXCEPT !.state = "open"])
        \/ t.state = "connecting" /\ PeerStep(fd, [t EXCEPT !.state = "refused"])
    BY <2>2 DEF Peer
  <2> QED
    BY <2>1, <2>2, <2>3, <2>4
<1>5. \A f \in Fds : /\ sock'[f].state = "free" <=> sock[f].state = "free"
                     /\ sock[f].state = "open" => sock'[f].state = "open"
                     /\ sock[f].state # "connecting" => sock'[f].state # "connecting"
  BY <1>2, <1>4
<1>6. TypeOK'
  <2>1. sock' \in [Fds -> Sockets]
    BY <1>2, <1>4
  <2>2. KernelType' /\ CallType'
    BY <1>1, <1>3, <2>1 DEF KernelType, CallType
  <2>3. LoopType'
    BY <1>1, <1>3, LoopKept DEF LoopType
  <2> QED
    BY <2>2, <2>3 DEF TypeOK, SysTypeOK, KernelType, CallType, LoopType
<1>7. StackOK' /\ WhereOK' /\ EpollOK' /\ ActiveOK' /\ OwnOK' /\ NoCrash' /\ Streams'
  BY <1>1, <1>3, LoopKept DEF StackOK, WhereOK, EpollOK, ActiveOK, OwnOK, NoCrash, Streams, Contiguous, InCall
<1>8. InfOK'
  BY <1>1, <1>3, <1>5 DEF InfOK
<1>9. ConnectTrue'
  <2> SUFFICES ASSUME NEW c \in Co, pc[c] = "connected", call[c] = NoCall, res[c] = "ok"
               PROVE  sock'[fd_[c]].state = "open"
    BY <1>3 DEF ConnectTrue
  <2>1. fd_[c] \in Fds
    BY <1>1 DEF CallType, WhereOK
  <2> QED
    BY <1>1, <1>5, <2>1 DEF ConnectTrue
<1>10. Answered'
  <2>1. \A c \in Co : call[c].op = "connect" => call[c].fd \in Fds
    <3>1. NoCall.op # "connect"
      BY DEF NoCall
    <3> QED
      BY <1>1, <3>1 DEF CallType, WhereOK, InCall
  <2> QED
    BY <1>3, <1>5, <2>1, LoopKept DEF ClientInv, Answered
<1> QED
  BY <1>6, <1>7, <1>8, <1>9, <1>10 DEF ClientInv

-----------------------------------------------------------------------------
\* Every step keeps the invariant.
LEMMA ClientNext ==
  ASSUME ClientInv, [Next]_vars
  PROVE  ClientInv'
<1>1. CASE UNCHANGED vars
  <2>1. UNCHANGED <<item_map, interest, st, stack, rfd, timer, is_timeout, active, destroy_co, sock, stream,
                    g_socket_inf, errno, call, res, fate, pc, fd_>>
    BY <1>1 DEF vars, sysVars, loop, kernel, calls
  <2>2. TypeOK'
    BY <2>1 DEF ClientInv, TypeOK, SysTypeOK
  <2>3. StackOK' /\ WhereOK' /\ EpollOK' /\ ActiveOK' /\ OwnOK' /\ InfOK'
    BY <2>1 DEF ClientInv, StackOK, WhereOK, EpollOK, ActiveOK, OwnOK, InfOK, InCall
  <2>4. NoCrash' /\ ConnectTrue' /\ Streams' /\ Answered'
    BY <2>1 DEF ClientInv, NoCrash, ConnectTrue, Streams, Contiguous, Answered
  <2> QED
    BY <2>2, <2>3, <2>4 DEF ClientInv
<1>2. ASSUME NEW c \in Co, Wakeup(c), UNCHANGED <<pc, fd_>> PROVE ClientInv'
  BY <1>2, SleepWokenStep, ConnectWokenStep, ReadWokenStep, WriteWokenStep DEF Wakeup
<1>3. ASSUME NEW c \in Co, Socket(c) \/ Connect(c) \/ Use(c) \/ Close(c) \/ Pause(c) PROVE ClientInv'
  BY <1>3, SocketStep, ConnectStep, UseStep, CloseStep, PauseStep
<1>4. CASE Thread
  BY <1>2, <1>3, <1>4, ResumeStep DEF Thread
<1>5. CASE \E c \in Co : StartClient(c)
  BY <1>5, StartStep
<1>6. CASE (PollTurn \/ Interrupted) /\ UNCHANGED <<pc, fd_>>
  BY <1>6, PollStep, InterruptedStep
<1>7. CASE \E fd \in Fds : Peer(fd) /\ UNCHANGED <<pc, fd_>>
  BY <1>7, PeerStepKeeps
<1> QED
  BY <1>1, <1>4, <1>5, <1>6, <1>7 DEF Next

\* Safety needs no fairness.
LEMMA ClientAlways == Spec => []ClientInv
<1>1. Init => ClientInv
  BY ClientInit
<1>2. ClientInv /\ [Next]_vars => ClientInv'
  BY ClientNext
<1> QED
  BY <1>1, <1>2, PTL DEF Spec

(***************************************************************************)
(* A descriptor has a socket_inf exactly as long as it is open, belongs to *)
(* exactly one client, and no wrapper dereferences a missing entry of      *)
(* g_socket_inf: for any number of clients and descriptors.                *)
(***************************************************************************)
THEOREM SocketsAreConsistent == Spec => []SocketsConsistent
<1>1. ClientInv => SocketsConsistent
  <2> SUFFICES ASSUME ClientInv PROVE SocketsConsistent
    OBVIOUS
  <2>1. ASSUME NEW f \in Fds PROVE HasInf(f) <=> sock[f].state # "free"
    BY DEF ClientInv, InfOK, HasInf, NoInf, socket_inf
  <2>2. ASSUME NEW f \in Fds, sock[f].state # "free" PROVE Cardinality({c \in Co : fd_[c] = f}) = 1
    <3>1. PICK c \in Co : fd_[c] = f
      BY <2>2 DEF ClientInv, InfOK
    <3>2. {d \in Co : fd_[d] = f} = {c}
      BY <3>1 DEF ClientInv, OwnOK
    <3> QED
      BY <3>2, FS_Singleton
  <2> QED
    BY <2>1, <2>2 DEF ClientInv, SocketsConsistent, InfMatches
<1> QED
  BY <1>1, ClientAlways, PTL

(***************************************************************************)
(* Who waits in a wrapper is registered for the descriptor of its call,    *)
(* whatever the other clients open, close and register meanwhile.          *)
(***************************************************************************)
THEOREM ClientsStayRegistered == Spec => []StaysRegistered
<1>1. ClientInv => StaysRegistered
  <2> SUFFICES ASSUME ClientInv, NEW c \in Co, st[c] = "wait", call[c].op # "sleep"
               PROVE  rfd[c] = call[c].fd /\ Registered(c) /\ item_map[rfd[c]] = c
    BY DEF StaysRegistered
  <2>1. rfd[c] = call[c].fd /\ InCall(c) /\ (fd_[c] # NoFd <=> pc[c] \in {"connect", "connected", "used"})
    BY DEF ClientInv, WhereOK
  <2>2. rfd[c] # NoFd /\ rfd[c] \in Fds
    BY <2>1, TypeParts DEF InCall, ClientInv, LoopType
  <2>3. item_map[rfd[c]] = c /\ interest[rfd[c]] = c
    BY <2>2 DEF ClientInv, EpollOK
  <2> QED
    BY <2>1, <2>2, <2>3 DEF Registered
<1> QED
  BY <1>1, ClientAlways, PTL

(***************************************************************************)
(* co_connect returns 0 only on an established connection, although the    *)
(* error that it asks for is 0 also while the attempt goes on: it asks     *)
(* only after an event, and an event means an answer.                      *)
(***************************************************************************)
THEOREM ConnectTellsTruth == Spec => []ConnectTrue
<1>1. ClientInv => ConnectTrue
  BY DEF ClientInv
<1> QED
  BY <1>1, ClientAlways, PTL

(***************************************************************************)
(* While co_send is under way, write_size is the place of the last unit on *)
(* the stream: messages of any length over send buffers of any size reach  *)
(* the kernel in order and without a gap.                                  *)
(***************************************************************************)
THEOREM SendsAreContiguous ==
  ASSUME Watched = Fds
  PROVE  Spec => []Contiguous
<1>1. ClientInv => Contiguous
  BY DEF ClientInv, Streams
<1> QED
  BY <1>1, ClientAlways, PTL

-----------------------------------------------------------------------------
=============================================================================
