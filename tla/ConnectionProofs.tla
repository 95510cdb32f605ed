-------------------------- MODULE ConnectionProofs ---------------------------
(***************************************************************************)
(* Any number of connections on any number of descriptors, which send to   *)
(* and close each other: descriptors, socket_infs and connections stay     *)
(* matched, no wrapper follows a null pointer, and DisconnectedCb is told  *)
(* the truth.                                                              *)
(***************************************************************************)
EXTENDS Connection, Lists

-----------------------------------------------------------------------------
(***************************************************************************)
(* The inductive invariant.  A connection runs alone or on top of the      *)
(* server that has just accepted it; nobody runs below a connection but    *)
(* the server, about to accept again.                                      *)
(***************************************************************************)
StackOK ==
  /\ \/ stack = <<>>
     \/ \E c \in Co : stack = <<c>>
     \/ \E c \in Conns : stack = <<c, Server>> /\ place[Server] = "accept"
  /\ \A c \in Co : st[c] = "run" <=> c \in Range(stack)

\* What a read that is over has told c, which has not looked at it yet.
ReadTold(c) ==
  \/ res[c] \in {"data", "TIME_OUT"}
  \/ errno \in {"EAGAIN", "EINTR"}
  \/ sock[fd_[c]].end # "no"

Writing(c) == call[c].op = "write" /\ call[c].fd \in Fds /\ call[c].n < MsgLen

\* The wrapper that a connection is in is the one its place says.
ConnAt(c) ==
  /\ fd_[c] = NoFd <=> place[c] = "none"
  /\ \/ place[c] \in {"none", "new"} /\ st[c] \in {"new", "freed"} /\ call[c] = NoCall
     \/ place[c] \in {"run", "disc", "end"} /\ st[c] = "run" /\ call[c] = NoCall
     \/ place[c] \in {"connected", "loop", "close"} /\ st[c] = "run" /\ call[c] = NoCall
     \/ place[c] \in {"connected", "loop", "close"} /\ st[c] \in {"run", "wait"} /\ Writing(c)
     \/ place[c] = "read" /\ st[c] = "run" /\ call[c] = NoCall /\ ReadTold(c)
     \/ place[c] = "read" /\ st[c] \in {"run", "wait"} /\ call[c].op = "read" /\ call[c].fd = fd_[c]
     \/ place[c] = "ended" /\ st[c] = "ended" /\ call[c] = NoCall

(***************************************************************************)
(* A server without a socket is in accept for ever: it has no timer and is *)
(* not registered.                                                         *)
(***************************************************************************)
ServerAt ==
  \/ /\ place[Server] = "start" /\ st[Server] = "new" /\ call[Server] = NoCall /\ fd_[Server] = NoFd
     /\ \A c \in Conns : place[c] = "none"
  \/ /\ place[Server] = "init" /\ st[Server] = "run" /\ call[Server] = NoCall /\ fd_[Server] = NoFd
  \/ /\ place[Server] \in {"bind", "resume"} /\ st[Server] = "run" /\ call[Server] = NoCall
     /\ fd_[Server] # NoFd
  \/ /\ place[Server] = "accept" /\ st[Server] = "run" /\ call[Server] = NoCall
  \/ /\ place[Server] = "accepted" /\ call[Server].op = "accept" /\ call[Server].fd = fd_[Server]
     /\ \/ st[Server] = "run" /\ fd_[Server] # NoFd
        \/ st[Server] = "wait" /\ ~timer[Server] /\ rfd[Server] = fd_[Server]

WhereOK == ServerAt /\ \A c \in Conns : ConnAt(c)

ActiveOK ==
  /\ IsInjective(active)
  /\ \A c \in Range(active) : st[c] = "wait" /\ (timer[c] \/ rfd[c] # NoFd)

DestroyOK == \A c \in Co : st[c] = "ended" <=> c \in Range(destroy_co)

OwnOK == \A c, d \in Co : Owns(c) /\ Owns(d) /\ fd_[c] = fd_[d] => c = d

InfOK ==
  fate # "aborted" =>
    \A f \in Fds :
      /\ sock[f].state # "free" <=> \E c \in Co : Owns(c) /\ fd_[c] = f
      /\ HasInf(f) <=> sock[f].state # "free"

OpenOK == \A c \in Conns : Owns(c) => sock[fd_[c]].state = "open"

ConnInv ==
  /\ TypeOK /\ StackOK /\ WhereOK /\ ActiveOK /\ DestroyOK
  /\ OwnOK /\ InfOK /\ OpenOK /\ NoCrash /\ StatusTrue

USE SysAssumption, ConnectionAssumption

-----------------------------------------------------------------------------
Calls == [op : Ops, fd : Fds \cup {NoFd}, n : 0 .. Max({3, MsgLen}), kind : Kinds]
Results == {"none", "ok", "fail", "data", "eof", "sent", "TIME_OUT"}
Infs == [entry : {"none", "null", "inf"}, read : Kinds, write : Kinds]
Units == (Co \cup {NoCo}) \X (0 .. MsgLen)

KernelType ==
  /\ sock \in [Fds -> Sockets] /\ stream \in [Watched -> Units] /\ g_socket_inf \in [Fds -> Infs]

CallType ==
  /\ errno \in {"EAGAIN", "EINTR", "other"} /\ fate \in {"alive", "crashed", "killed", "aborted"}
  /\ call \in [Co -> Calls] /\ res \in [Co -> Results]

LoopType ==
  /\ item_map \in [Fds -> Co \cup {NoCo}] /\ interest \in [Fds -> Co \cup {NoCo}]
  /\ st \in [Co -> States] /\ stack \in Seq(Co) /\ rfd \in [Co -> Fds \cup {NoFd}]
  /\ timer \in [Co -> BOOLEAN] /\ is_timeout \in [Co -> BOOLEAN]
  /\ active \in Seq(Co) /\ destroy_co \in Seq(Co)

ConnType ==
  /\ place \in [Co -> ConnPlaces \cup ServerPlaces] /\ fd_ \in [Co -> Fds \cup {NoFd}]
  /\ end_ \in [Conns -> BOOLEAN] /\ statue \in [Conns -> Statues]

\* The four parts of the type invariant.
LEMMA TypeParts == TypeOK <=> KernelType /\ CallType /\ LoopType /\ ConnType
  BY DEF TypeOK, SysTypeOK, KernelType, CallType, LoopType, ConnType, Calls, Results, Infs, Units

\* The same after a step.
LEMMA TypePartsNext == TypeOK' <=> KernelType' /\ CallType' /\ LoopType' /\ ConnType'
  BY DEF TypeOK, SysTypeOK, KernelType, CallType, LoopType, ConnType, Calls, Results, Infs, Units

\* The places of a message.
LEMMA PlacesFit ==
  Max({3, MsgLen}) \in Nat /\ 0 \in 0 .. Max({3, MsgLen}) /\ \A n \in Nat : n < MsgLen => n \in 0 .. Max({3, MsgLen})
<1>1. 3 \in Int /\ MsgLen \in Int
  OBVIOUS
<1>2. Max({3, MsgLen}) \in {3, MsgLen} /\ Max({3, MsgLen}) >= MsgLen
  BY <1>1, MaxOfTwo
<1> QED
  BY <1>2

\* NoCall is a call like the others.
LEMMA NoCallType == NoCall \in Calls /\ NoCall.op = "none"
  BY PlacesFit DEF NoCall, Calls, Ops, Kinds

\* The lists that the call stack can be.
LEMMA StackFacts ==
  ASSUME NEW c \in Co
  PROVE  /\ <<c>> \in Seq(Co) /\ Range(<<c>>) = {c} /\ Tail(<<c>>) = <<>> /\ Head(<<c>>) = c /\ <<c>> # <<>>
         /\ <<c, Server>> \in Seq(Co) /\ Range(<<c, Server>>) = {c, Server} /\ <<c, Server>> # <<>>
         /\ Tail(<<c, Server>>) = <<Server>> /\ Head(<<c, Server>>) = c
         /\ Range(<<Server>>) = {Server} /\ Range(<<>>) = {}
<1>1. <<c>> \in Seq(Co) /\ Tail(<<c>>) = <<>> /\ Head(<<c>>) = c /\ <<c>> # <<>>
  OBVIOUS
<1>2. /\ <<c, Server>> \in Seq(Co) /\ <<c, Server>> # <<>>
      /\ Tail(<<c, Server>>) = <<Server>> /\ Head(<<c, Server>>) = c
  OBVIOUS
<1>3. Range(<<c>>) = {c} /\ Range(<<c, Server>>) = {c, Server} /\ Range(<<>>) = {} /\ Range(<<Server>>) = {Server}
  BY DEF Range
<1> QED
  BY <1>1, <1>2, <1>3

-----------------------------------------------------------------------------
(***************************************************************************)
(* The coroutine that runs makes a step inside the library: it goes on, or *)
(* it waits in a wrapper and its resumer goes on.  Of the sockets none is  *)
(* opened or closed.                                                       *)
(***************************************************************************)
LoopMoves(c) ==
  /\ \A d \in Co \ {c} : call'[d] = call[d] /\ st'[d] = st[d] /\ rfd'[d] = rfd[d] /\ timer'[d] = timer[d]
  /\ UNCHANGED <<active, destroy_co>>
  /\ \/ st'[c] = "run" /\ stack' = stack /\ call'[c] = NoCall
     \/ /\ st'[c] = "wait" /\ stack' = Tail(stack) /\ call'[c] # NoCall
        /\ rfd'[c] = call'[c].fd /\ (timer'[c] <=> call'[c].kind = "ms")

SocketsStay ==
  \A f \in Fds : sock'[f].state = sock[f].state /\ (HasInf(f)' <=> HasInf(f))

SysEffect(c) ==
  /\ KernelType' /\ CallType' /\ LoopType' /\ fate' \in {"alive", "killed"}
  /\ LoopMoves(c) /\ SocketsStay

\* Who runs, and who else is on the call stack.
LEMMA RunFacts ==
  ASSUME ConnInv, NEW c \in Co, Running(c)
  PROVE  /\ st[c] = "run"
         /\ stack = <<c>> \/ (c \in Conns /\ stack = <<c, Server>> /\ place[Server] = "accept")
         /\ \A d \in Conns \ {c} : st[d] # "run"
<1>1. StackOK /\ stack # <<>> /\ Head(stack) = c
  BY DEF ConnInv, Running
<1>2. stack = <<c>> \/ (c \in Conns /\ stack = <<c, Server>> /\ place[Server] = "accept")
  BY <1>1, StackFacts DEF StackOK, Conns
<1>3. Range(stack) \subseteq {c, Server} /\ c \in Range(stack)
  <2>1. Range(<<c>>) = {c} /\ Range(<<c, Server>>) = {c, Server}
    BY StackFacts
  <2> QED
    BY <1>2, <2>1
<1> QED
  BY <1>1, <1>2, <1>3 DEF StackOK, Conns

\* What DisconnectedCb is told.
Told(c) ==
  \/ statue[c] = "close_by_client" /\ sock[fd_[c]].end # "no"
  \/ statue[c] = "close_by_server_other" /\ end_[c]
  \/ statue[c] = "close_by_server_timeout" /\ ~end_[c]

(***************************************************************************)
(* Such a step keeps the invariant if its author is where it should be:    *)
(* the others are where they were.                                         *)
(***************************************************************************)
LEMMA RunStep ==
  ASSUME ConnInv, NEW c \in Co, Running(c), Alive, SysEffect(c), ConnType', UNCHANGED fd_,
         \A d \in Co \ {c} : place'[d] = place[d],
         place[c] \notin {"end", "ended"}, place'[c] \notin {"end", "ended"},
         c = Server => ServerAt',
         c \in Conns => ConnAt(c)' /\ (place'[c] = "disc" => Told(c)')
  PROVE  ConnInv'
<1>1. /\ st[c] = "run" /\ (stack = <<c>> \/ (c \in Conns /\ stack = <<c, Server>> /\ place[Server] = "accept"))
      /\ \A d \in Conns \ {c} : st[d] # "run"
  BY RunFacts
<1>2. LoopMoves(c) /\ SocketsStay /\ fate' \in {"alive", "killed"}
  BY DEF SysEffect
<1>3. TypeOK'
  BY TypePartsNext DEF SysEffect
<1>4. KernelType /\ CallType /\ LoopType /\ ConnType /\ WhereOK
  BY TypeParts DEF ConnInv
<1>5. \A d \in Co : (st'[d] = "run" <=> d \in Range(stack')) /\ (d # c => st'[d] = st[d])
  <2>1. \A d \in Co : st[d] = "run" <=> d \in Range(stack)
    BY DEF ConnInv, StackOK
  <2>2. CASE st'[c] = "run" /\ stack' = stack
    BY <1>1, <1>2, <2>1, <2>2 DEF LoopMoves
  <2>3. CASE st'[c] = "wait" /\ stack' = Tail(stack)
    <3>1. CASE stack = <<c>>
      BY <1>2, <2>1, <2>3, <3>1, StackFacts DEF LoopMoves
    <3>2. CASE c \in Conns /\ stack = <<c, Server>>
      <4>1. Range(stack) = {c, Server} /\ Range(stack') = {Server} /\ c # Server
        BY <2>3, <3>2, StackFacts DEF Conns
      <4> QED
        BY <1>2, <2>1, <2>3, <4>1 DEF LoopMoves
    <3> QED
      BY <1>1, <3>1, <3>2
  <2> QED
    BY <1>2, <2>2, <2>3 DEF LoopMoves
<1>6. StackOK'
  <2>1. stack' = stack \/ stack' = Tail(stack)
    BY <1>2 DEF LoopMoves
  <2>2. CASE stack = <<c>>
    BY <1>5, <2>1, <2>2, StackFacts DEF StackOK
  <2>3. CASE c \in Conns /\ stack = <<c, Server>> /\ place[Server] = "accept"
    <3>1. place'[Server] = "accept"
      BY <2>3 DEF Conns
    <3> QED
      BY <1>5, <2>1, <2>3, <3>1, StackFacts DEF StackOK
  <2> QED
    BY <1>1, <2>2, <2>3
<1>7. WhereOK'
  <2>1. ServerAt'
    <3>1. CASE c = Server
      BY <3>1
    <3>2. CASE c # Server
      <4>1. /\ place'[Server] = place[Server] /\ st'[Server] = st[Server] /\ call'[Server] = call[Server]
            /\ timer'[Server] = timer[Server] /\ rfd'[Server] = rfd[Server]
        BY <1>2, <3>2 DEF LoopMoves
      <4>2. place[Server] # "start"
        BY <1>1, <1>4, <3>2 DEF WhereOK, ServerAt, ConnAt, Conns
      <4>3. ServerAt
        BY <1>4 DEF WhereOK
      <4> QED
        BY <4>1, <4>2, <4>3 DEF ServerAt
    <3> QED
      BY <3>1, <3>2
  <2>2. ASSUME NEW d \in Conns PROVE ConnAt(d)'
    <3>1. CASE d = c
      BY <3>1
    <3>2. CASE d # c
      <4>1. place'[d] = place[d] /\ st'[d] = st[d] /\ call'[d] = call[d] /\ st[d] # "run" /\ fd_'[d] = fd_[d]
        BY <1>1, <1>2, <3>2 DEF LoopMoves, Conns
      <4>2. ConnAt(d)
        BY <1>4 DEF WhereOK
      <4> QED
        BY <4>1, <4>2 DEF ConnAt, Writing
    <3> QED
      BY <3>1, <3>2
  <2> QED
    BY <2>1, <2>2 DEF WhereOK
<1>8. ActiveOK'
  <2>1. \A d \in Range(active) : d \in Co /\ d # c
    BY <1>1, <1>4 DEF ConnInv, ActiveOK, LoopType, Range
  <2> QED
    BY <1>2, <2>1 DEF ConnInv, ActiveOK, LoopMoves
<1>9. DestroyOK'
  <2>1. st'[c] \in {"run", "wait"} /\ UNCHANGED destroy_co
    BY <1>2 DEF LoopMoves
  <2> QED
    BY <1>1, <1>5, <2>1 DEF ConnInv, DestroyOK
<1>10. \A d \in Co : Owns(d)' <=> Owns(d)
  <2> TAKE d \in Co
  <2>1. CASE d = c
    BY <2>1 DEF Owns
  <2>2. CASE d # c
    BY <2>2 DEF Owns
  <2> QED
    BY <2>1, <2>2
<1>11. OwnOK' /\ InfOK' /\ OpenOK'
  <2>1. fate # "aborted" /\ fate' # "aborted"
    BY <1>2 DEF Alive
  <2>2. OwnOK'
    BY <1>10 DEF ConnInv, OwnOK
  <2>3. InfOK'
    BY <1>2, <1>10, <2>1 DEF ConnInv, InfOK, SocketsStay
  <2>4. OpenOK'
    <3> SUFFICES ASSUME NEW d \in Conns, Owns(d) PROVE sock'[fd_[d]].state = "open"
      BY <1>10 DEF OpenOK, Conns
    <3>1. fd_[d] \in Fds /\ sock[fd_[d]].state = "open"
      BY <1>4 DEF ConnInv, OpenOK, Owns, ConnType, Conns
    <3> QED
      BY <1>2, <3>1 DEF SocketsStay
  <2> QED
    BY <2>2, <2>3, <2>4
<1>12. NoCrash'
  BY <1>2 DEF NoCrash
<1>13. StatusTrue'
  <2> SUFFICES ASSUME NEW d \in Conns, place'[d] = "disc" PROVE Told(d)'
    BY DEF StatusTrue, Told
  <2>1. ConnAt(d)'
    BY <1>7 DEF WhereOK
  <2>2. st'[d] = "run"
    BY <2>1 DEF ConnAt
  <2>3. d = c
    BY <1>1, <1>5, <2>2 DEF Conns
  <2> QED
    BY <2>3
<1> QED
  BY <1>3, <1>6, <1>7, <1>8, <1>9, <1>11, <1>12, <1>13 DEF ConnInv

-----------------------------------------------------------------------------
(***************************************************************************)
(* The effects of the wrappers.                                            *)
(***************************************************************************)

\* The types before a step.
LEMMA Typed ==
  ASSUME ConnInv
  PROVE  /\ KernelType /\ CallType /\ LoopType /\ ConnType
         /\ sock \in [Fds -> Sockets] /\ stream \in [Watched -> Units] /\ g_socket_inf \in [Fds -> Infs]
         /\ errno \in {"EAGAIN", "EINTR", "other"} /\ call \in [Co -> Calls] /\ res \in [Co -> Results]
         /\ st \in [Co -> States] /\ rfd \in [Co -> Fds \cup {NoFd}] /\ stack \in Seq(Co)
         /\ fd_ \in [Co -> Fds \cup {NoFd}] /\ place \in [Co -> ConnPlaces \cup ServerPlaces]
         /\ active \in Seq(Co) /\ destroy_co \in Seq(Co)
<1>1. KernelType /\ CallType /\ LoopType /\ ConnType
  BY TypeParts DEF ConnInv
<1> QED
  BY <1>1 DEF KernelType, CallType, LoopType, ConnType

\* A wrapper that returns.
LEMMA ReturnEffect ==
  ASSUME ConnInv, NEW c \in Co, Running(c), UNCHANGED loop, NEW r \in Results, Return(c, r)
  PROVE  /\ LoopType' /\ call' \in [Co -> Calls] /\ res' \in [Co -> Results]
         /\ LoopMoves(c) /\ call'[c] = NoCall /\ res'[c] = r
<1>1. LoopType /\ call \in [Co -> Calls] /\ res \in [Co -> Results]
  BY Typed
<1>2. LoopType' /\ UNCHANGED <<st, stack, rfd, timer, active, destroy_co>>
  BY <1>1 DEF LoopType, loop
<1>3. call' \in [Co -> Calls] /\ call'[c] = NoCall /\ \A d \in Co \ {c} : call'[d] = call[d]
  BY <1>1, NoCallType DEF Return
<1>4. res' \in [Co -> Results] /\ res'[c] = r
  BY <1>1 DEF Return
<1>5. LoopMoves(c)
  BY <1>2, <1>3, RunFacts DEF LoopMoves
<1> QED
  BY <1>2, <1>3, <1>4, <1>5

\* co_register: its caller waits, or is told at once that the timeout is too big.
LEMMA RegisterEffect ==
  ASSUME ConnInv, NEW c \in Co, Running(c), NEW op \in Ops \ {"none"}, NEW fd \in Fds \cup {NoFd},
         NEW n \in 0 .. Max({3, MsgLen}), NEW kind \in Kinds, co_register(c, op, fd, n, kind)
  PROVE  /\ LoopType' /\ call' \in [Co -> Calls] /\ res' \in [Co -> Results]
         /\ LoopMoves(c)
         /\ \/ call'[c] = NoCall /\ res'[c] = "TIME_OUT" /\ kind = "big"
            \/ call'[c] = [op |-> op, fd |-> fd, n |-> n, kind |-> kind]
<1> DEFINE k == [op |-> op, fd |-> fd, n |-> n, kind |-> kind]
<1>1. LoopType /\ call \in [Co -> Calls] /\ res \in [Co -> Results] /\ st[c] = "run"
  BY Typed, RunFacts
<1>2. k \in Calls /\ k # NoCall /\ k.fd = fd /\ k.kind = kind
  BY NoCallType DEF Calls
<1> HIDE DEF k
<1>3. CASE kind = "big" /\ Refuse(c) /\ Return(c, "TIME_OUT")
  <2>1. UNCHANGED <<item_map, interest, st, stack, rfd, timer, active, destroy_co>>
        /\ is_timeout' = [is_timeout EXCEPT ![c] = FALSE]
    BY <1>3 DEF Refuse
  <2>2. is_timeout' \in [Co -> BOOLEAN]
    BY <1>1, <2>1 DEF LoopType
  <2>3. LoopType'
    BY <1>1, <2>1, <2>2 DEF LoopType
  <2>4. call' \in [Co -> Calls] /\ call'[c] = NoCall /\ \A d \in Co \ {c} : call'[d] = call[d]
    BY <1>1, <1>3, NoCallType DEF Return
  <2>5. res' \in [Co -> Results] /\ res'[c] = "TIME_OUT"
    BY <1>1, <1>3 DEF Return, Results
  <2>6. LoopMoves(c)
    BY <1>1, <2>1, <2>4 DEF LoopMoves
  <2> QED
    BY <1>3, <2>3, <2>4, <2>5, <2>6
<1>4. CASE /\ kind # "big" /\ Suspend(c, fd, kind = "ms") /\ call' = [call EXCEPT ![c] = k]
           /\ res' = [res EXCEPT ![c] = "none"]
  <2>1. /\ st' = [st EXCEPT ![c] = "wait"] /\ stack' = Tail(stack) /\ rfd' = [rfd EXCEPT ![c] = fd]
        /\ is_timeout' = [is_timeout EXCEPT ![c] = FALSE] /\ EpollAdd(fd, c)
        /\ UNCHANGED <<active, destroy_co>>
    BY <1>4 DEF Suspend, Resumer
  <2>2. timer' = [timer EXCEPT ![c] = (kind = "ms")]
    BY <1>4 DEF Suspend
  <2>3. timer' \in [Co -> BOOLEAN] /\ (timer'[c] <=> kind = "ms") /\ \A d \in Co \ {c} : timer'[d] = timer[d]
    <3>1. (kind = "ms") \in BOOLEAN
      OBVIOUS
    <3>2. timer \in [Co -> BOOLEAN]
      BY <1>1 DEF LoopType
    <3> QED
      BY <2>2, <3>1, <3>2
  <2>4. is_timeout' \in [Co -> BOOLEAN]
    BY <1>1, <2>1 DEF LoopType
  <2>5. item_map' \in [Fds -> Co \cup {NoCo}] /\ interest' \in [Fds -> Co \cup {NoCo}]
    BY <1>1, <2>1 DEF LoopType, EpollAdd, epoll
  <2>6. /\ st' \in [Co -> States] /\ rfd' \in [Co -> Fds \cup {NoFd}] /\ st'[c] = "wait" /\ rfd'[c] = fd
        /\ \A d \in Co \ {c} : st'[d] = st[d] /\ rfd'[d] = rfd[d]
    BY <1>1, <2>1 DEF LoopType, States
  <2>7. stack' \in Seq(Co)
    <3>1. stack \in Seq(Co) /\ stack # <<>>
      BY <1>1 DEF LoopType, Running
    <3> QED
      BY <2>1, <3>1
  <2>8. LoopType'
    BY <1>1, <2>1, <2>3, <2>4, <2>5, <2>6, <2>7 DEF LoopType
  <2>9. call' \in [Co -> Calls] /\ call'[c] = k /\ \A d \in Co \ {c} : call'[d] = call[d]
    BY <1>1, <1>2, <1>4
  <2>10. res' \in [Co -> Results]
    BY <1>1, <1>4 DEF Results
  <2>11. LoopMoves(c)
    BY <1>2, <2>1, <2>3, <2>6, <2>9 DEF LoopMoves
  <2> QED
    BY <2>8, <2>9, <2>10, <2>11 DEF k
<1> QED
  BY <1>3, <1>4 DEF co_register, k

\* A kernel that is left alone.
LEMMA KernelStays ==
  ASSUME ConnInv, UNCHANGED <<kernel, g_socket_inf>>
  PROVE  KernelType' /\ SocketsStay
  BY Typed DEF KernelType, kernel, SocketsStay, HasInf

\* A socket that is changed and stays as open as it was.
LEMMA SocketChanges ==
  ASSUME ConnInv, NEW fd \in Fds, NEW s \in Sockets, s.state = sock[fd].state,
         sock' = [sock EXCEPT ![fd] = s], stream' \in [Watched -> Units], UNCHANGED g_socket_inf
  PROVE  KernelType' /\ SocketsStay
<1>1. sock \in [Fds -> Sockets] /\ g_socket_inf \in [Fds -> Infs]
  BY Typed
<1>2. sock' \in [Fds -> Sockets] /\ \A f \in Fds : sock'[f].state = sock[f].state
  BY <1>1
<1> QED
  BY <1>1, <1>2 DEF KernelType, SocketsStay, HasInf

\* What write and send can take of the rest of a message.
LEMMA TakesSome ==
  ASSUME ConnInv, NEW fd \in Fds, NEW n \in 0 .. MsgLen
  PROVE  Takes(fd, n) \in 0 .. (MsgLen - n) /\ Takes(fd, n) <= sock[fd].room /\ sock[fd].room \in 0 .. Room
<1>1. sock[fd].room \in 0 .. Room
  BY Typed DEF Sockets
<1>2. Min({sock[fd].room, MsgLen - n}) = IF sock[fd].room <= MsgLen - n THEN sock[fd].room ELSE MsgLen - n
  BY <1>1, MinOfTwo
<1> QED
  BY <1>1, <1>2 DEF Takes

\* write, by whomever to whatever descriptor.
LEMMA WriteEffect ==
  ASSUME ConnInv, Alive, NEW c \in Co, NEW fd \in Fds, NEW n \in 0 .. MsgLen - 1, write(c, fd, n),
         UNCHANGED g_socket_inf
  PROVE  /\ KernelType' /\ SocketsStay
         /\ errno' \in {"EAGAIN", "EINTR", "other"} /\ fate' \in {"alive", "killed"}
<1> DEFINE k == Takes(fd, n)
<1>1. /\ sock \in [Fds -> Sockets] /\ sock[fd] \in Sockets /\ stream \in [Watched -> Units]
      /\ errno \in {"EAGAIN", "EINTR", "other"} /\ fate = "alive"
  BY Typed DEF Alive
<1>2. k \in 0 .. MsgLen - n /\ sock[fd].room - k \in 0 .. Room
  BY TakesSome
<1> HIDE DEF k
<1>3. CASE k > 0 /\ sock' = [sock EXCEPT ![fd].room = @ - k] /\ UNCHANGED <<errno, fate>>
           /\ Record(fd, IF Piece(n, k) = MsgLen THEN NoUnit ELSE <<c, Piece(n, k)>>)
  <2> DEFINE s == [sock[fd] EXCEPT !.room = @ - k]
             u == IF Piece(n, k) = MsgLen THEN NoUnit ELSE <<c, Piece(n, k)>>
  <2>1. s \in Sockets /\ s.state = sock[fd].state /\ sock' = [sock EXCEPT ![fd] = s]
    BY <1>1, <1>2, <1>3 DEF Sockets
  <2>2. u \in Units
    BY <1>2 DEF NoUnit, Units, Piece
  <2> HIDE DEF s, u
  <2>3. stream' \in [Watched -> Units]
    BY <1>1, <1>3, <2>2 DEF Record, u
  <2> QED
    BY <1>1, <1>3, <2>1, <2>3, SocketChanges
<1>4. CASE UNCHANGED kernel /\ fate' \in {"alive", "killed"} /\ errno' \in {"EAGAIN", "EINTR", "other"}
  BY <1>4, KernelStays
<1>5. CASE sock' = [sock EXCEPT ![fd].end = "shut"] /\ errno' = "other" /\ UNCHANGED <<stream, fate>>
  <2> DEFINE s == [sock[fd] EXCEPT !.end = "shut"]
  <2>1. s \in Sockets /\ s.state = sock[fd].state /\ sock' = [sock EXCEPT ![fd] = s]
    BY <1>1, <1>5 DEF Sockets
  <2> HIDE DEF s
  <2> QED
    BY <1>1, <1>5, <2>1, SocketChanges
<1> QED
  BY <1>1, <1>3, <1>4, <1>5 DEF write, k

\* write, and the return or the wait behind it.
LEMMA WriteRest ==
  ASSUME ConnInv, Alive, NEW c \in Co, Running(c), NEW fd \in Fds, NEW n \in 0 .. MsgLen - 1,
         write(c, fd, n), UNCHANGED g_socket_inf, NEW k, k = Takes(fd, n), NEW kind \in Kinds,
         \/ UNCHANGED loop /\ \E r \in {"fail", "sent"} : Return(c, r)
         \/ n + k # MsgLen /\ co_register(c, "write", fd, n + k, kind)
  PROVE  SysEffect(c) /\ (call'[c] = NoCall \/ Writing(c)')
<1>1. /\ KernelType' /\ SocketsStay
      /\ errno' \in {"EAGAIN", "EINTR", "other"} /\ fate' \in {"alive", "killed"}
  BY WriteEffect
<1>2. ASSUME LoopType', LoopMoves(c), call' \in [Co -> Calls], res' \in [Co -> Results] PROVE SysEffect(c)
  BY <1>1, <1>2 DEF SysEffect, CallType
<1>3. CASE UNCHANGED loop /\ \E r \in {"fail", "sent"} : Return(c, r)
  <2>1. PICK r \in {"fail", "sent"} : Return(c, r)
    BY <1>3
  <2>2. r \in Results
    BY DEF Results
  <2> QED
    BY <1>2, <1>3, <2>1, <2>2, ReturnEffect
<1>4. CASE n + k # MsgLen /\ co_register(c, "write", fd, n + k, kind)
  <2>1. n \in 0 .. MsgLen
    OBVIOUS
  <2>2. n + k \in Nat /\ n + k < MsgLen
    BY <1>4, <2>1, TakesSome
  <2>3. n + k \in 0 .. Max({3, MsgLen}) /\ "write" \in Ops \ {"none"}
    BY <2>2, PlacesFit DEF Ops
  <2>4. PICK m : m = n + k
    OBVIOUS
  <2>5. co_register(c, "write", fd, m, kind) /\ m \in 0 .. Max({3, MsgLen}) /\ m < MsgLen
    BY <1>4, <2>2, <2>3, <2>4
  <2>6. /\ LoopType' /\ call' \in [Co -> Calls] /\ res' \in [Co -> Results] /\ LoopMoves(c)
        /\ \/ call'[c] = NoCall /\ res'[c] = "TIME_OUT" /\ kind = "big"
           \/ call'[c] = [op |-> "write", fd |-> fd, n |-> m, kind |-> kind]
    <3>1. fd \in Fds \cup {NoFd} /\ "write" \in Ops \ {"none"}
      BY <2>3
    <3> HIDE SysAssumption, ConnectionAssumption
    <3> QED
      BY <2>5, <3>1, RegisterEffect
  <2> QED
    BY <1>2, <2>5, <2>6 DEF Writing
<1> QED
  BY <1>3, <1>4

\* Nothing happens in the library.
LEMMA IdleEffect ==
  ASSUME ConnInv, Alive, NEW c \in Co, Running(c), call[c] = NoCall, UNCHANGED sysVars
  PROVE  SysEffect(c) /\ call'[c] = NoCall /\ UNCHANGED <<res, errno, sock>>
<1>1. UNCHANGED loop /\ UNCHANGED kernel /\ UNCHANGED <<g_socket_inf, errno, call, res, fate>>
  BY DEF sysVars, calls
<1>2. KernelType' /\ SocketsStay
  BY <1>1, KernelStays
<1>3. CallType' /\ LoopType' /\ UNCHANGED <<st, stack, rfd, timer, active, destroy_co>>
  BY <1>1, Typed DEF CallType, LoopType, loop
<1>4. LoopMoves(c)
  BY <1>1, <1>3, RunFacts DEF LoopMoves
<1> QED
  BY <1>1, <1>2, <1>3, <1>4 DEF SysEffect, Alive, kernel

\* A connection that has not closed has an open descriptor and its socket_inf.
LEMMA OwnerFacts ==
  ASSUME ConnInv, Alive, NEW d \in Co, Owns(d)
  PROVE  fd_[d] \in Fds /\ HasInf(fd_[d]) /\ (d \in Conns => sock[fd_[d]].state = "open")
<1>1. fd_[d] \in Fds /\ fate # "aborted"
  BY Typed DEF Owns, Alive
<1>2. sock[fd_[d]].state # "free"
  BY <1>1 DEF ConnInv, InfOK
<1>3. HasInf(fd_[d])
  BY <1>1, <1>2 DEF ConnInv, InfOK
<1> QED
  BY <1>1, <1>3 DEF ConnInv, OpenOK

\* Where a connection is that is not in a wrapper.
LEMMA FreeFacts ==
  ASSUME ConnInv, NEW c \in Conns, Free(c)
  PROVE  /\ c \in Co /\ Alive /\ Running(c) /\ st[c] = "run" /\ call[c] = NoCall /\ ConnAt(c) /\ fd_[c] # NoFd
         /\ place[c] \notin {"none", "ended"} /\ (place[c] # "end" => Owns(c))
<1>1. c \in Co /\ Alive /\ Running(c) /\ call[c] = NoCall /\ ConnAt(c)
  BY DEF Free, Conns, ConnInv, WhereOK
<1>2. st[c] = "run"
  BY <1>1, RunFacts
<1>3. place[c] \notin {"none", "ended"}
  BY <1>1, <1>2 DEF ConnAt
<1> QED
  BY <1>1, <1>2, <1>3 DEF ConnAt, Owns

\* The message that a callback of c sends to d.
LEMMA SendEffect ==
  ASSUME ConnInv, NEW c \in Conns, NEW d \in Conns, Owns(d), send(c, d)
  PROVE  SysEffect(c) /\ (call'[c] = NoCall \/ Writing(c)') /\ UNCHANGED end_
<1>1. PICK fd : fd = fd_[d]
  OBVIOUS
<1>2. c \in Co /\ d \in Co /\ Alive /\ Running(c) /\ co_write(c, "write", fd) /\ UNCHANGED end_
  BY <1>1 DEF send, co_write, Free, Conns
<1>3. fd \in Fds /\ HasInf(fd)
  BY <1>1, <1>2, OwnerFacts
<1>4. PICK k, kind : k = Takes(fd, 0) /\ kind = g_socket_inf[fd].write
  OBVIOUS
<1>5. kind \in Kinds /\ k \in 0 .. MsgLen /\ 0 \in 0 .. MsgLen - 1
  BY <1>3, <1>4, Typed, TakesSome DEF Infs
<1>6. /\ write(c, fd, 0) /\ UNCHANGED g_socket_inf
      /\ \/ UNCHANGED loop /\ \E r \in {"fail", "sent"} : Return(c, r)
         \/ k # MsgLen /\ co_register(c, "write", fd, k, kind)
  BY <1>2, <1>3, <1>4 DEF co_write, CrashOn
<1>7. 0 + k = k
  BY <1>5
<1> QED
  BY <1>2, <1>3, <1>4, <1>5, <1>6, <1>7, WriteRest

\* A callback, whichever connections it uses.
LEMMA CallbackEffect ==
  ASSUME ConnInv, NEW c \in Conns, Free(c), place[c] # "end", NEW acts, Callback(c, acts)
  PROVE  SysEffect(c) /\ (call'[c] = NoCall \/ Writing(c)') /\ end_' \in [Conns -> BOOLEAN]
<1>1. end_ \in [Conns -> BOOLEAN]
  BY Typed DEF ConnType
<1>2. c \in Co /\ Alive /\ Running(c) /\ call[c] = NoCall
  BY FreeFacts
<1>3. CASE UNCHANGED <<sysVars, end_>>
  BY <1>1, <1>2, <1>3, IdleEffect
<1>4. Owns(c)
  BY FreeFacts
<1>5. ASSUME NEW d \in Known(c) PROVE d \in Conns /\ Owns(d)
  <2>1. d \in Conns /\ place[d] \in {"connected", "loop", "read"} /\ ConnAt(d)
    BY <1>5 DEF Known, ConnInv, WhereOK
  <2> QED
    BY <2>1 DEF ConnAt, Owns
<1>6. ASSUME NEW d \in Conns, Owns(d), send(c, d)
      PROVE  SysEffect(c) /\ (call'[c] = NoCall \/ Writing(c)') /\ UNCHANGED end_
  BY <1>6, SendEffect
<1>7. ASSUME NEW d \in Conns, close(d) PROVE SysEffect(c) /\ call'[c] = NoCall /\ end_' \in [Conns -> BOOLEAN]
  <2>1. UNCHANGED sysVars /\ end_' = [end_ EXCEPT ![d] = TRUE]
    BY <1>7 DEF close
  <2>2. end_' \in [Conns -> BOOLEAN]
    BY <1>1, <2>1
  <2> QED
    BY <1>2, <2>1, <2>2, IdleEffect
<1>8. \/ UNCHANGED <<sysVars, end_>>
      \/ \E d \in Conns : Owns(d) /\ (send(c, d) \/ close(d))
  BY <1>4, <1>5 DEF Callback
<1> QED
  BY <1>1, <1>3, <1>6, <1>7, <1>8

\* A timeout that ConnectedCb sets.
LEMMA SetTimeoutEffect ==
  ASSUME ConnInv, NEW c \in Conns, Free(c), place[c] # "end", SetTimeout(c)
  PROVE  SysEffect(c) /\ call'[c] = NoCall /\ UNCHANGED end_
<1>1. c \in Co /\ Alive /\ Running(c) /\ call[c] = NoCall /\ Owns(c)
  BY FreeFacts
<1>2. fd_[c] \in Fds
  BY <1>1, OwnerFacts
<1>3. PICK fd : fd = fd_[c]
  OBVIOUS
<1>4. PICK kind \in SetKinds : set_read_timeout(c, kind) \/ set_write_timeout(c, kind)
  BY DEF SetTimeout
<1>5. /\ UNCHANGED loop /\ UNCHANGED kernel /\ UNCHANGED <<errno, call, res, fate, end_>>
      /\ \/ g_socket_inf' = [g_socket_inf EXCEPT ![fd].read = kind]
         \/ g_socket_inf' = [g_socket_inf EXCEPT ![fd].write = kind]
  BY <1>3, <1>4 DEF set_read_timeout, set_write_timeout
<1>6. g_socket_inf' \in [Fds -> Infs] /\ \A f \in Fds : HasInf(f)' <=> HasInf(f)
  <2>1. g_socket_inf \in [Fds -> Infs] /\ kind \in Kinds
    BY Typed
  <2> QED
    BY <1>2, <1>3, <1>5, <2>1 DEF Infs, HasInf
<1>7. KernelType' /\ SocketsStay
  BY <1>5, <1>6, Typed DEF KernelType, SocketsStay, kernel
<1>8. CallType' /\ LoopType' /\ UNCHANGED <<st, stack, rfd, timer, active, destroy_co>>
  BY <1>5, Typed DEF CallType, LoopType, loop
<1>9. LoopMoves(c)
  BY <1>1, <1>5, <1>8, RunFacts DEF LoopMoves
<1> QED
  BY <1>1, <1>5, <1>7, <1>8, <1>9 DEF SysEffect, Alive

\* read behind its co_register: what it tells is in errno or in the socket.
LEMMA ReadTypes ==
  ASSUME ConnInv, NEW fd \in Fds
  PROVE  \E r \in {"data", "eof", "fail"}, s \in Sockets, e \in {"EAGAIN", "EINTR", "other"} :
           /\ read(fd) = [r |-> r, s |-> s, e |-> e] /\ s.state = sock[fd].state
           /\ sock[fd].state = "open" => r = "data" \/ e = "EAGAIN" \/ s.end # "no"
<1> DEFINE s == sock[fd]
<1>1. s \in Sockets /\ errno \in {"EAGAIN", "EINTR", "other"}
  BY Typed
<1>2. s.end \in {"no", "fin", "rst", "shut"}
  BY <1>1 DEF Sockets
<1>3. /\ [s EXCEPT !.in = FALSE] \in Sockets /\ [s EXCEPT !.in = FALSE].state = s.state
      /\ [s EXCEPT !.end = "shut"] \in Sockets /\ [s EXCEPT !.end = "shut"].state = s.state
      /\ [s EXCEPT !.end = "shut"].end = "shut"
  BY <1>1 DEF Sockets
<1>4. \/ read(fd) = [r |-> "data", s |-> [s EXCEPT !.in = FALSE], e |-> errno]
      \/ read(fd) = [r |-> "eof", s |-> s, e |-> errno] /\ s.end \in {"fin", "shut"}
      \/ read(fd) = [r |-> "fail", s |-> [s EXCEPT !.end = "shut"], e |-> "other"]
      \/ read(fd) = [r |-> "fail", s |-> s, e |-> "EAGAIN"]
      \/ read(fd) = [r |-> "fail", s |-> s, e |-> "other"] /\ s.state # "open"
  BY <1>2 DEF read
<1> HIDE DEF s
<1> QED
  BY <1>1, <1>3, <1>4 DEF s

-----------------------------------------------------------------------------
(***************************************************************************)
(* The steps of a connection.                                              *)
(***************************************************************************)

\* A step of connection c to place p, with what it does to the library and to the connection.
LEMMA ConnMoves ==
  ASSUME ConnInv, NEW c \in Conns, Alive, Running(c), SysEffect(c), UNCHANGED fd_,
         place[c] \notin {"none", "end", "ended"}, NEW p \in {"connected", "loop", "read", "disc", "close"},
         place' = [place EXCEPT ![c] = p], end_' \in [Conns -> BOOLEAN], statue' \in [Conns -> Statues],
         \/ call'[c] = NoCall /\ p \in {"connected", "loop", "close"}
         \/ Writing(c)' /\ p \in {"connected", "loop", "close"}
         \/ call'[c] = NoCall /\ p = "read" /\ ReadTold(c)'
         \/ call'[c].op = "read" /\ call'[c].fd = fd_[c] /\ p = "read"
         \/ call'[c] = NoCall /\ p = "disc" /\ Told(c)'
  PROVE  ConnInv'
<1>1. c \in Co /\ c # Server
  BY DEF Conns
<1>2. place \in [Co -> ConnPlaces \cup ServerPlaces] /\ fd_ \in [Co -> Fds \cup {NoFd}]
  BY Typed
<1>3. place'[c] = p /\ \A d \in Co \ {c} : place'[d] = place[d]
  BY <1>1, <1>2
<1>4. ConnType'
  BY <1>1, <1>2 DEF ConnType, ConnPlaces
<1>5. st'[c] \in {"run", "wait"} /\ (st'[c] = "wait" => call'[c] # NoCall)
  BY DEF SysEffect, LoopMoves
<1>6. fd_[c] # NoFd
  BY DEF ConnInv, WhereOK, ConnAt
<1>7. ConnAt(c)'
  BY <1>3, <1>5, <1>6 DEF ConnAt
<1>8. place'[c] = "disc" => Told(c)'
  BY <1>3
<1> QED
  BY <1>1, <1>3, <1>4, <1>7, <1>8, RunStep

\* ConnectedCb.
LEMMA ConnectedStep ==
  ASSUME ConnInv, NEW c \in Conns, ConnectedCb(c)
  PROVE  ConnInv'
<1>1. /\ Free(c) /\ place[c] = "run" /\ UNCHANGED fd_ /\ place' = [place EXCEPT ![c] = "connected"]
      /\ statue' = [statue EXCEPT ![c] = "connected"] /\ (Callback(c, OnConnected) \/ SetTimeout(c))
  BY DEF ConnectedCb, Goto
<1>2. Alive /\ Running(c)
  BY <1>1, FreeFacts
<1>3. statue' \in [Conns -> Statues] /\ end_ \in [Conns -> BOOLEAN]
  BY <1>1, Typed DEF ConnType, Statues
<1>4. SysEffect(c) /\ (call'[c] = NoCall \/ Writing(c)') /\ end_' \in [Conns -> BOOLEAN]
  BY <1>1, <1>3, CallbackEffect, SetTimeoutEffect
<1> QED
  BY <1>1, <1>2, <1>3, <1>4, ConnMoves

\* ReceiveCb.
LEMMA ReceiveStep ==
  ASSUME ConnInv, NEW c \in Conns, ReceiveCb(c)
  PROVE  ConnInv'
<1>1. Free(c) /\ place[c] = "read" /\ UNCHANGED <<fd_, statue>> /\ place' = [place EXCEPT ![c] = "loop"] /\ Callback(c, OnReceive)
  BY DEF ReceiveCb, Goto
<1>2. Alive /\ Running(c)
  BY <1>1, FreeFacts
<1>3. statue' \in [Conns -> Statues]
  BY <1>1, Typed DEF ConnType
<1>4. SysEffect(c) /\ (call'[c] = NoCall \/ Writing(c)') /\ end_' \in [Conns -> BOOLEAN]
  BY <1>1, CallbackEffect
<1> QED
  BY <1>1, <1>2, <1>3, <1>4, ConnMoves

\* DisconnectedCb.
LEMMA DisconnectedStep ==
  ASSUME ConnInv, NEW c \in Conns, DisconnectedCb(c)
  PROVE  ConnInv'
<1>1. Free(c) /\ place[c] = "disc" /\ UNCHANGED <<fd_, statue>> /\ place' = [place EXCEPT ![c] = "close"] /\ Callback(c, OnDisconnected)
  BY DEF DisconnectedCb, Goto
<1>2. Alive /\ Running(c)
  BY <1>1, FreeFacts
<1>3. statue' \in [Conns -> Statues]
  BY <1>1, Typed DEF ConnType
<1>4. SysEffect(c) /\ (call'[c] = NoCall \/ Writing(c)') /\ end_' \in [Conns -> BOOLEAN]
  BY <1>1, CallbackEffect
<1> QED
  BY <1>1, <1>2, <1>3, <1>4, ConnMoves

(***************************************************************************)
(* The loop is left: what DisconnectedCb will be told is true if the       *)
(* client is not said to have closed a connection it has not.              *)
(***************************************************************************)
LEMMA LeaveStep ==
  ASSUME ConnInv, NEW c \in Conns, Free(c), place[c] \in {"connected", "loop", "read"}, UNCHANGED <<sysVars, fd_, end_>>,
         NEW s \in Statues, Leave(c, s),
         \/ s = "close_by_client" /\ sock[fd_[c]].end # "no"
         \/ s = "close_by_server_timeout"
         \/ s = "connecting" /\ end_[c]
  PROVE  ConnInv'
<1>1. Alive /\ Running(c) /\ call[c] = NoCall /\ c \in Co
  BY FreeFacts
<1>2. SysEffect(c) /\ call'[c] = NoCall /\ UNCHANGED sock
  BY <1>1, IdleEffect
<1>3. PICK t : t = IF end_[c] /\ s # "close_by_client" THEN "close_by_server_other" ELSE s
  OBVIOUS
<1>4. statue' = [statue EXCEPT ![c] = t] /\ place' = [place EXCEPT ![c] = "disc"]
  BY <1>3 DEF Leave, Goto
<1>5. t \in Statues
  BY <1>3 DEF Statues
<1>6. statue \in [Conns -> Statues] /\ end_' \in [Conns -> BOOLEAN]
  BY Typed DEF ConnType
<1>7. statue' \in [Conns -> Statues] /\ statue'[c] = t
  BY <1>4, <1>5, <1>6
<1>8. Told(c)'
  BY <1>2, <1>3, <1>7 DEF Told
<1> QED
  BY <1>1, <1>2, <1>4, <1>6, <1>7, <1>8, ConnMoves

\* The loop's test, and co_read behind it.
LEMMA LoopStep ==
  ASSUME ConnInv, NEW c \in Conns, LoopTest(c)
  PROVE  ConnInv'
<1>1. Free(c) /\ place[c] \in {"connected", "loop"} /\ UNCHANGED <<fd_, end_>>
  BY DEF LoopTest
<1>2. Alive /\ Running(c) /\ call[c] = NoCall /\ c \in Co /\ Owns(c)
  BY <1>1, FreeFacts
<1>3. CASE LoopEnds(c) /\ Leave(c, "connecting") /\ UNCHANGED sysVars
  <2>1. "connecting" \in Statues
    BY DEF Statues
  <2> QED
    BY <1>1, <1>3, <2>1, LeaveStep DEF LoopEnds
<1>4. CASE co_read(c, "read", fd_[c]) /\ statue' = [statue EXCEPT ![c] = "connecting"] /\ Goto(c, "read")
  <2>1. PICK fd : fd = fd_[c]
    OBVIOUS
  <2>2. fd \in Fds /\ HasInf(fd)
    BY <1>2, <2>1, OwnerFacts
  <2>3. PICK kind : kind = g_socket_inf[fd].read
    OBVIOUS
  <2>4. kind \in Kinds /\ fd \in Fds \cup {NoFd} /\ "read" \in Ops \ {"none"} /\ 0 \in 0 .. Max({3, MsgLen})
    BY <2>2, <2>3, Typed, PlacesFit DEF Infs, Ops
  <2>5. co_register(c, "read", fd, 0, kind) /\ UNCHANGED <<kernel, g_socket_inf>> /\ UNCHANGED <<errno, fate>>
    BY <1>4, <2>1, <2>2, <2>3 DEF co_read, CrashOn
  <2>6. /\ LoopType' /\ call' \in [Co -> Calls] /\ res' \in [Co -> Results] /\ LoopMoves(c)
        /\ \/ call'[c] = NoCall /\ res'[c] = "TIME_OUT" /\ kind = "big"
           \/ call'[c] = [op |-> "read", fd |-> fd, n |-> 0, kind |-> kind]
    <3> HIDE SysAssumption, ConnectionAssumption
    <3> QED
      BY <1>2, <2>4, <2>5, RegisterEffect
  <2>7. SysEffect(c)
    <3>1. KernelType' /\ SocketsStay
      BY <2>5, KernelStays
    <3>2. errno' \in {"EAGAIN", "EINTR", "other"} /\ fate' = "alive"
      BY <1>2, <2>5, Typed DEF Alive
    <3> QED
      BY <2>6, <3>1, <3>2 DEF SysEffect, CallType
  <2>8. \/ call'[c] = NoCall /\ ReadTold(c)'
        \/ call'[c].op = "read" /\ call'[c].fd = fd_[c]
    BY <2>1, <2>6 DEF ReadTold
  <2>9. statue' \in [Conns -> Statues] /\ end_' \in [Conns -> BOOLEAN]
    BY <1>1, <1>4, Typed DEF ConnType, Statues
  <2>10. place' = [place EXCEPT ![c] = "read"]
    BY <1>4 DEF Goto
  <2> QED
    BY <1>1, <1>2, <2>7, <2>8, <2>9, <2>10, ConnMoves
<1> QED
  BY <1>3, <1>4 DEF LoopTest

\* The end of a read that returned nothing.
LEMMA ReadEndsStep ==
  ASSUME ConnInv, NEW c \in Conns, ReadEnds(c)
  PROVE  ConnInv'
<1>1. Free(c) /\ place[c] = "read" /\ res[c] # "data" /\ UNCHANGED <<sysVars, fd_, end_>>
  BY DEF ReadEnds
<1>2. Alive /\ Running(c) /\ call[c] = NoCall /\ c \in Co /\ ConnAt(c)
  BY <1>1, FreeFacts
<1>3. ReadTold(c)
  <2>1. NoCall.op # "read"
    BY NoCallType
  <2> QED
    BY <1>1, <1>2, <2>1 DEF ConnAt
<1>4. CASE ReadAgain(c)
  <2>1. SysEffect(c) /\ call'[c] = NoCall
    BY <1>1, <1>2, IdleEffect
  <2>2. UNCHANGED statue /\ place' = [place EXCEPT ![c] = "loop"]
    BY <1>4 DEF ReadEnds, Goto
  <2>3. statue' \in [Conns -> Statues] /\ end_' \in [Conns -> BOOLEAN]
    BY <1>1, <2>2, Typed DEF ConnType
  <2> QED
    BY <1>1, <1>2, <2>1, <2>2, <2>3, ConnMoves
<1>5. CASE ~ReadAgain(c)
  <2>1. PICK s : s = ReadStatue(c)
    OBVIOUS
  <2>2. Leave(c, s) /\ s \in Statues
    BY <1>5, <2>1 DEF ReadEnds, ReadStatue, Statues
  <2>3. \/ s = "close_by_client" /\ sock[fd_[c]].end # "no"
        \/ s = "close_by_server_timeout"
    BY <1>1, <1>3, <1>5, <2>1 DEF ReadTold, ReadAgain, ReadStatue
  <2> QED
    BY <1>1, <2>2, <2>3, LeaveStep
<1> QED
  BY <1>4, <1>5

\* The rest of a wrapper that a connection was waiting in.
LEMMA WakeupStep ==
  ASSUME ConnInv, NEW c \in Conns, Wakeup(c), UNCHANGED conn
  PROVE  ConnInv'
<1>1. c \in Co /\ Alive /\ Running(c) /\ ConnAt(c) /\ st[c] = "run" /\ UNCHANGED <<place, fd_, end_, statue>>
  <2>1. c \in Co /\ Alive /\ Running(c) /\ ConnAt(c) /\ UNCHANGED <<place, fd_, end_, statue>>
    BY DEF Wakeup, SleepWoken, ConnectWoken, ReadWoken, WriteWoken, Woken, ConnInv, WhereOK, conn, Conns
  <2> QED
    BY <2>1, RunFacts
<1>2. PICK p, fd, n : p = place[c] /\ fd = call[c].fd /\ n = call[c].n
  OBVIOUS
<1>3. call[c] \in Calls /\ place \in [Co -> ConnPlaces \cup ServerPlaces]
  BY <1>1, Typed
<1>4. statue' \in [Conns -> Statues] /\ end_' \in [Conns -> BOOLEAN] /\ place' = [place EXCEPT ![c] = p]
  BY <1>1, <1>2, <1>3, Typed DEF ConnType
<1>5. \/ Writing(c) /\ p \in {"connected", "loop", "close"} /\ WriteWoken(c)
      \/ call[c].op = "read" /\ fd = fd_[c] /\ p = "read" /\ ReadWoken(c)
  <2>1. call[c].op \in {"sleep", "connect", "read", "recv", "write", "send"}
    BY DEF Wakeup, SleepWoken, ConnectWoken, ReadWoken, WriteWoken, Woken
  <2>2. \/ Writing(c) /\ p \in {"connected", "loop", "close"}
        \/ call[c].op = "read" /\ fd = fd_[c] /\ p = "read"
    BY <1>1, <1>2, <2>1, NoCallType DEF ConnAt
  <2> QED
    BY <2>2 DEF Wakeup, SleepWoken, ConnectWoken, ReadWoken, WriteWoken, Woken, Writing
<1>6. ASSUME TimesOut(c) PROVE SysEffect(c) /\ call'[c] = NoCall /\ res'[c] = "TIME_OUT"
  <2>1. Return(c, "TIME_OUT") /\ UNCHANGED loop /\ UNCHANGED <<kernel, g_socket_inf>> /\ UNCHANGED <<errno, fate>>
    BY <1>6 DEF TimesOut
  <2>2. "TIME_OUT" \in Results
    BY DEF Results
  <2>3. KernelType' /\ SocketsStay
    BY <2>1, KernelStays
  <2>4. /\ LoopType' /\ call' \in [Co -> Calls] /\ res' \in [Co -> Results]
        /\ LoopMoves(c) /\ call'[c] = NoCall /\ res'[c] = "TIME_OUT"
    BY <1>1, <2>1, <2>2, ReturnEffect
  <2>5. errno' \in {"EAGAIN", "EINTR", "other"} /\ fate' = "alive"
    BY <1>1, <2>1, Typed DEF Alive
  <2> QED
    BY <2>3, <2>4, <2>5 DEF SysEffect, CallType
<1>7. CASE Writing(c) /\ p \in {"connected", "loop", "close"} /\ WriteWoken(c)
  <2>1. fd \in Fds /\ n \in 0 .. MsgLen - 1
    BY <1>2, <1>3, <1>7, PlacesFit DEF Writing, Calls
  <2>2. PICK k, kind : k = Takes(fd, n) /\ kind = call[c].kind
    OBVIOUS
  <2>3. kind \in Kinds
    BY <1>3, <2>2 DEF Calls
  <2>4. \/ TimesOut(c)
        \/ /\ write(c, fd, n) /\ UNCHANGED g_socket_inf
           /\ \/ UNCHANGED loop /\ \E r \in {"fail", "sent"} : Return(c, r)
              \/ n + k # MsgLen /\ co_register(c, "write", fd, n + k, kind)
    BY <1>2, <1>7, <2>2 DEF WriteWoken, Writing
  <2>5. SysEffect(c) /\ (call'[c] = NoCall \/ Writing(c)')
    BY <1>1, <1>6, <2>1, <2>2, <2>3, <2>4, WriteRest
  <2> QED
    BY <1>1, <1>2, <1>4, <1>7, <2>5, ConnMoves
<1>8. CASE call[c].op = "read" /\ fd = fd_[c] /\ p = "read" /\ ReadWoken(c)
  <2>1. Owns(c) /\ fd \in Fds /\ sock[fd].state = "open"
    <3>1. Owns(c)
      BY <1>1, <1>2, <1>8 DEF ConnAt, Owns
    <3> QED
      BY <1>1, <1>8, <3>1, OwnerFacts
  <2>2. PICK r \in {"data", "eof", "fail"}, s \in Sockets, e \in {"EAGAIN", "EINTR", "other"} :
           /\ read(fd) = [r |-> r, s |-> s, e |-> e] /\ s.state = sock[fd].state
           /\ sock[fd].state = "open" => r = "data" \/ e = "EAGAIN" \/ s.end # "no"
    BY <2>1, ReadTypes
  <2>3. \/ TimesOut(c)
        \/ /\ sock' = [sock EXCEPT ![fd] = s] /\ errno' = e /\ Return(c, r)
           /\ UNCHANGED loop /\ UNCHANGED <<stream, g_socket_inf>> /\ UNCHANGED fate
    <3>1. read(fd).s = s /\ read(fd).r = r /\ read(fd).e = e
      BY <2>2
    <3> QED
      BY <1>2, <1>8, <3>1 DEF ReadWoken
  <2>4. CASE TimesOut(c)
    <3>1. SysEffect(c) /\ call'[c] = NoCall /\ ReadTold(c)'
      BY <1>6, <2>4 DEF ReadTold
    <3> QED
      BY <1>1, <1>2, <1>4, <1>8, <3>1, ConnMoves
  <2>5. CASE /\ sock' = [sock EXCEPT ![fd] = s] /\ errno' = e /\ Return(c, r)
             /\ UNCHANGED loop /\ UNCHANGED <<stream, g_socket_inf>> /\ UNCHANGED fate
    <3>1. r \in Results
      BY DEF Results
    <3>2. /\ LoopType' /\ call' \in [Co -> Calls] /\ res' \in [Co -> Results]
          /\ LoopMoves(c) /\ call'[c] = NoCall /\ res'[c] = r
      BY <1>1, <2>5, <3>1, ReturnEffect
    <3>3. stream' \in [Watched -> Units]
      BY <2>5, Typed
    <3>4. KernelType' /\ SocketsStay
      BY <2>1, <2>2, <2>5, <3>3, SocketChanges
    <3>5. SysEffect(c)
      BY <1>1, <2>5, <3>2, <3>4 DEF SysEffect, CallType, Alive
    <3>6. sock'[fd] = s
      BY <2>1, <2>5, Typed
    <3>7. ReadTold(c)'
      BY <1>1, <1>8, <2>1, <2>2, <2>5, <3>2, <3>6 DEF ReadTold
    <3> QED
      BY <1>1, <1>2, <1>4, <1>8, <3>2, <3>5, <3>7, ConnMoves
  <2> QED
    BY <2>3, <2>4, <2>5
<1> QED
  BY <1>5, <1>7, <1>8

-----------------------------------------------------------------------------
(***************************************************************************)
(* The steps of the server.                                                *)
(***************************************************************************)

\* A connection that nothing happens to.
LEMMA ConnHolds ==
  ASSUME ConnInv, NEW d \in Conns, st[d] # "run",
         place'[d] = place[d] /\ st'[d] = st[d] /\ call'[d] = call[d] /\ fd_'[d] = fd_[d]
  PROVE  ConnAt(d)'
<1>1. ConnAt(d)
  BY DEF ConnInv, WhereOK
<1> QED
  BY <1>1 DEF ConnAt, Writing

\* Where the server is that runs.
LEMMA ServerFacts ==
  ASSUME ConnInv, Running(Server)
  PROVE  /\ Server \in Co /\ st[Server] = "run" /\ stack = <<Server>> /\ \A d \in Conns : st[d] # "run"
         /\ ServerAt /\ place[Server] \in ServerPlaces \ {"start"}
<1>1. Server \in Co
  OBVIOUS
<1>2. /\ st[Server] = "run"
      /\ stack = <<Server>> \/ (Server \in Conns /\ stack = <<Server, Server>> /\ place[Server] = "accept")
      /\ \A d \in Conns \ {Server} : st[d] # "run"
  BY <1>1, RunFacts
<1>3. ServerAt
  BY DEF ConnInv, WhereOK
<1> QED
  BY <1>1, <1>2, <1>3 DEF Conns, ServerAt, ServerPlaces

\* A step of the server that leaves the descriptors and their owners matched.
LEMMA ServerTurn ==
  ASSUME ConnInv, Running(Server), LoopMoves(Server),
         KernelType', CallType', LoopType', ConnType',
         ServerAt', \A d \in Conns : ConnAt(d)',
         OwnOK', InfOK', OpenOK', NoCrash'
  PROVE  ConnInv'
<1>1. /\ Server \in Co /\ st[Server] = "run" /\ stack = <<Server>> /\ (\A d \in Conns : st[d] # "run")
  BY ServerFacts
<1>2. \A d \in Conns : d \in Co /\ st'[d] = st[d]
  BY DEF LoopMoves, Conns
<1>3. TypeOK'
  BY TypePartsNext
<1>4. Range(<<Server>>) = {Server} /\ Range(<<>>) = {} /\ Tail(<<Server>>) = <<>>
  BY <1>1, StackFacts
<1>5. StackOK'
  <2>1. \/ st'[Server] = "run" /\ stack' = <<Server>>
        \/ st'[Server] = "wait" /\ stack' = <<>>
    BY <1>1, <1>4 DEF LoopMoves
  <2>2. \A d \in Co : st'[d] = "run" <=> d \in Range(stack')
    BY <1>1, <1>2, <1>4, <2>1 DEF Conns
  <2> QED
    BY <1>1, <2>1, <2>2 DEF StackOK
<1>6. WhereOK'
  BY DEF WhereOK
<1>7. ActiveOK'
  <2>1. \A d \in Range(active) : d \in Co /\ d # Server
    BY <1>1, Typed DEF ConnInv, ActiveOK, Range
  <2> QED
    BY <2>1 DEF ConnInv, ActiveOK, LoopMoves
<1>8. DestroyOK'
  <2>1. st'[Server] \in {"run", "wait"} /\ UNCHANGED destroy_co
    BY DEF LoopMoves
  <2> QED
    BY <1>1, <1>2, <2>1 DEF ConnInv, DestroyOK, Conns
<1>9. StatusTrue'
  <2> SUFFICES ASSUME NEW d \in Conns, place'[d] = "disc" PROVE FALSE
    BY DEF StatusTrue
  <2> QED
    BY <1>1, <1>2 DEF ConnAt
<1> QED
  BY <1>3, <1>5, <1>6, <1>7, <1>8, <1>9 DEF ConnInv

\* A step of the server that only moves on and comes to place p.
LEMMA ServerMoves ==
  ASSUME ConnInv, Alive, Running(Server), SysEffect(Server), UNCHANGED <<fd_, end_, statue>>,
         NEW p \in ServerPlaces, place' = [place EXCEPT ![Server] = p],
         \/ p = "accept" /\ call'[Server] = NoCall
         \/ /\ p = "accepted" /\ call'[Server].op = "accept" /\ call'[Server].fd = fd_[Server]
            /\ call'[Server].kind # "ms"
  PROVE  ConnInv'
<1>1. Server \in Co /\ place[Server] \in ServerPlaces /\ Server \notin Conns
  BY ServerFacts DEF Conns
<1>2. place'[Server] = p /\ \A d \in Co \ {Server} : place'[d] = place[d]
  BY <1>1, Typed
<1>3. ConnType'
  BY <1>1, Typed DEF ConnType
<1>4. ServerAt'
  <2>1. \/ st'[Server] = "run" /\ call'[Server] = NoCall
        \/ /\ st'[Server] = "wait" /\ call'[Server] # NoCall /\ rfd'[Server] = call'[Server].fd
           /\ (timer'[Server] <=> call'[Server].kind = "ms")
    BY DEF SysEffect, LoopMoves
  <2> QED
    BY <1>2, <2>1, NoCallType DEF ServerAt
<1>5. place[Server] \notin {"end", "ended"} /\ place'[Server] \notin {"end", "ended"}
  BY <1>1, <1>2 DEF ServerPlaces
<1> QED
  BY <1>1, <1>2, <1>3, <1>4, <1>5, RunStep

\* A socket call that fails.
LEMMA FailEffect ==
  ASSUME ConnInv, Alive, NEW c \in Co, Running(c), errno' = "other", Return(c, "fail"),
         UNCHANGED <<kernel, g_socket_inf>>, UNCHANGED loop, UNCHANGED fate
  PROVE  SysEffect(c) /\ call'[c] = NoCall
<1>1. "fail" \in Results
  BY DEF Results
<1>2. /\ LoopType' /\ call' \in [Co -> Calls] /\ res' \in [Co -> Results] /\ LoopMoves(c) /\ call'[c] = NoCall
  BY <1>1, ReturnEffect
<1>3. KernelType' /\ SocketsStay
  BY KernelStays
<1> QED
  BY <1>2, <1>3 DEF SysEffect, CallType, Alive

\* The lowest free descriptor is one that nobody owns.
LEMMA NewFdFacts ==
  ASSUME ConnInv, Alive, NEW fd \in Fds, fd = NewFd
  PROVE  sock[fd].state = "free" /\ \A d \in Co : Owns(d) => fd_[d] # fd
<1>1. FreeFds # {} /\ FreeFds \subseteq Nat /\ fd = Min(FreeFds)
  BY DEF NewFd, FreeFds
<1>2. PICK S : S = FreeFds
  OBVIOUS
<1>3. fd \in FreeFds
  <2>1. S \subseteq Nat /\ S # {} /\ fd = Min(S)
    BY <1>1, <1>2
  <2> QED
    BY <1>2, <2>1, MinOfSome
<1> QED
  BY <1>3 DEF FreeFds, ConnInv, InfOK, Alive

\* A new descriptor, with its socket_inf, for d.
LEMMA NewOwner ==
  ASSUME ConnInv, Alive, NEW fd \in Fds, fd = NewFd, NEW d \in Co, fd_[d] = NoFd,
         fd_' = [fd_ EXCEPT ![d] = fd], place'[d] \notin {"end", "ended"},
         \A e \in Co \ {d} : place'[e] \in {"end", "ended"} <=> place[e] \in {"end", "ended"},
         sock' \in [Fds -> Sockets], sock'[fd].state # "free", d \in Conns => sock'[fd].state = "open",
         \A f \in Fds \ {fd} : sock'[f].state = sock[f].state,
         Record(fd, NoUnit), AddInf(fd), UNCHANGED fate
  PROVE  KernelType' /\ OwnOK' /\ InfOK' /\ OpenOK' /\ NoCrash'
<1>1. sock[fd].state = "free" /\ \A e \in Co : Owns(e) => fd_[e] # fd
  BY NewFdFacts
<1>2. fd_ \in [Co -> Fds \cup {NoFd}] /\ g_socket_inf \in [Fds -> Infs] /\ stream \in [Watched -> Units]
  BY Typed
<1>3. /\ fd_'[d] = fd /\ Owns(d)' /\ ~Owns(d)
      /\ \A e \in Co \ {d} : fd_'[e] = fd_[e] /\ (Owns(e)' <=> Owns(e))
  BY <1>2 DEF Owns
<1>4. KernelType'
  <2>1. socket_inf \in Infs /\ NoUnit \in Units
    BY DEF socket_inf, Infs, Kinds, NoUnit, Units
  <2>2. g_socket_inf' \in [Fds -> Infs]
    BY <1>2, <2>1 DEF AddInf
  <2>3. stream' \in [Watched -> Units]
    BY <1>2, <2>1 DEF Record
  <2> QED
    BY <2>2, <2>3 DEF KernelType
<1>5. OwnOK'
  <2> SUFFICES ASSUME NEW a \in Co, NEW b \in Co, Owns(a)', Owns(b)', fd_'[a] = fd_'[b] PROVE a = b
    BY DEF OwnOK
  <2>1. CASE a = d
    BY <1>1, <1>3, <2>1
  <2>2. CASE b = d
    BY <1>1, <1>3, <2>2
  <2>3. CASE a # d /\ b # d
    BY <1>3, <2>3 DEF ConnInv, OwnOK
  <2> QED
    BY <2>1, <2>2, <2>3
<1>6. InfOK'
  <2>1. \A f \in Fds : HasInf(f)' <=> (HasInf(f) \/ f = fd)
    BY <1>2 DEF HasInf, AddInf, socket_inf
  <2> SUFFICES ASSUME NEW f \in Fds
               PROVE  /\ sock'[f].state # "free" <=> \E e \in Co : Owns(e)' /\ fd_'[e] = f
                      /\ HasInf(f)' <=> sock'[f].state # "free"
    BY DEF InfOK
  <2>2. CASE f = fd
    BY <1>3, <2>1, <2>2
  <2>3. CASE f # fd
    <3>1. /\ sock[f].state # "free" <=> \E e \in Co : Owns(e) /\ fd_[e] = f
          /\ HasInf(f) <=> sock[f].state # "free"
      BY DEF ConnInv, InfOK, Alive
    <3>2. (\E e \in Co : Owns(e) /\ fd_[e] = f) <=> \E e \in Co : Owns(e)' /\ fd_'[e] = f
      BY <1>3, <2>3
    <3> QED
      BY <2>1, <2>3, <3>1, <3>2
  <2> QED
    BY <2>2, <2>3
<1>7. OpenOK'
  <2> SUFFICES ASSUME NEW e \in Conns, Owns(e)' PROVE sock'[fd_'[e]].state = "open"
    BY DEF OpenOK
  <2>1. CASE e = d
    BY <1>3, <2>1
  <2>2. CASE e # d
    <3>1. e \in Co /\ Owns(e) /\ fd_'[e] = fd_[e]
      BY <1>3, <2>2 DEF Conns
    <3>2. fd_[e] \in Fds /\ sock[fd_[e]].state = "open"
      BY <3>1, OwnerFacts
    <3> QED
      BY <1>1, <3>1, <3>2
  <2> QED
    BY <2>1, <2>2
<1>8. NoCrash'
  BY DEF ConnInv, NoCrash
<1> QED
  BY <1>4, <1>5, <1>6, <1>7, <1>8

\* socket, with or without success.
LEMMA InitStep ==
  ASSUME ConnInv, init
  PROVE  ConnInv'
<1>1. PICK fd \in Fds \cup {NoFd} :
        /\ co_socket(Server, fd) /\ fd_' = [fd_ EXCEPT ![Server] = fd]
        /\ Goto(Server, IF fd = NoFd THEN "accept" ELSE "bind")
  BY DEF init
<1>2. place[Server] = "init" /\ UNCHANGED <<end_, statue>> /\ Alive /\ Running(Server) /\ call[Server] = NoCall
  BY <1>1 DEF init, co_socket, Free
<1>3. /\ Server \in Co /\ st[Server] = "run" /\ (\A d \in Conns : d \in Co /\ d # Server /\ st[d] # "run")
      /\ fd_[Server] = NoFd
  BY <1>2, ServerFacts DEF Conns, ServerAt
<1>4. fd_ \in [Co -> Fds \cup {NoFd}] /\ sock \in [Fds -> Sockets] /\ place \in [Co -> ConnPlaces \cup ServerPlaces]
  BY Typed
<1>5. CASE fd = NoFd
  <2>1. /\ errno' = "other" /\ Return(Server, "fail") /\ UNCHANGED <<kernel, g_socket_inf>>
        /\ UNCHANGED loop /\ UNCHANGED fate /\ place' = [place EXCEPT ![Server] = "accept"]
    BY <1>1, <1>5 DEF co_socket, Goto
  <2>2. UNCHANGED fd_
    BY <1>1, <1>3, <1>4, <1>5
  <2>3. SysEffect(Server) /\ call'[Server] = NoCall
    BY <1>2, <1>3, <2>1, FailEffect
  <2>4. "accept" \in ServerPlaces
    BY DEF ServerPlaces
  <2> QED
    BY <1>2, <2>1, <2>2, <2>3, <2>4, ServerMoves
<1>6. CASE fd # NoFd
  <2>1. /\ fd \in Fds /\ fd = NewFd /\ sock' = [sock EXCEPT ![fd] = NewSock("idle")] /\ Record(fd, NoUnit) /\ AddInf(fd)
        /\ Return(Server, "ok") /\ UNCHANGED errno /\ UNCHANGED loop /\ UNCHANGED fate
        /\ place' = [place EXCEPT ![Server] = "bind"]
    BY <1>1, <1>6 DEF co_socket, Open, Goto
  <2>2. NewSock("idle") \in Sockets /\ NewSock("idle").state = "idle"
    BY DEF NewSock, Sockets
  <2>3. /\ sock' \in [Fds -> Sockets] /\ sock'[fd].state # "free"
        /\ \A f \in Fds \ {fd} : sock'[f].state = sock[f].state
    BY <1>4, <2>1, <2>2
  <2>4. place'[Server] = "bind" /\ (\A d \in Co \ {Server} : place'[d] = place[d])
        /\ fd_'[Server] = fd /\ (\A d \in Co \ {Server} : fd_'[d] = fd_[d])
    BY <1>1, <1>3, <1>4, <2>1
  <2>5. ConnType'
    BY <1>1, <1>2, <1>3, <2>1, <2>4, Typed DEF ConnType, ServerPlaces
  <2>6. KernelType' /\ OwnOK' /\ InfOK' /\ OpenOK' /\ NoCrash'
    <3>1. Server \notin Conns
      BY DEF Conns
    <3>2. /\ place'[Server] \notin {"end", "ended"}
          /\ \A e \in Co \ {Server} : place'[e] \in {"end", "ended"} <=> place[e] \in {"end", "ended"}
      BY <2>4
    <3> QED
      BY <1>1, <1>2, <1>3, <2>1, <2>3, <3>1, <3>2, NewOwner
  <2>7. /\ LoopType' /\ call' \in [Co -> Calls] /\ res' \in [Co -> Results]
        /\ LoopMoves(Server) /\ call'[Server] = NoCall
    <3>1. "ok" \in Results
      BY DEF Results
    <3> QED
      BY <1>2, <1>3, <2>1, <3>1, ReturnEffect
  <2>8. CallType'
    BY <2>1, <2>7, Typed DEF CallType
  <2>9. ServerAt'
    <3>1. st'[Server] = "run"
      BY <2>7 DEF LoopMoves
    <3> QED
      BY <1>6, <2>4, <2>7, <3>1 DEF ServerAt
  <2>10. ASSUME NEW d \in Conns PROVE ConnAt(d)'
    BY <1>3, <2>4, <2>7, ConnHolds DEF LoopMoves
  <2> QED
    BY <1>2, <2>5, <2>6, <2>7, <2>8, <2>9, <2>10, ServerTurn
<1> QED
  BY <1>5, <1>6

\* co_accept up to its co_register.
LEMMA AcceptStep ==
  ASSUME ConnInv, runAccept
  PROVE  ConnInv'
<1>1. PICK fd : fd = fd_[Server]
  OBVIOUS
<1>2. /\ Alive /\ Running(Server) /\ co_register(Server, "accept", fd, 0, "forever")
      /\ UNCHANGED <<kernel, g_socket_inf>> /\ UNCHANGED <<errno, fate>> /\ UNCHANGED <<fd_, end_, statue>>
      /\ place' = [place EXCEPT ![Server] = "accepted"]
  BY <1>1 DEF runAccept, co_accept, Free, Goto
<1>3. Server \in Co /\ fd \in Fds \cup {NoFd}
  BY <1>1, Typed
<1>4. /\ LoopType' /\ call' \in [Co -> Calls] /\ res' \in [Co -> Results] /\ LoopMoves(Server)
      /\ \/ call'[Server] = NoCall /\ res'[Server] = "TIME_OUT" /\ "forever" = "big"
         \/ call'[Server] = [op |-> "accept", fd |-> fd, n |-> 0, kind |-> "forever"]
  <2>1. "accept" \in Ops \ {"none"} /\ 0 \in 0 .. Max({3, MsgLen}) /\ "forever" \in Kinds
    BY PlacesFit DEF Ops, Kinds
  <2> HIDE SysAssumption, ConnectionAssumption
  <2> QED
    BY <1>2, <1>3, <2>1, RegisterEffect
<1>5. SysEffect(Server)
  <2>1. KernelType' /\ SocketsStay
    BY <1>2, KernelStays
  <2>2. errno' \in {"EAGAIN", "EINTR", "other"} /\ fate' = "alive"
    BY <1>2, Typed DEF Alive
  <2> QED
    BY <1>4, <2>1, <2>2 DEF SysEffect, CallType
<1>6. call'[Server].op = "accept" /\ call'[Server].fd = fd_[Server] /\ call'[Server].kind # "ms"
  BY <1>1, <1>4
<1>7. "accepted" \in ServerPlaces
  BY DEF ServerPlaces
<1> QED
  BY <1>2, <1>5, <1>6, <1>7, ServerMoves

\* The server that has been woken has the descriptor it waited for.
LEMMA WokenFacts ==
  ASSUME ConnInv, Running(Server), place[Server] = "accepted"
  PROVE  call[Server].fd = fd_[Server] /\ fd_[Server] \in Fds /\ Owns(Server) /\ st[Server] = "run"
<1>1. ServerAt /\ st[Server] = "run"
  BY ServerFacts
<1>2. call[Server].fd = fd_[Server] /\ fd_[Server] # NoFd
  BY <1>1 DEF ServerAt
<1> QED
  BY <1>1, <1>2, Typed DEF Owns

\* accept behind co_register, with or without success.
LEMMA AcceptedStep ==
  ASSUME ConnInv, runAccepted
  PROVE  ConnInv'
<1>1. place[Server] = "accepted" /\ Alive /\ Running(Server)
  BY DEF runAccepted, accept, Woken
<1>2. Server \in Co /\ Server \notin Conns
  BY DEF Conns
<1>3. CASE accept(Server, NoFd) /\ Goto(Server, "accept") /\ UNCHANGED <<fd_, end_, statue>>
  <2>1. /\ errno' = "other" /\ Return(Server, "fail") /\ UNCHANGED <<kernel, g_socket_inf>>
        /\ UNCHANGED loop /\ UNCHANGED fate /\ place' = [place EXCEPT ![Server] = "accept"]
    BY <1>3 DEF accept, Goto
  <2>2. SysEffect(Server) /\ call'[Server] = NoCall
    BY <1>1, <1>2, <2>1, FailEffect
  <2>3. "accept" \in ServerPlaces
    BY DEF ServerPlaces
  <2> QED
    BY <1>1, <1>3, <2>1, <2>2, <2>3, ServerMoves
<1>4. ASSUME NEW fd \in Fds, NEW c \in Conns, place[c] = "none", accept(Server, fd), Construct(c, fd),
             place' = [place EXCEPT ![Server] = "resume", ![c] = "new"]
      PROVE  ConnInv'
  <2>1. PICK lfd : lfd = call[Server].fd
    OBVIOUS
  <2>2. fd_[Server] = lfd /\ lfd \in Fds /\ Owns(Server) /\ st[Server] = "run"
    BY <1>1, <2>1, WokenFacts
  <2>3. /\ fd = NewFd /\ sock' = [sock EXCEPT ![fd] = NewSock("open"), ![lfd].in = FALSE]
        /\ Record(fd, NoUnit) /\ AddInf(fd) /\ Return(Server, "ok") /\ UNCHANGED errno /\ UNCHANGED loop /\ UNCHANGED fate
    BY <1>4, <2>1 DEF accept
  <2>4. fd # lfd
    BY <1>1, <1>2, <2>2, <2>3, NewFdFacts
  <2>5. /\ fd_ \in [Co -> Fds \cup {NoFd}] /\ sock \in [Fds -> Sockets] /\ place \in [Co -> ConnPlaces \cup ServerPlaces]
        /\ end_ \in [Conns -> BOOLEAN] /\ statue \in [Conns -> Statues]
    BY Typed DEF ConnType
  <2>6. NewSock("open") \in Sockets /\ NewSock("open").state = "open"
    BY DEF NewSock, Sockets
  <2>7. /\ sock' \in [Fds -> Sockets] /\ sock'[fd].state = "open"
        /\ \A f \in Fds \ {fd} : sock'[f].state = sock[f].state
    <3>1. PICK ls, nls : ls = sock[lfd] /\ nls = [ls EXCEPT !.in = FALSE]
      OBVIOUS
    <3>2. ls \in Sockets
      BY <2>2, <2>5, <3>1
    <3>3. nls \in Sockets /\ nls.state = ls.state
      BY <3>1, <3>2 DEF Sockets
    <3>4. /\ DOMAIN sock' = Fds /\ sock'[fd] = NewSock("open") /\ sock'[lfd] = [sock[lfd] EXCEPT !.in = FALSE]
          /\ \A f \in Fds \ {fd, lfd} : sock'[f] = sock[f]
      BY <2>2, <2>3, <2>4, <2>5
    <3>5. sock'[lfd] = nls
      BY <3>1, <3>4
    <3>6. sock' = [f \in Fds |-> sock'[f]]
      BY <2>3, <2>5
    <3>7. \A f \in Fds : sock'[f] \in Sockets /\ (f # fd => sock'[f].state = sock[f].state)
      BY <2>2, <2>5, <2>6, <3>1, <3>3, <3>4, <3>5
    <3> QED
      BY <2>6, <3>4, <3>6, <3>7
  <2>8. c \in Co /\ c # Server /\ fd_[c] = NoFd /\ st[c] \in {"new", "freed"} /\ call[c] = NoCall
    <3>1. ConnAt(c)
      BY DEF ConnInv, WhereOK
    <3> QED
      BY <1>4, <3>1 DEF ConnAt, Conns
  <2>9. /\ place'[Server] = "resume" /\ place'[c] = "new" /\ \A d \in Co \ {Server, c} : place'[d] = place[d]
    BY <1>2, <1>4, <2>5, <2>8
  <2>10. fd_' = [fd_ EXCEPT ![c] = fd] /\ fd_'[c] = fd /\ \A d \in Co \ {c} : fd_'[d] = fd_[d]
    BY <1>4, <2>5, <2>8 DEF Construct
  <2>11. ConnType'
    <3>1. place' \in [Co -> ConnPlaces \cup ServerPlaces]
      BY <1>4, <2>5 DEF ConnPlaces, ServerPlaces
    <3>2. end_' \in [Conns -> BOOLEAN]
      BY <1>4, <2>5 DEF Construct
    <3>3. statue' \in [Conns -> Statues]
      BY <1>4, <2>5 DEF Construct, Statues
    <3>4. fd_' \in [Co -> Fds \cup {NoFd}]
      BY <2>5, <2>10
    <3> QED
      BY <3>1, <3>2, <3>3, <3>4 DEF ConnType
  <2>12. KernelType' /\ OwnOK' /\ InfOK' /\ OpenOK' /\ NoCrash'
    <3>1. place[Server] \notin {"end", "ended"}
      BY <1>1
    <3>2. /\ place'[c] \notin {"end", "ended"}
          /\ \A e \in Co \ {c} : place'[e] \in {"end", "ended"} <=> place[e] \in {"end", "ended"}
      BY <2>9, <3>1
    <3>3. sock'[fd].state # "free" /\ (c \in Conns => sock'[fd].state = "open")
      BY <2>7
    <3> QED
      BY <1>1, <2>3, <2>7, <2>8, <2>10, <3>2, <3>3, NewOwner
  <2>13. /\ LoopType' /\ call' \in [Co -> Calls] /\ res' \in [Co -> Results]
         /\ LoopMoves(Server) /\ call'[Server] = NoCall
    <3>1. "ok" \in Results
      BY DEF Results
    <3> QED
      BY <1>1, <1>2, <2>3, <3>1, ReturnEffect
  <2>14. CallType'
    BY <2>3, <2>13, Typed DEF CallType
  <2>15. ServerAt'
    <3>1. st'[Server] = "run" /\ fd_'[Server] # NoFd
      BY <1>2, <2>2, <2>8, <2>10, <2>13 DEF LoopMoves
    <3> QED
      BY <2>9, <2>13, <3>1 DEF ServerAt
  <2>16. ASSUME NEW d \in Conns PROVE ConnAt(d)'
    <3>1. d \in Co /\ d # Server /\ st'[d] = st[d] /\ call'[d] = call[d] /\ st[d] # "run"
      BY <1>1, <2>13, ServerFacts DEF LoopMoves, Conns
    <3>2. CASE d = c
      BY <2>8, <2>9, <2>10, <3>1, <3>2 DEF ConnAt
    <3>3. CASE d # c
      BY <2>9, <2>10, <3>1, <3>3, ConnHolds
    <3> QED
      BY <3>2, <3>3
  <2> QED
    BY <1>1, <2>11, <2>12, <2>13, <2>14, <2>15, <2>16, ServerTurn
<1> QED
  BY <1>3, <1>4 DEF runAccepted

\* bind and listen, or the end of the process.
LEMMA BindStep ==
  ASSUME ConnInv, bind
  PROVE  ConnInv'
<1>1. /\ place[Server] = "bind" /\ Alive /\ Running(Server) /\ call[Server] = NoCall
      /\ UNCHANGED <<errno, call, res, fd_, end_, statue>>
  BY DEF bind, Free
<1>2. /\ Server \in Co /\ st[Server] = "run" /\ (\A d \in Conns : d \in Co /\ d # Server /\ st[d] # "run")
      /\ fd_[Server] # NoFd
  BY <1>1, ServerFacts DEF Conns, ServerAt
<1>3. PICK fd : fd = fd_[Server]
  OBVIOUS
<1>4. Owns(Server) /\ fd \in Fds /\ HasInf(fd) /\ sock[fd].state # "free"
  <2>1. Owns(Server)
    BY <1>1, <1>2 DEF Owns
  <2>2. fd \in Fds
    BY <1>1, <1>2, <1>3, <2>1, OwnerFacts
  <2> QED
    BY <1>1, <1>2, <1>3, <2>1, <2>2 DEF ConnInv, InfOK, Alive
<1>5. \A d \in Conns : Owns(d) => fd_[d] \in Fds \ {fd} /\ sock[fd_[d]].state = "open"
  BY <1>1, <1>2, <1>3, <1>4, OwnerFacts DEF ConnInv, OwnOK
<1>6. /\ fd_ \in [Co -> Fds \cup {NoFd}] /\ sock \in [Fds -> Sockets] /\ place \in [Co -> ConnPlaces \cup ServerPlaces]
      /\ g_socket_inf \in [Fds -> Infs] /\ stream \in [Watched -> Units]
  BY Typed
<1>7. \/ /\ sock' = [sock EXCEPT ![fd].state = "listen"] /\ place' = [place EXCEPT ![Server] = "accept"]
         /\ UNCHANGED loop /\ UNCHANGED <<stream, g_socket_inf, fate>>
      \/ /\ CloseSocket(fd) /\ Closed(fd) /\ fate' = "aborted" /\ UNCHANGED place
  BY <1>3 DEF bind, Goto
<1>8. /\ UNCHANGED <<item_map, st, stack, rfd, timer, is_timeout, active, destroy_co>>
      /\ (UNCHANGED interest \/ interest' = [interest EXCEPT ![fd] = NoCo])
  BY <1>7 DEF loop, Closed, EpollClosed
<1>9. LoopType' /\ LoopMoves(Server)
  <2>1. LoopType
    BY Typed
  <2> QED
    BY <1>1, <1>2, <1>8, <2>1 DEF LoopType, LoopMoves
<1>10. CallType'
  BY <1>1, <1>7, Typed DEF CallType
<1>11. /\ place' \in [Co -> ConnPlaces \cup ServerPlaces] /\ place'[Server] \in {"accept", "bind"}
       /\ \A d \in Co \ {Server} : place'[d] = place[d]
  BY <1>1, <1>2, <1>6, <1>7 DEF ServerPlaces
<1>12. ConnType'
  BY <1>1, <1>11, Typed DEF ConnType
<1>13. ServerAt'
  <2>1. st'[Server] = "run" /\ call'[Server] = NoCall /\ fd_'[Server] # NoFd
    BY <1>1, <1>2, <1>8
  <2> QED
    BY <1>11, <2>1 DEF ServerAt
<1>14. ASSUME NEW d \in Conns PROVE ConnAt(d)'
  BY <1>1, <1>2, <1>8, <1>11, ConnHolds
<1>15. \A d \in Co : Owns(d)' <=> Owns(d)
  <2> TAKE d \in Co
  <2>1. CASE d = Server
    BY <1>1, <1>11, <2>1 DEF Owns
  <2>2. CASE d # Server
    BY <1>1, <1>11, <2>2 DEF Owns
  <2> QED
    BY <2>1, <2>2
<1>16. OwnOK'
  BY <1>1, <1>15 DEF ConnInv, OwnOK
<1>17. CASE /\ sock' = [sock EXCEPT ![fd].state = "listen"]
            /\ UNCHANGED <<stream, g_socket_inf, fate>>
  <2>1. /\ sock' \in [Fds -> Sockets] /\ sock'[fd].state = "listen"
        /\ \A f \in Fds \ {fd} : sock'[f].state = sock[f].state
    <3>1. [sock[fd] EXCEPT !.state = "listen"] \in Sockets /\ [sock[fd] EXCEPT !.state = "listen"].state = "listen"
      BY <1>4, <1>6 DEF Sockets
    <3>2. sock' = [sock EXCEPT ![fd] = [sock[fd] EXCEPT !.state = "listen"]]
      BY <1>4, <1>6, <1>17
    <3> QED
      BY <1>4, <1>6, <3>1, <3>2
  <2>2. KernelType'
    BY <1>6, <1>17, <2>1 DEF KernelType
  <2>3. InfOK'
    <3>1. \A f \in Fds : (HasInf(f)' <=> HasInf(f)) /\ (sock'[f].state # "free" <=> sock[f].state # "free")
      BY <1>4, <1>17, <2>1 DEF HasInf
    <3> QED
      BY <1>1, <1>15, <1>17, <3>1 DEF ConnInv, InfOK
  <2>4. OpenOK' /\ NoCrash'
    BY <1>1, <1>2, <1>5, <1>15, <1>17, <2>1 DEF OpenOK, NoCrash, ConnInv
  <2> QED
    BY <1>1, <1>9, <1>10, <1>12, <1>13, <1>14, <1>16, <2>2, <2>3, <2>4, ServerTurn
<1>18. CASE CloseSocket(fd) /\ fate' = "aborted"
  <2>1. /\ sock' \in [Fds -> Sockets] /\ \A f \in Fds \ {fd} : sock'[f].state = sock[f].state
    BY <1>4, <1>6, <1>18 DEF CloseSocket, FreeSock, Sockets
  <2>2. g_socket_inf' \in [Fds -> Infs]
    <3>1. NoInf \in Infs /\ NullInf \in Infs
      BY DEF NoInf, NullInf, socket_inf, Infs, Kinds
    <3> QED
      BY <1>6, <1>18, <3>1 DEF CloseSocket
  <2>3. stream' \in [Watched -> Units]
    BY <1>6, <1>18 DEF CloseSocket, Record, NoUnit, Units
  <2>4. KernelType' /\ InfOK' /\ NoCrash'
    BY <1>18, <2>1, <2>2, <2>3 DEF KernelType, InfOK, NoCrash
  <2>5. OpenOK'
    BY <1>1, <1>2, <1>5, <1>15, <2>1 DEF OpenOK
  <2> QED
    BY <1>1, <1>9, <1>10, <1>12, <1>13, <1>14, <1>16, <2>4, <2>5, ServerTurn
<1> QED
  BY <1>7, <1>17, <1>18

-----------------------------------------------------------------------------
(***************************************************************************)
(* Coroutines that start, end and are deleted.                             *)
(***************************************************************************)

\* A step that leaves the kernel, the descriptors' owners and their callers alone.
LEMMA OwnersStay ==
  ASSUME ConnInv, UNCHANGED <<kernel, calls, fate>>, UNCHANGED fd_, \A d \in Co : Owns(d)' <=> Owns(d)
  PROVE  KernelType' /\ CallType' /\ OwnOK' /\ InfOK' /\ OpenOK' /\ NoCrash'
<1>1. UNCHANGED <<sock, stream, g_socket_inf, errno, call, res, fate>>
  BY DEF kernel, calls
<1>2. KernelType' /\ CallType'
  BY <1>1, Typed DEF KernelType, CallType
<1>3. OwnOK'
  BY DEF ConnInv, OwnOK
<1>4. InfOK'
  BY <1>1 DEF ConnInv, InfOK, HasInf
<1>5. OpenOK'
  BY <1>1 DEF ConnInv, OpenOK, Conns
<1> QED
  BY <1>1, <1>2, <1>3, <1>4, <1>5 DEF ConnInv, NoCrash

\* Nobody runs: nobody is about to be told why a connection ended.
LEMMA IdleFacts ==
  ASSUME ConnInv, stack = <<>>
  PROVE  \A d \in Co : st[d] # "run" /\ place[d] # "disc"
<1>1. \A d \in Co : st[d] # "run"
  <2>1. Range(<<>>) = {} /\ Server \in Co
    BY DEF Range
  <2> QED
    BY <2>1 DEF ConnInv, StackOK
<1>2. place[Server] # "disc" /\ \A d \in Conns : place[d] # "disc"
  BY <1>1 DEF ConnInv, WhereOK, ServerAt, ConnAt, Conns
<1> QED
  BY <1>1, <1>2 DEF Conns

\* server::start.
LEMMA StartStep ==
  ASSUME ConnInv, start
  PROVE  ConnInv'
<1>1. /\ place[Server] = "start" /\ Start(Server) /\ place' = [place EXCEPT ![Server] = "init"]
      /\ UNCHANGED <<kernel, calls, fate>> /\ UNCHANGED fd_ /\ UNCHANGED <<end_, statue>>
  BY DEF start, Goto
<1>2. /\ st' = [st EXCEPT ![Server] = "run"] /\ stack' = <<Server>> \o stack
      /\ UNCHANGED <<item_map, interest, rfd, timer, is_timeout, active, destroy_co>>
  BY <1>1 DEF Start
<1>3. Server \in Co /\ Server \notin Conns /\ LoopType /\ ConnType
  BY Typed DEF Conns
<1>4. /\ st[Server] = "new" /\ call[Server] = NoCall /\ fd_[Server] = NoFd
      /\ \A d \in Conns : place[d] = "none" /\ st[d] \in {"new", "freed"}
  BY <1>1 DEF ConnInv, WhereOK, ServerAt, ConnAt
<1>5. stack = <<>>
  <2>1. \A d \in Co : st[d] # "run"
    BY <1>4 DEF Conns
  <2>2. \A d \in Co : d \in Range(<<d>>) /\ d \in Range(<<d, Server>>)
    BY StackFacts
  <2> QED
    BY <2>1, <2>2 DEF ConnInv, StackOK, Conns
<1>6. stack' = <<Server>> /\ Range(stack') = {Server} /\ stack' \in Seq(Co)
  <2>1. Range(<<Server>>) = {Server} /\ <<Server>> \in Seq(Co)
    BY <1>3, StackFacts
  <2>2. <<Server>> \o <<>> = <<Server>>
    BY <2>1
  <2> QED
    BY <1>2, <1>5, <2>1, <2>2
<1>7. /\ st' \in [Co -> States] /\ st'[Server] = "run" /\ \A d \in Co \ {Server} : st'[d] = st[d]
  BY <1>2, <1>3 DEF LoopType, States
<1>8. /\ place' \in [Co -> ConnPlaces \cup ServerPlaces] /\ place'[Server] = "init"
      /\ \A d \in Co \ {Server} : place'[d] = place[d]
  BY <1>1, <1>3 DEF ConnType, ServerPlaces
<1>9. LoopType' /\ ConnType'
  BY <1>1, <1>2, <1>3, <1>6, <1>7, <1>8 DEF LoopType, ConnType
<1>10. KernelType' /\ CallType' /\ OwnOK' /\ InfOK' /\ OpenOK' /\ NoCrash'
  <2>1. ASSUME NEW d \in Co PROVE Owns(d)' <=> Owns(d)
    BY <1>1, <1>8 DEF Owns
  <2> QED
    BY <1>1, <2>1, OwnersStay
<1>11. TypeOK'
  BY <1>9, <1>10, TypePartsNext
<1>12. UNCHANGED call
  BY <1>1 DEF calls
<1>13. StackOK'
  BY <1>3, <1>4, <1>6, <1>7 DEF StackOK, Conns
<1>14. WhereOK'
  <2>1. ServerAt'
    BY <1>1, <1>4, <1>7, <1>8, <1>12 DEF ServerAt
  <2>2. ASSUME NEW d \in Conns PROVE ConnAt(d)'
    BY <1>1, <1>3, <1>4, <1>7, <1>8, <1>12, ConnHolds DEF Conns
  <2> QED
    BY <2>1, <2>2 DEF WhereOK
<1>15. ActiveOK'
  <2>1. \A d \in Range(active) : d \in Co /\ d # Server
    BY <1>3, <1>4 DEF ConnInv, ActiveOK, LoopType, Range
  <2> QED
    BY <1>2, <1>7, <2>1 DEF ConnInv, ActiveOK
<1>16. DestroyOK'
  BY <1>2, <1>4, <1>7 DEF ConnInv, DestroyOK
<1>17. StatusTrue'
  BY <1>3, <1>4, <1>8 DEF StatusTrue, Conns
<1> QED
  BY <1>10, <1>11, <1>13, <1>14, <1>15, <1>16, <1>17 DEF ConnInv

\* The server resumes the coroutine of a new connection, on top of itself.
LEMMA ResumeStep ==
  ASSUME ConnInv, NEW c \in Conns, runResume(c)
  PROVE  ConnInv'
<1>1. /\ place[Server] = "resume" /\ Running(Server) /\ call[Server] = NoCall /\ place[c] = "new" /\ Start(c)
      /\ place' = [place EXCEPT ![Server] = "accept", ![c] = "run"]
      /\ UNCHANGED <<kernel, calls, fate>> /\ UNCHANGED fd_ /\ UNCHANGED <<end_, statue>>
  BY DEF runResume, Free
<1>2. /\ st' = [st EXCEPT ![c] = "run"] /\ stack' = <<c>> \o stack
      /\ UNCHANGED <<item_map, interest, rfd, timer, is_timeout, active, destroy_co>>
  BY <1>1 DEF Start
<1>3. Server \in Co /\ c \in Co /\ c # Server /\ LoopType /\ ConnType
  BY Typed DEF Conns
<1>4. /\ stack = <<Server>> /\ st[Server] = "run" /\ (\A d \in Conns : st[d] # "run")
  BY <1>1, ServerFacts
<1>5. st[c] \in {"new", "freed"} /\ call[c] = NoCall /\ fd_[c] # NoFd
  BY <1>1 DEF ConnInv, WhereOK, ConnAt
<1>6. stack' = <<c, Server>> /\ Range(stack') = {c, Server} /\ stack' \in Seq(Co)
  <2>1. Range(<<c, Server>>) = {c, Server} /\ <<c, Server>> \in Seq(Co)
    BY <1>3, StackFacts
  <2>2. <<c>> \o <<Server>> = <<c, Server>>
    BY <1>3, PairList
  <2> QED
    BY <1>2, <1>4, <2>1, <2>2
<1>7. /\ st' \in [Co -> States] /\ st'[c] = "run" /\ \A d \in Co \ {c} : st'[d] = st[d]
  BY <1>2, <1>3 DEF LoopType, States
<1>8. /\ place'[Server] = "accept" /\ place'[c] = "run" /\ \A d \in Co \ {Server, c} : place'[d] = place[d]
  BY <1>1, <1>3 DEF ConnType
<1>9. LoopType' /\ ConnType'
  <2>1. place' \in [Co -> ConnPlaces \cup ServerPlaces]
    BY <1>1, <1>3 DEF ConnType, ServerPlaces, ConnPlaces
  <2> QED
    BY <1>1, <1>2, <1>3, <1>6, <1>7, <2>1 DEF LoopType, ConnType
<1>10. KernelType' /\ CallType' /\ OwnOK' /\ InfOK' /\ OpenOK' /\ NoCrash'
  <2>1. ASSUME NEW d \in Co PROVE Owns(d)' <=> Owns(d)
    BY <1>1, <1>8 DEF Owns
  <2> QED
    BY <1>1, <2>1, OwnersStay
<1>11. TypeOK'
  BY <1>9, <1>10, TypePartsNext
<1>12. UNCHANGED call
  BY <1>1 DEF calls
<1>13. StackOK'
  <2>1. \A d \in Co : st'[d] = "run" <=> d \in Range(stack')
    BY <1>3, <1>4, <1>6, <1>7 DEF Conns
  <2> QED
    BY <1>6, <1>8, <2>1 DEF StackOK
<1>14. WhereOK'
  <2>1. ServerAt'
    BY <1>1, <1>3, <1>4, <1>7, <1>8, <1>12 DEF ServerAt
  <2>2. ASSUME NEW d \in Conns PROVE ConnAt(d)'
    <3>1. CASE d = c
      BY <1>1, <1>5, <1>7, <1>8, <1>12, <3>1 DEF ConnAt
    <3>2. CASE d # c
      BY <1>1, <1>4, <1>7, <1>8, <1>12, <3>2, ConnHolds DEF Conns
    <3> QED
      BY <3>1, <3>2
  <2> QED
    BY <2>1, <2>2 DEF WhereOK
<1>15. ActiveOK'
  <2>1. \A d \in Range(active) : d \in Co /\ d # c
    BY <1>3, <1>5 DEF ConnInv, ActiveOK, LoopType, Range
  <2> QED
    BY <1>2, <1>7, <2>1 DEF ConnInv, ActiveOK
<1>16. DestroyOK'
  BY <1>2, <1>5, <1>7 DEF ConnInv, DestroyOK
<1>17. StatusTrue'
  <2> SUFFICES ASSUME NEW d \in Conns, place'[d] = "disc" PROVE FALSE
    BY DEF StatusTrue
  <2>1. d # c /\ d # Server /\ d \in Co
    BY <1>8 DEF Conns
  <2>2. place[d] = "disc" /\ st[d] # "run" /\ ConnAt(d)
    BY <1>4, <1>8, <2>1 DEF ConnInv, WhereOK
  <2> QED
    BY <2>2 DEF ConnAt
<1> QED
  BY <1>10, <1>11, <1>13, <1>14, <1>15, <1>16, <1>17 DEF ConnInv

\* The coroutine of a connection that is over ends, and its resumer goes on.
LEMMA ReturnStep ==
  ASSUME ConnInv, NEW c \in Conns, funcReturns(c)
  PROVE  ConnInv'
<1>1. /\ place[c] = "end" /\ Finish(c) /\ place' = [place EXCEPT ![c] = "ended"]
      /\ UNCHANGED <<kernel, calls, fate>> /\ UNCHANGED fd_ /\ UNCHANGED <<end_, statue>>
  BY DEF funcReturns, Goto
<1>2. /\ Running(c) /\ st' = [st EXCEPT ![c] = "ended"] /\ stack' = Tail(stack) /\ destroy_co' = Append(destroy_co, c)
      /\ UNCHANGED <<item_map, interest, rfd, timer, is_timeout, active>>
  BY <1>1 DEF Finish, Resumer
<1>3. Server \in Co /\ c \in Co /\ c # Server /\ LoopType /\ ConnType
  BY Typed DEF Conns
<1>4. \A d \in Conns \ {c} : st[d] # "run"
  BY <1>2, <1>3, RunFacts
<1>5. call[c] = NoCall /\ fd_[c] # NoFd
  BY <1>1 DEF ConnInv, WhereOK, ConnAt
<1>6. /\ st[c] = "run" /\ (stack = <<c>> \/ stack = <<c, Server>>)
      /\ \A d \in Co : st[d] = "run" <=> d \in Range(stack)
  BY <1>2, <1>3, RunFacts DEF ConnInv, StackOK
<1>7. \/ stack' = <<>> /\ Range(stack') = {} /\ Range(stack) = {c}
      \/ stack' = <<Server>> /\ Range(stack') = {Server} /\ Range(stack) = {c, Server}
  <2>1. /\ Range(<<c>>) = {c} /\ Tail(<<c>>) = <<>> /\ Range(<<c, Server>>) = {c, Server}
        /\ Tail(<<c, Server>>) = <<Server>> /\ Range(<<Server>>) = {Server} /\ Range(<<>>) = {}
    BY <1>3, StackFacts
  <2> QED
    BY <1>2, <1>6, <2>1
<1>8. stack' \in Seq(Co)
  <2>1. <<Server>> \in Seq(Co) /\ <<>> \in Seq(Co)
    BY <1>3
  <2> QED
    BY <1>7, <2>1
<1>9. /\ st' \in [Co -> States] /\ st'[c] = "ended" /\ \A d \in Co \ {c} : st'[d] = st[d]
  BY <1>2, <1>3 DEF LoopType, States
<1>10. /\ place' \in [Co -> ConnPlaces \cup ServerPlaces] /\ place'[c] = "ended"
       /\ \A d \in Co \ {c} : place'[d] = place[d]
  BY <1>1, <1>3 DEF ConnType, ConnPlaces
<1>11. destroy_co' \in Seq(Co) /\ Range(destroy_co') = Range(destroy_co) \cup {c}
  <2>1. destroy_co \in Seq(Co)
    BY Typed
  <2> QED
    BY <1>2, <1>3, <2>1, AppendList
<1>12. LoopType' /\ ConnType'
  BY <1>1, <1>2, <1>3, <1>8, <1>9, <1>10, <1>11 DEF LoopType, ConnType
<1>13. KernelType' /\ CallType' /\ OwnOK' /\ InfOK' /\ OpenOK' /\ NoCrash'
  <2>1. ASSUME NEW d \in Co PROVE Owns(d)' <=> Owns(d)
    BY <1>1, <1>10 DEF Owns
  <2> QED
    BY <1>1, <2>1, OwnersStay
<1>14. TypeOK'
  BY <1>12, <1>13, TypePartsNext
<1>15. UNCHANGED call
  BY <1>1 DEF calls
<1>16. StackOK'
  <2>1. \A d \in Co : st'[d] = "run" <=> d \in Range(stack')
    BY <1>3, <1>6, <1>7, <1>9
  <2> QED
    BY <1>3, <1>7, <2>1 DEF StackOK
<1>17. WhereOK'
  <2>1. ServerAt'
    <3>1. place[Server] # "start"
      BY <1>1 DEF ConnInv, WhereOK, ServerAt
    <3>2. ServerAt
      BY DEF ConnInv, WhereOK
    <3>3. /\ place'[Server] = place[Server] /\ st'[Server] = st[Server]
          /\ UNCHANGED <<call, timer, rfd, fd_>>
      BY <1>1, <1>2, <1>3, <1>9, <1>10, <1>15
    <3> QED
      BY <3>1, <3>2, <3>3 DEF ServerAt
  <2>2. ASSUME NEW d \in Conns PROVE ConnAt(d)'
    <3>1. CASE d = c
      BY <1>1, <1>5, <1>9, <1>10, <1>15, <3>1 DEF ConnAt
    <3>2. CASE d # c
      BY <1>1, <1>4, <1>9, <1>10, <1>15, <3>2, ConnHolds DEF Conns
    <3> QED
      BY <3>1, <3>2
  <2> QED
    BY <2>1, <2>2 DEF WhereOK
<1>18. ActiveOK'
  <2>1. \A d \in Range(active) : d \in Co /\ d # c
    BY <1>3, <1>6 DEF ConnInv, ActiveOK, LoopType, Range
  <2> QED
    BY <1>2, <1>9, <2>1 DEF ConnInv, ActiveOK
<1>19. DestroyOK'
  BY <1>9, <1>11 DEF ConnInv, DestroyOK
<1>20. StatusTrue'
  <2> SUFFICES ASSUME NEW d \in Conns, place'[d] = "disc" PROVE FALSE
    BY DEF StatusTrue
  <2>1. d # c /\ d \in Co
    BY <1>10 DEF Conns
  <2>2. place[d] = "disc" /\ st[d] # "run" /\ ConnAt(d)
    BY <1>4, <1>10, <2>1 DEF ConnInv, WhereOK
  <2> QED
    BY <2>2 DEF ConnAt
<1> QED
  BY <1>13, <1>14, <1>16, <1>17, <1>18, <1>19, <1>20 DEF ConnInv

\* co_close of a connection's own descriptor, which it no longer owns then.
LEMMA CloseStep ==
  ASSUME ConnInv, NEW c \in Conns, runCloses(c)
  PROVE  ConnInv'
<1>1. PICK fd : fd = fd_[c]
  OBVIOUS
<1>2. /\ Free(c) /\ place[c] = "close" /\ CloseSocket(fd) /\ Closed(fd) /\ Return(c, "ok") /\ UNCHANGED <<errno, fate>>
      /\ statue' = [statue EXCEPT ![c] = "disconnected"] /\ end_' = [end_ EXCEPT ![c] = TRUE]
      /\ place' = [place EXCEPT ![c] = "end"] /\ UNCHANGED fd_
  BY <1>1 DEF runCloses, co_close, Goto
<1>3. Server \in Co /\ c \in Co /\ c # Server /\ KernelType /\ CallType /\ LoopType /\ ConnType
  BY Typed DEF Conns
<1>4. Alive /\ Running(c) /\ st[c] = "run" /\ Owns(c) /\ fd_[c] # NoFd
  BY <1>2, FreeFacts
<1>5. fd \in Fds /\ HasInf(fd)
  BY <1>1, <1>3, <1>4, OwnerFacts
<1>6. \A d \in Conns \ {c} : st[d] # "run"
  BY <1>3, <1>4, RunFacts
<1>7. /\ UNCHANGED <<item_map, st, stack, rfd, timer, is_timeout, active, destroy_co>>
      /\ interest' = [interest EXCEPT ![fd] = NoCo]
  BY <1>2 DEF Closed, EpollClosed
<1>8. LoopType'
  BY <1>3, <1>7 DEF LoopType
<1>9. /\ sock' = [sock EXCEPT ![fd] = FreeSock] /\ Record(fd, NoUnit) /\ g_socket_inf' = [g_socket_inf EXCEPT ![fd] = NoInf]
  BY <1>2, <1>5 DEF CloseSocket
<1>10. KernelType'
  <2>1. FreeSock \in Sockets /\ NoInf \in Infs /\ NoUnit \in Units
    BY DEF FreeSock, Sockets, NoInf, socket_inf, Infs, Kinds, NoUnit, Units
  <2> QED
    BY <1>3, <1>9, <2>1 DEF KernelType, Record
<1>11. /\ sock'[fd].state = "free" /\ \A f \in Fds \ {fd} : sock'[f] = sock[f] /\ g_socket_inf'[f] = g_socket_inf[f]
       /\ ~HasInf(fd)'
  BY <1>3, <1>5, <1>9 DEF KernelType, FreeSock, NoInf, socket_inf, HasInf
<1>12. /\ call' \in [Co -> Calls] /\ res' \in [Co -> Results] /\ call'[c] = NoCall
       /\ \A d \in Co \ {c} : call'[d] = call[d]
  BY <1>2, <1>3, NoCallType DEF Return, CallType, Results
<1>13. CallType'
  BY <1>2, <1>3, <1>12 DEF CallType
<1>14. /\ place' \in [Co -> ConnPlaces \cup ServerPlaces] /\ place'[c] = "end"
       /\ \A d \in Co \ {c} : place'[d] = place[d]
  BY <1>2, <1>3 DEF ConnType, ConnPlaces
<1>15. ConnType'
  <2>1. statue' \in [Conns -> Statues]
    BY <1>2, <1>3 DEF ConnType, Statues
  <2>2. end_' \in [Conns -> BOOLEAN]
    BY <1>2, <1>3 DEF ConnType
  <2> QED
    BY <1>2, <1>3, <1>14, <2>1, <2>2 DEF ConnType
<1>16. TypeOK'
  BY <1>8, <1>10, <1>13, <1>15, TypePartsNext
<1>17. StackOK'
  BY <1>3, <1>7, <1>14 DEF ConnInv, StackOK
<1>18. WhereOK'
  <2>1. ServerAt'
    <3>1. place[Server] # "start"
      BY <1>2 DEF ConnInv, WhereOK, ServerAt
    <3>2. ServerAt
      BY DEF ConnInv, WhereOK
    <3>3. /\ place'[Server] = place[Server] /\ call'[Server] = call[Server]
          /\ UNCHANGED <<st, timer, rfd, fd_>>
      BY <1>2, <1>3, <1>7, <1>12, <1>14
    <3> QED
      BY <3>1, <3>2, <3>3 DEF ServerAt
  <2>2. ASSUME NEW d \in Conns PROVE ConnAt(d)'
    <3>1. CASE d = c
      BY <1>2, <1>4, <1>7, <1>12, <1>14, <3>1 DEF ConnAt
    <3>2. CASE d # c
      BY <1>2, <1>6, <1>7, <1>12, <1>14, <3>2, ConnHolds DEF Conns
    <3> QED
      BY <3>1, <3>2
  <2> QED
    BY <2>1, <2>2 DEF WhereOK
<1>19. ActiveOK' /\ DestroyOK'
  BY <1>7 DEF ConnInv, ActiveOK, DestroyOK
<1>20. ~Owns(c)' /\ \A d \in Co \ {c} : (Owns(d)' <=> Owns(d)) /\ (Owns(d) => fd_[d] # fd)
  <2>1. ~Owns(c)'
    BY <1>14 DEF Owns
  <2>2. ASSUME NEW d \in Co \ {c} PROVE (Owns(d)' <=> Owns(d)) /\ (Owns(d) => fd_[d] # fd)
    BY <1>1, <1>2, <1>3, <1>4, <1>14 DEF Owns, ConnInv, OwnOK
  <2> QED
    BY <2>1, <2>2
<1>21. OwnOK'
  BY <1>2, <1>20 DEF ConnInv, OwnOK
<1>22. InfOK'
  <2> SUFFICES ASSUME NEW f \in Fds
               PROVE  /\ sock'[f].state # "free" <=> \E e \in Co : Owns(e)' /\ fd_[e] = f
                      /\ HasInf(f)' <=> sock'[f].state # "free"
    BY <1>2 DEF InfOK
  <2>1. CASE f = fd
    BY <1>11, <1>20, <2>1
  <2>2. CASE f # fd
    <3>1. /\ sock[f].state # "free" <=> \E e \in Co : Owns(e) /\ fd_[e] = f
          /\ HasInf(f) <=> sock[f].state # "free"
      BY <1>4 DEF ConnInv, InfOK, Alive
    <3>2. (\E e \in Co : Owns(e) /\ fd_[e] = f) <=> \E e \in Co : Owns(e)' /\ fd_[e] = f
      BY <1>1, <1>20, <2>2
    <3> QED
      BY <1>11, <2>2, <3>1, <3>2 DEF HasInf
  <2> QED
    BY <2>1, <2>2
<1>23. OpenOK'
  <2> SUFFICES ASSUME NEW d \in Conns, Owns(d)' PROVE sock'[fd_[d]].state = "open"
    BY <1>2 DEF OpenOK
  <2>1. d \in Co \ {c} /\ Owns(d) /\ fd_[d] # fd
    BY <1>20 DEF Conns
  <2>2. fd_[d] \in Fds /\ sock[fd_[d]].state = "open"
    BY <1>4, <2>1, OwnerFacts
  <2> QED
    BY <1>11, <2>1, <2>2
<1>24. NoCrash'
  BY <1>2 DEF ConnInv, NoCrash
<1>25. StatusTrue'
  <2> SUFFICES ASSUME NEW d \in Conns, place'[d] = "disc" PROVE FALSE
    BY DEF StatusTrue
  <2>1. d # c /\ d \in Co
    BY <1>14 DEF Conns
  <2>2. place[d] = "disc" /\ st[d] # "run" /\ ConnAt(d)
    BY <1>6, <1>14, <2>1 DEF ConnInv, WhereOK
  <2> QED
    BY <2>2 DEF ConnAt
<1> QED
  BY <1>16, <1>17, <1>18, <1>19, <1>21, <1>22, <1>23, <1>24, <1>25 DEF ConnInv

\* clear_co: the connections of the coroutines that have ended are deleted.
LEMMA ClearStep ==
  ASSUME ConnInv, Clear
  PROVE  ConnInv'
<1>1. PICK D : D = Range(destroy_co)
  OBVIOUS
<1>2. /\ stack = <<>> /\ active = <<>> /\ destroy_co' = <<>>
      /\ UNCHANGED <<item_map, interest, stack, rfd, timer, is_timeout, active>>
      /\ st' = [d \in Co |-> IF d \in D THEN "freed" ELSE st[d]]
      /\ place' = [d \in Co |-> IF d \in D THEN "none" ELSE place[d]]
      /\ fd_' = [d \in Co |-> IF d \in D THEN NoFd ELSE fd_[d]]
      /\ end_' = [d \in Conns |-> IF d \in D THEN FALSE ELSE end_[d]]
      /\ UNCHANGED <<sock, stream, g_socket_inf, errno, call, res, fate, statue>>
  BY <1>1 DEF Clear, clear_co, kernel, calls
<1>3. Server \in Co /\ KernelType /\ CallType /\ LoopType /\ ConnType
  BY Typed
<1>4. \A d \in Co : d \in D <=> st[d] = "ended"
  BY <1>1 DEF ConnInv, DestroyOK
<1>5. st[Server] # "ended"
  BY DEF ConnInv, WhereOK, ServerAt
<1>6. \A d \in D \cap Co : d \in Conns /\ place[d] = "ended" /\ call[d] = NoCall
  BY <1>4, <1>5 DEF ConnInv, WhereOK, ConnAt, Conns
<1>7. \A d \in Co : st[d] # "run" /\ place[d] # "disc"
  BY <1>2, IdleFacts
<1>8. TypeOK'
  <2>1. KernelType' /\ CallType'
    BY <1>2, <1>3 DEF KernelType, CallType
  <2>2. st' \in [Co -> States]
    BY <1>2, <1>3 DEF LoopType, States
  <2>3. destroy_co' \in Seq(Co)
    BY <1>2
  <2>4. LoopType'
    BY <1>2, <1>3, <2>2, <2>3 DEF LoopType
  <2>5. place' \in [Co -> ConnPlaces \cup ServerPlaces]
    BY <1>2, <1>3 DEF ConnType, ConnPlaces
  <2>6. fd_' \in [Co -> Fds \cup {NoFd}]
    BY <1>2, <1>3 DEF ConnType
  <2>7. end_' \in [Conns -> BOOLEAN]
    BY <1>2, <1>3 DEF ConnType
  <2>8. ConnType'
    BY <1>2, <1>3, <2>5, <2>6, <2>7 DEF ConnType
  <2> QED
    BY <2>1, <2>4, <2>8, TypePartsNext
<1>9. Range(<<>>) = {}
  BY DEF Range
<1>10. StackOK'
  BY <1>2, <1>7, <1>9 DEF StackOK
<1>11. WhereOK'
  <2>1. ServerAt'
    <3>1. place'[Server] = place[Server] /\ st'[Server] = st[Server] /\ fd_'[Server] = fd_[Server]
      BY <1>2, <1>3, <1>4, <1>5
    <3>2. \A d \in Conns : place[d] = "none" => place'[d] = "none"
      BY <1>2 DEF Conns
    <3> QED
      BY <1>2, <3>1, <3>2 DEF ConnInv, WhereOK, ServerAt
  <2>2. ASSUME NEW d \in Conns PROVE ConnAt(d)'
    <3>1. CASE d \in D
      <4>1. place'[d] = "none" /\ fd_'[d] = NoFd /\ st'[d] = "freed" /\ call'[d] = NoCall
        BY <1>2, <1>6, <3>1 DEF Conns
      <4> QED
        BY <4>1 DEF ConnAt
    <3>2. CASE d \notin D
      <4>1. place'[d] = place[d] /\ st'[d] = st[d] /\ call'[d] = call[d] /\ fd_'[d] = fd_[d] /\ st[d] # "run"
        BY <1>2, <1>7, <3>2 DEF Conns
      <4> QED
        BY <4>1, ConnHolds
    <3> QED
      BY <3>1, <3>2
  <2> QED
    BY <2>1, <2>2 DEF WhereOK
<1>12. ActiveOK'
  BY <1>2, <1>9 DEF ConnInv, ActiveOK
<1>13. DestroyOK'
  BY <1>2, <1>4, <1>9 DEF DestroyOK
<1>14. \A d \in Co : (Owns(d)' <=> Owns(d)) /\ (Owns(d) => fd_'[d] = fd_[d])
  <2> TAKE d \in Co
  <2>1. CASE d \in D
    BY <1>2, <1>6, <2>1 DEF Owns
  <2>2. CASE d \notin D
    BY <1>2, <2>2 DEF Owns
  <2> QED
    BY <2>1, <2>2
<1>15. OwnOK' /\ InfOK' /\ OpenOK'
  <2>1. OwnOK'
    BY <1>14 DEF ConnInv, OwnOK
  <2>2. InfOK'
    BY <1>2, <1>14 DEF ConnInv, InfOK, HasInf
  <2>3. OpenOK'
    BY <1>2, <1>14 DEF ConnInv, OpenOK, Conns
  <2> QED
    BY <2>1, <2>2, <2>3
<1>16. NoCrash' /\ StatusTrue'
  BY <1>2, <1>7 DEF ConnInv, NoCrash, StatusTrue, Conns
<1> QED
  BY <1>8, <1>10, <1>11, <1>12, <1>13, <1>15, <1>16 DEF ConnInv

-----------------------------------------------------------------------------
(***************************************************************************)
(* The loop, the peers, and the whole.                                     *)
(***************************************************************************)

\* A turn of the loop collects coroutines that wait for a descriptor or a time.
LEMMA PollStep ==
  ASSUME ConnInv, Poll
  PROVE  ConnInv'
<1>1. PICK es, ts : /\ es \in Seq(Co) /\ ts \in Seq(Co) /\ Turn(es, ts)
                    /\ UNCHANGED <<kernel, calls, fate>> /\ UNCHANGED <<place, fd_, end_, statue>>
  <2>1. PICK due \in SUBSET ({c \in Co : st[c] = "wait" /\ timer[c]} \ {c \in Co : Ready(c)}) :
          \E es \in SetToSeqs({c \in Co : Ready(c)}), ts \in SetToSeqs(due) : Turn(es, ts)
    BY DEF Poll, PollTurn
  <2>2. PICK A : A = {c \in Co : Ready(c)}
    OBVIOUS
  <2>3. PICK es \in SetToSeqs(A), ts \in SetToSeqs(due) : Turn(es, ts)
    BY <2>1, <2>2
  <2>4. A \in SUBSET Co /\ due \in SUBSET Co /\ IsFiniteSet(Co)
    BY <2>2
  <2>5. es \in Seq(Co) /\ ts \in Seq(Co)
    BY <2>4, OrdersAreLists
  <2>6. UNCHANGED <<kernel, calls, fate>> /\ UNCHANGED <<place, fd_, end_, statue>>
    BY DEF Poll, PollTurn, conn
  <2> QED
    BY <2>3, <2>5, <2>6
<1>2. /\ stack = <<>> /\ IsInjective(es \o ts) /\ active' = es \o ts
      /\ (\A c \in Range(es) : Registered(c)) /\ (\A c \in Range(ts) : st[c] = "wait" /\ timer[c])
      /\ is_timeout' = [c \in Co |-> is_timeout[c] \/ c \in Range(ts)]
      /\ UNCHANGED <<item_map, interest, st, stack, rfd, timer, destroy_co>>
  BY <1>1 DEF Turn
<1>3. active' \in Seq(Co) /\ Range(active') = Range(es) \cup Range(ts)
  BY <1>1, <1>2, ConcatList
<1>4. LoopType' /\ ConnType'
  <2>1. is_timeout' \in [Co -> BOOLEAN]
    BY <1>2, Zenon
  <2>2. LoopType /\ ConnType
    BY Typed
  <2> QED
    BY <1>1, <1>2, <1>3, <2>1, <2>2 DEF LoopType, ConnType
<1>5. KernelType' /\ CallType' /\ OwnOK' /\ InfOK' /\ OpenOK' /\ NoCrash'
  <2>1. \A d \in Co : Owns(d)' <=> Owns(d)
    BY <1>1 DEF Owns
  <2> QED
    BY <1>1, <2>1, OwnersStay
<1>6. TypeOK'
  BY <1>4, <1>5, TypePartsNext
<1>7. UNCHANGED <<sock, errno, call, res>>
  BY <1>1 DEF kernel, calls
<1>8. StackOK' /\ DestroyOK'
  BY <1>1, <1>2 DEF ConnInv, StackOK, DestroyOK
<1>9. WhereOK'
  <2>1. ServerAt'
    BY <1>1, <1>2, <1>7 DEF ConnInv, WhereOK, ServerAt
  <2>2. ASSUME NEW d \in Conns PROVE ConnAt(d)'
    <3>1. st[d] # "run"
      BY <1>2, IdleFacts DEF Conns
    <3> QED
      BY <1>1, <1>2, <1>7, <3>1, ConnHolds
  <2> QED
    BY <2>1, <2>2 DEF WhereOK
<1>10. ActiveOK'
  <2>1. \A c \in Range(active') : st'[c] = "wait" /\ (timer'[c] \/ rfd'[c] # NoFd)
    BY <1>2, <1>3 DEF Registered
  <2> QED
    BY <1>2, <2>1 DEF ActiveOK
<1>11. StatusTrue'
  BY <1>1, <1>7 DEF ConnInv, StatusTrue
<1> QED
  BY <1>5, <1>6, <1>8, <1>9, <1>10, <1>11 DEF ConnInv

\* An interrupted turn changes errno, which nobody is about to look at.
LEMMA PollFailsStep ==
  ASSUME ConnInv, PollFails
  PROVE  ConnInv'
<1>1. /\ UNCHANGED <<item_map, interest, st, stack, rfd, timer, is_timeout, active, destroy_co>>
      /\ UNCHANGED <<sock, stream, g_socket_inf, call, res, fate>>
      /\ UNCHANGED <<place, fd_, end_, statue>> /\ errno' = "EINTR" /\ stack = <<>>
  BY DEF PollFails, Interrupted, conn, loop, kernel
<1>2. TypeOK' /\ StackOK' /\ ActiveOK' /\ DestroyOK' /\ NoCrash' /\ StatusTrue'
  BY <1>1 DEF ConnInv, TypeOK, SysTypeOK, StackOK, ActiveOK, DestroyOK, NoCrash, StatusTrue
<1>3. WhereOK'
  <2>1. ServerAt'
    BY <1>1 DEF ConnInv, WhereOK, ServerAt
  <2>2. ASSUME NEW c \in Conns PROVE ConnAt(c)'
    <3>1. st[c] # "run"
      BY <1>1, IdleFacts DEF Conns
    <3> QED
      BY <1>1, <3>1, ConnHolds
  <2> QED
    BY <2>1, <2>2 DEF WhereOK
<1>4. OwnOK' /\ InfOK' /\ OpenOK'
  BY <1>1 DEF ConnInv, OwnOK, InfOK, OpenOK, Owns, HasInf
<1> QED
  BY <1>2, <1>3, <1>4 DEF ConnInv

(***************************************************************************)
(* The loop resumes the first coroutine it has collected.  The server is   *)
(* only among them if it has a socket: without one it has neither a timer  *)
(* nor a registration.                                                     *)
(***************************************************************************)
LEMMA ResumeOneStep ==
  ASSUME ConnInv, ResumeOne
  PROVE  ConnInv'
<1>1. PICK c \in Co : Resume(c) /\ errno' \in {errno, "other"}
  BY DEF ResumeOne, ResumeNext
<1>2. UNCHANGED <<sock, stream, g_socket_inf, call, res, fate, place, fd_, end_, statue>>
  BY DEF ResumeOne, ResumeNext, conn, kernel
<1>3. /\ stack = <<>> /\ active # <<>> /\ Head(active) = c /\ active' = Tail(active)
      /\ st' = [st EXCEPT ![c] = "run"] /\ stack' = <<c>> /\ EpollDel(rfd[c])
      /\ rfd' = [rfd EXCEPT ![c] = NoFd] /\ timer' = [timer EXCEPT ![c] = FALSE]
      /\ UNCHANGED <<is_timeout, destroy_co>>
  BY <1>1 DEF Resume
<1>4. Server \in Co /\ KernelType /\ CallType /\ LoopType /\ ConnType
  BY Typed
<1>5. /\ active' \in Seq(Co) /\ Range(active) = Range(active') \cup {c} /\ IsInjective(active') /\ c \notin Range(active')
  <2>1. active \in Seq(Co) /\ active # <<>> /\ IsInjective(active)
    BY <1>3, <1>4 DEF LoopType, ConnInv, ActiveOK
  <2> QED
    BY <1>3, <2>1, PopList
<1>6. st[c] = "wait" /\ (timer[c] \/ rfd[c] # NoFd)
  BY <1>5 DEF ConnInv, ActiveOK
<1>7. \A d \in Co : st[d] # "run" /\ place[d] # "disc"
  BY <1>3, IdleFacts
<1>8. /\ st' \in [Co -> States] /\ st'[c] = "run" /\ \A d \in Co \ {c} : st'[d] = st[d]
  BY <1>3, <1>4 DEF LoopType, States
<1>9. /\ rfd' \in [Co -> Fds \cup {NoFd}] /\ \A d \in Co \ {c} : rfd'[d] = rfd[d]
  BY <1>3, <1>4 DEF LoopType
<1>10. /\ timer' \in [Co -> BOOLEAN] /\ \A d \in Co \ {c} : timer'[d] = timer[d]
  BY <1>3, <1>4 DEF LoopType
<1>11. Range(<<c>>) = {c} /\ <<c>> \in Seq(Co)
  BY StackFacts
<1>12. TypeOK'
  <2>1. KernelType' /\ ConnType'
    BY <1>2, <1>4 DEF KernelType, ConnType
  <2>2. CallType'
    BY <1>1, <1>2, <1>4 DEF CallType
  <2>3. item_map' \in [Fds -> Co \cup {NoCo}] /\ interest' \in [Fds -> Co \cup {NoCo}]
    BY <1>3, <1>4 DEF LoopType, EpollDel, epoll
  <2>4. LoopType'
    BY <1>3, <1>4, <1>5, <1>8, <1>9, <1>10, <1>11, <2>3 DEF LoopType
  <2> QED
    BY <2>1, <2>2, <2>4, TypePartsNext
<1>13. StackOK'
  BY <1>3, <1>7, <1>8, <1>11 DEF StackOK
<1>14. WhereOK'
  <2>1. ServerAt'
    <3>1. ServerAt /\ st[Server] # "run"
      BY <1>4, <1>7 DEF ConnInv, WhereOK
    <3>2. CASE c = Server
      <4>1. /\ place[Server] = "accepted" /\ call[Server].op = "accept" /\ call[Server].fd = fd_[Server]
            /\ ~timer[Server] /\ rfd[Server] = fd_[Server]
        BY <1>6, <3>1, <3>2 DEF ServerAt
      <4>2. fd_[Server] # NoFd
        BY <1>6, <3>2, <4>1
      <4> QED
        BY <1>2, <1>8, <3>2, <4>1, <4>2 DEF ServerAt
    <3>3. CASE c # Server
      <4>1. st'[Server] = st[Server] /\ timer'[Server] = timer[Server] /\ rfd'[Server] = rfd[Server]
        BY <1>4, <1>8, <1>9, <1>10, <3>3
      <4> QED
        BY <1>2, <3>1, <4>1 DEF ServerAt
    <3> QED
      BY <3>2, <3>3
  <2>2. ASSUME NEW d \in Conns PROVE ConnAt(d)'
    <3>1. d \in Co /\ st[d] # "run" /\ ConnAt(d)
      BY <1>7 DEF ConnInv, WhereOK, Conns
    <3>2. CASE d = c
      BY <1>2, <1>6, <1>8, <3>1, <3>2 DEF ConnAt, Writing
    <3>3. CASE d # c
      BY <1>2, <1>8, <3>1, <3>3, ConnHolds
    <3> QED
      BY <3>2, <3>3
  <2> QED
    BY <2>1, <2>2 DEF WhereOK
<1>15. ActiveOK'
  <2>1. \A d \in Range(active') : d \in Co /\ d # c /\ d \in Range(active)
    <3>1. \A d \in Range(active') : d # c /\ d \in Range(active)
      BY <1>5
    <3>2. PICK q : q = active' /\ q \in Seq(Co)
      BY <1>5
    <3>3. \A d \in Range(q) : d \in Co
      BY <3>2 DEF Range
    <3> QED
      BY <3>1, <3>2, <3>3
  <2> QED
    BY <1>5, <1>8, <1>9, <1>10, <2>1 DEF ConnInv, ActiveOK
<1>16. DestroyOK'
  BY <1>3, <1>6, <1>8 DEF ConnInv, DestroyOK
<1>17. OwnOK' /\ InfOK' /\ OpenOK' /\ NoCrash'
  <2>1. \A d \in Co : Owns(d)' <=> Owns(d)
    BY <1>2 DEF Owns
  <2>2. OwnOK'
    BY <1>2, <2>1 DEF ConnInv, OwnOK
  <2>3. InfOK'
    BY <1>2, <2>1 DEF ConnInv, InfOK, HasInf
  <2>4. OpenOK'
    BY <1>2, <2>1 DEF ConnInv, OpenOK, Conns
  <2> QED
    BY <1>2, <2>2, <2>3, <2>4 DEF ConnInv, NoCrash
<1>18. StatusTrue'
  BY <1>2, <1>7 DEF StatusTrue, Conns
<1> QED
  BY <1>12, <1>13, <1>14, <1>15, <1>16, <1>17, <1>18 DEF ConnInv

\* What a peer does to a socket: open stays open, and an end is never taken back.
PeerMoves ==
  /\ sock' \in [Fds -> Sockets] /\ UNCHANGED <<loop, stream, calls, fate>>
  /\ \A f \in Fds :
       /\ sock'[f].state = "free" <=> sock[f].state = "free"
       /\ sock[f].state = "open" => sock'[f].state = "open"
       /\ sock[f].end # "no" => sock'[f].end # "no"

\* The steps of the peers are of this kind.
LEMMA PeerEffect ==
  ASSUME ConnInv, NEW fd \in Fds, NEW s, NEW next, s = sock[fd], PeerStep(fd, next),
         \/ next = [s EXCEPT !.in = TRUE]
         \/ next = [s EXCEPT !.room = Room]
         \/ next = [s EXCEPT !.end = "fin"]
         \/ next = [s EXCEPT !.end = "rst"]
         \/ s.state = "connecting" /\ next = [s EXCEPT !.state = "open"]
         \/ s.state = "connecting" /\ next = [s EXCEPT !.state = "refused"]
  PROVE  PeerMoves
<1>1. sock \in [Fds -> Sockets] /\ s \in Sockets
  BY Typed
<1>2. /\ next \in Sockets
      /\ next.state = "free" <=> s.state = "free"
      /\ s.state = "open" => next.state = "open"
      /\ s.end # "no" => next.end # "no"
  <2>1. CASE next = [s EXCEPT !.in = TRUE]
    BY <1>1, <2>1 DEF Sockets
  <2>2. CASE next = [s EXCEPT !.room = Room]
    BY <1>1, <2>2 DEF Sockets
  <2>3. CASE next = [s EXCEPT !.end = "fin"] \/ next = [s EXCEPT !.end = "rst"]
    BY <1>1, <2>3 DEF Sockets
  <2>4. CASE s.state = "connecting" /\ (next = [s EXCEPT !.state = "open"] \/ next = [s EXCEPT !.state = "refused"])
    BY <1>1, <2>4 DEF Sockets
  <2> QED
    BY <2>1, <2>2, <2>3, <2>4
<1>3. sock' = [sock EXCEPT ![fd] = next] /\ UNCHANGED <<loop, stream, calls, fate>>
  BY DEF PeerStep
<1> QED
  BY <1>1, <1>2, <1>3 DEF PeerMoves

\* Whatever the peers do.
LEMMA PeerStepKeeps ==
  ASSUME ConnInv, PeerActs
  PROVE  ConnInv'
<1>1. PeerMoves /\ UNCHANGED <<place, fd_, end_, statue>>
  <2>1. UNCHANGED <<place, fd_, end_, statue>>
    BY DEF PeerActs, PeerConnects, conn
  <2>2. CASE PeerConnects
    <3>1. PICK fd, s : fd = fd_[Server] /\ s = sock[fd]
      OBVIOUS
    <3>2. fd \in Fds /\ PeerStep(fd, [s EXCEPT !.in = TRUE])
      BY <2>2, <3>1, Typed DEF PeerConnects
    <3> QED
      BY <2>1, <3>1, <3>2, PeerEffect
  <2>3. ASSUME NEW fd \in Fds, Peer(fd) PROVE PeerMoves
    <3>1. PICK s : s = sock[fd]
      OBVIOUS
    <3>2. \/ PeerStep(fd, [s EXCEPT !.in = TRUE])
          \/ PeerStep(fd, [s EXCEPT !.room = Room])
          \/ PeerStep(fd, [s EXCEPT !.end = "fin"])
          \/ PeerStep(fd, [s EXCEPT !.end = "rst"])
          \/ s.state = "connecting" /\ PeerStep(fd, [s EXCEPT !.state = "open"])
          \/ s.state = "connecting" /\ PeerStep(fd, [s EXCEPT !.state = "refused"])
      BY <2>3, <3>1, Zenon DEF Peer
    <3> QED
      BY <3>1, <3>2, PeerEffect
  <2> QED
    BY <2>1, <2>2, <2>3 DEF PeerActs
<1>2. /\ UNCHANGED <<item_map, interest, st, stack, rfd, timer, is_timeout, active, destroy_co>>
      /\ UNCHANGED <<stream, g_socket_inf, errno, call, res, fate>>
  BY <1>1 DEF PeerMoves, loop, calls
<1>3. TypeOK'
  <2>1. KernelType /\ CallType /\ LoopType /\ ConnType
    BY Typed
  <2>2. KernelType' /\ CallType' /\ LoopType' /\ ConnType'
    BY <1>1, <1>2, <2>1 DEF KernelType, CallType, LoopType, ConnType, PeerMoves
  <2> QED
    BY <2>2, TypePartsNext
<1>4. StackOK' /\ ActiveOK' /\ DestroyOK'
  BY <1>1, <1>2 DEF ConnInv, StackOK, ActiveOK, DestroyOK
<1>5. \A d \in Conns : fd_[d] # NoFd => (sock[fd_[d]].end # "no" => sock'[fd_[d]].end # "no")
  BY <1>1, Typed DEF PeerMoves, Conns
<1>6. WhereOK'
  <2>1. ServerAt'
    BY <1>1, <1>2 DEF ConnInv, WhereOK, ServerAt
  <2>2. ASSUME NEW d \in Conns PROVE ConnAt(d)'
    <3>1. ConnAt(d)
      BY DEF ConnInv, WhereOK
    <3>2. fd_[d] # NoFd /\ ReadTold(d) => ReadTold(d)'
      BY <1>1, <1>2, <1>5 DEF ReadTold
    <3>3. Writing(d)' <=> Writing(d)
      BY <1>2 DEF Writing
    <3> QED
      BY <1>1, <1>2, <3>1, <3>2, <3>3 DEF ConnAt
  <2> QED
    BY <2>1, <2>2 DEF WhereOK
<1>7. \A d \in Co : Owns(d)' <=> Owns(d)
  BY <1>1 DEF Owns
<1>8. OwnOK'
  BY <1>1, <1>7 DEF ConnInv, OwnOK
<1>9. InfOK'
  BY <1>1, <1>2, <1>7 DEF ConnInv, InfOK, HasInf, PeerMoves
<1>10. OpenOK'
  <2> SUFFICES ASSUME NEW d \in Conns, Owns(d) PROVE sock'[fd_[d]].state = "open"
    BY <1>1, <1>7 DEF OpenOK, Conns
  <2>1. fd_[d] \in Fds /\ sock[fd_[d]].state = "open"
    BY Typed DEF ConnInv, OpenOK, Owns, Conns
  <2> QED
    BY <1>1, <2>1 DEF PeerMoves
<1>11. NoCrash'
  BY <1>2 DEF ConnInv, NoCrash
<1>12. StatusTrue'
  <2> SUFFICES ASSUME NEW d \in Conns, place[d] = "disc" PROVE Told(d)'
    BY <1>1 DEF StatusTrue, Told
  <2>1. Told(d) /\ ConnAt(d)
    BY DEF ConnInv, StatusTrue, Told, WhereOK
  <2>2. fd_[d] # NoFd
    BY <2>1 DEF ConnAt
  <2> QED
    BY <1>1, <1>5, <2>1, <2>2 DEF Told
<1> QED
  BY <1>3, <1>4, <1>6, <1>8, <1>9, <1>10, <1>11, <1>12 DEF ConnInv

\* A step that changes nothing.
LEMMA StutterStep ==
  ASSUME ConnInv, UNCHANGED vars
  PROVE  ConnInv'
<1>1. /\ UNCHANGED <<item_map, interest, st, stack, rfd, timer, is_timeout, active, destroy_co>>
      /\ UNCHANGED <<sock, stream, g_socket_inf, errno, call, res, fate>>
      /\ UNCHANGED <<place, fd_, end_, statue>>
  BY DEF vars, sysVars, conn, loop, kernel, calls
<1>2. TypeOK' /\ StackOK' /\ ActiveOK' /\ DestroyOK' /\ NoCrash' /\ StatusTrue'
  BY <1>1 DEF ConnInv, TypeOK, SysTypeOK, StackOK, ActiveOK, DestroyOK, NoCrash, StatusTrue
<1>3. WhereOK'
  BY <1>1 DEF ConnInv, WhereOK, ServerAt, ConnAt, Writing, ReadTold
<1>4. OwnOK' /\ InfOK' /\ OpenOK'
  BY <1>1 DEF ConnInv, OwnOK, InfOK, OpenOK, Owns, HasInf
<1> QED
  BY <1>2, <1>3, <1>4 DEF ConnInv

\* The invariant holds at the start.
LEMMA ConnInit == Init => ConnInv
<1> SUFFICES ASSUME Init PROVE ConnInv
  OBVIOUS
<1>1. /\ item_map = [f \in Fds |-> NoCo] /\ interest = [f \in Fds |-> NoCo]
      /\ st = [c \in Co |-> "new"] /\ stack = <<>> /\ active = <<>> /\ destroy_co = <<>>
      /\ rfd = [c \in Co |-> NoFd] /\ timer = [c \in Co |-> FALSE] /\ is_timeout = [c \in Co |-> FALSE]
  BY DEF Init, LoopInit, EpollInit
<1>2. /\ sock = [f \in Fds |-> FreeSock] /\ stream = [f \in Watched |-> NoUnit] /\ g_socket_inf = [f \in Fds |-> NoInf]
      /\ errno = "other" /\ call = [c \in Co |-> NoCall] /\ res = [c \in Co |-> "none"] /\ fate = "alive"
  BY DEF Init, SysInit
<1>3. /\ place = [c \in Co |-> IF c = Server THEN "start" ELSE "none"] /\ fd_ = [c \in Co |-> NoFd]
      /\ end_ = [c \in Conns |-> FALSE] /\ statue = [c \in Conns |-> "disconnected"]
  BY DEF Init
<1>4. FreeSock \in Sockets /\ FreeSock.state = "free" /\ NoInf \in Infs /\ NoInf.entry = "none" /\ NoUnit \in Units
  BY DEF FreeSock, Sockets, NoInf, socket_inf, Infs, Kinds, NoUnit, Units
<1>5. Range(<<>>) = {} /\ <<>> \in Seq(Co) /\ IsInjective(<<>>)
  BY DEF Range, IsInjective
<1>6. TypeOK
  <2>1. KernelType
    BY <1>2, <1>4 DEF KernelType
  <2>2. CallType
    BY <1>2, NoCallType DEF CallType, Results
  <2>3. LoopType
    BY <1>1, <1>5 DEF LoopType, States
  <2>4. ConnType
    BY <1>3 DEF ConnType, ConnPlaces, ServerPlaces, Statues
  <2> QED
    BY <2>1, <2>2, <2>3, <2>4, TypeParts
<1>7. StackOK /\ ActiveOK /\ DestroyOK
  BY <1>1, <1>5 DEF StackOK, ActiveOK, DestroyOK
<1>8. WhereOK
  BY <1>1, <1>2, <1>3 DEF WhereOK, ServerAt, ConnAt, Conns
<1>9. OwnOK /\ InfOK /\ OpenOK
  BY <1>2, <1>3, <1>4 DEF OwnOK, InfOK, OpenOK, Owns, HasInf, Conns
<1>10. NoCrash /\ StatusTrue
  BY <1>2, <1>3 DEF NoCrash, StatusTrue, Conns
<1> QED
  BY <1>6, <1>7, <1>8, <1>9, <1>10 DEF ConnInv

\* Every step keeps the invariant.
LEMMA ConnNext == ConnInv /\ [Next]_vars => ConnInv'
<1> SUFFICES ASSUME ConnInv, [Next]_vars PROVE ConnInv'
  OBVIOUS
<1>1. ASSUME ServerStep PROVE ConnInv'
  BY <1>1, StartStep, InitStep, BindStep, AcceptStep, AcceptedStep, ResumeStep DEF ServerStep
<1>2. ASSUME NEW c \in Conns, ConnStep(c) PROVE ConnInv'
  BY <1>2, ConnectedStep, LoopStep, ReceiveStep, ReadEndsStep, DisconnectedStep, CloseStep, ReturnStep, WakeupStep
     DEF ConnStep
<1>3. ASSUME ResumeOne PROVE ConnInv'
  BY <1>3, ResumeOneStep
<1>4. ASSUME Clear PROVE ConnInv'
  BY <1>4, ClearStep
<1>5. ASSUME Poll PROVE ConnInv'
  BY <1>5, PollStep
<1>6. ASSUME PollFails PROVE ConnInv'
  BY <1>6, PollFailsStep
<1>7. ASSUME PeerActs PROVE ConnInv'
  BY <1>7, PeerStepKeeps
<1>8. ASSUME UNCHANGED vars PROVE ConnInv'
  BY <1>8, StutterStep
<1> QED
  BY <1>1, <1>2, <1>3, <1>4, <1>5, <1>6, <1>7, <1>8 DEF Next, Thread

\* It holds throughout.
LEMMA ConnAlways == Spec => []ConnInv
  BY ConnInit, ConnNext, PTL DEF Spec

-----------------------------------------------------------------------------
(***************************************************************************)
(* The server is consistent, with any number of connections: every open    *)
(* descriptor has its socket_inf and exactly one owner, which has not      *)
(* closed it, however accepts fail, callbacks close and send to each       *)
(* other's connections and descriptor numbers are used again (server::run, *)
(* connection::run, co_close).                                             *)
(***************************************************************************)
THEOREM ConnectionIsConsistent == Spec => []ConnectionConsistent
<1>1. ConnInv => ConnectionConsistent
  <2> SUFFICES ASSUME ConnInv PROVE TypeOK /\ FdOwned
    BY DEF ConnectionConsistent
  <2>1. ASSUME NEW fd \in Fds PROVE Cardinality({c \in Co : Owns(c) /\ fd_[c] = fd}) <= 1
    <3>1. PICK S : S = {c \in Co : Owns(c) /\ fd_[c] = fd}
      OBVIOUS
    <3>2. CASE S = {}
      BY <3>1, <3>2, FS_EmptySet
    <3>3. CASE S # {}
      <4>1. PICK c : c \in S
        BY <3>3
      <4>2. S = {c}
        BY <3>1, <4>1 DEF ConnInv, OwnOK
      <4>3. Cardinality({c}) = 1
        BY FS_Singleton
      <4> QED
        BY <3>1, <4>2, <4>3
    <3> QED
      BY <3>2, <3>3
  <2>2. FdOwned
    BY <2>1 DEF ConnInv, InfOK, FdOwned
  <2> QED
    BY <2>2 DEF ConnInv
<1> QED
  BY <1>1, ConnAlways, PTL

(***************************************************************************)
(* No wrapper that the server or a connection calls looks up the           *)
(* socket_inf of a descriptor that has none (co_read and co_write,         *)
(* co_sys_call.cpp:111, 130), also when a callback sends to a connection   *)
(* other than its own.                                                     *)
(***************************************************************************)
THEOREM ServerNeverCrashes == Spec => []NoCrash
<1>1. ConnInv => NoCrash
  BY DEF ConnInv
<1> QED
  BY <1>1, ConnAlways, PTL

(***************************************************************************)
(* What DisconnectedCb is told about the end of a connection is true       *)
(* (connection_statue_ at the end of connection::run).                     *)
(***************************************************************************)
THEOREM StatusTellsTruth == Spec => []StatusTrue
<1>1. ConnInv => StatusTrue
  BY DEF ConnInv
<1> QED
  BY <1>1, ConnAlways, PTL

=============================================================================
