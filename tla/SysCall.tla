------------------------------- MODULE SysCall -------------------------------
(***************************************************************************)
(* The wrapped system calls (co_sys_call.cpp) over the event loop and over *)
(* the kernel's sockets, with the peers at the other end of them.  A       *)
(* wrapper runs up to its co_register in one step, and again from there to *)
(* the next one or to its return in one; res is what it returned.  The     *)
(* timeouts of a socket_inf are kinds: ms up to the wheel's size, big      *)
(* above it, and forever for -1.                                           *)
(***************************************************************************)
EXTENDS Integers, FiniteSetsExt, EventLoop

CONSTANTS
  Room,         \* units the send buffer of a socket takes
  MsgLen,       \* units of a message
  Watched,      \* descriptors whose stream is recorded
  PeerEnds,     \* how peers end connections: fin, rst
  Signals       \* signals with a handler come

ASSUME SysAssumption ==
  /\ Fds \subseteq Nat /\ NoFd \notin Fds
  /\ IsFiniteSet(Co) /\ NoCo \notin Co
  /\ Room \in Nat \ {0} /\ MsgLen \in Nat \ {0} /\ Watched \subseteq Fds /\ Signals \in BOOLEAN

VARIABLES
  sock,         \* [Fds -> Sockets], in the kernel
  stream,       \* [Watched -> the message cut short at the end of what was written: <<its writer, units>>]
  g_socket_inf, \* [Fds -> no entry, a null entry or a socket_inf]
  errno,        \* of the thread, for all its coroutines: EAGAIN, EINTR or anything else
  call,         \* [Co -> the wrapper a coroutine is in]
  res,          \* [Co -> what the last wrapper returned]
  fate          \* of the process: a null socket_inf was used, or SIGPIPE came

kernel == <<sock, stream>>
calls == <<g_socket_inf, errno, call, res>>
sysVars == <<loop, kernel, calls, fate>>

Kinds == {"ms", "forever", "big"}
Ops == {"none", "accept", "connect", "read", "recv", "write", "send", "sleep"}
Sockets == [state : {"free", "idle", "listen", "connecting", "refused", "open"},
            in : BOOLEAN, end : {"no", "fin", "rst", "shut"}, room : 0 .. Room]

FreeSock == [state |-> "free", in |-> FALSE, end |-> "no", room |-> 0]
NewSock(state) == [state |-> state, in |-> FALSE, end |-> "no", room |-> Room]
NoCall == [op |-> "none", fd |-> NoFd, n |-> 0, kind |-> "ms"]
NoUnit == <<NoCo, 0>>

\* Mutant: a socket has no read timeout unless one is set.
SocketInfForever == [entry |-> "inf", read |-> "forever", write |-> "ms"]

socket_inf == [entry |-> "inf", read |-> "ms", write |-> "ms"]
NoInf == [socket_inf EXCEPT !.entry = "none"]
NullInf == [socket_inf EXCEPT !.entry = "null"]

SysInit ==
  /\ sock = [f \in Fds |-> FreeSock]
  /\ stream = [f \in Watched |-> NoUnit]
  /\ g_socket_inf = [f \in Fds |-> NoInf]
  /\ errno = "other"
  /\ call = [c \in Co |-> NoCall]
  /\ res = [c \in Co |-> "none"]
  /\ fate = "alive"

Alive == fate = "alive"

\* The coroutine runs, and is not inside a wrapper.
Free(c) == Alive /\ Running(c) /\ call[c] = NoCall

-----------------------------------------------------------------------------
(***************************************************************************)
(* The kernel: a new descriptor is the lowest free one, a socket with      *)
(* state, unread input, what the peer has done to the connection, and the  *)
(* room left in its send buffer.  After a reset one call reports the error *)
(* (rst), from then on the connection is shut.                             *)
(***************************************************************************)
FreeFds == {f \in Fds : sock[f].state = "free"}
NewFd == IF FreeFds = {} THEN NoFd ELSE Min(FreeFds)

Record(fd, unit) == stream' = [f \in Watched |-> IF f = fd THEN unit ELSE stream[f]]

Open(fd, state) ==
  /\ sock' = [sock EXCEPT ![fd] = NewSock(state)]
  /\ Record(fd, NoUnit)

Readable(s) ==
  \/ s.state = "listen" /\ s.in
  \/ s.state = "open" /\ (s.in \/ s.end # "no")
  \/ s.state \in {"refused", "idle"}

Writable(s) ==
  \/ s.state = "open" /\ (s.room > 0 \/ s.end \in {"rst", "shut"})
  \/ s.state \in {"refused", "idle"}

Ready(c) ==
  /\ Registered(c)
  /\ LET s == sock[rfd[c]] IN
       CASE call[c].op \in {"accept", "read", "recv"} -> Readable(s)
         [] call[c].op \in {"write", "send"} -> Writable(s)
         [] OTHER -> Readable(s) \/ Writable(s)

\* read and recv: what is returned, and the socket and errno after it.
read(fd) ==
  LET s == sock[fd] IN
    CASE s.state = "open" /\ s.in -> [r |-> "data", s |-> [s EXCEPT !.in = FALSE], e |-> errno]
      [] s.state = "open" /\ s.end \in {"fin", "shut"} -> [r |-> "eof", s |-> s, e |-> errno]
      [] s.state = "open" /\ s.end = "rst" -> [r |-> "fail", s |-> [s EXCEPT !.end = "shut"], e |-> "other"]
      [] s.state = "open" /\ s.end = "no" -> [r |-> "fail", s |-> s, e |-> "EAGAIN"]
      [] OTHER -> [r |-> "fail", s |-> s, e |-> "other"]

(***************************************************************************)
(* write and send of what is left of a message: the units taken, 0 for -1. *)
(* The library leaves SIGPIPE at its default.                              *)
(***************************************************************************)
Takes(fd, n) == IF sock[fd].state = "open" /\ sock[fd].end \in {"no", "fin"}
                THEN Min({sock[fd].room, MsgLen - n}) ELSE 0

\* Mutant: the next piece is taken from the start of the message again.
PieceFromStart(n, k) == k

\* Up to where in the message the k units reach that are written from write_size = n on.
Piece(n, k) == n + k

write(c, fd, n) ==
  LET s == sock[fd]  k == Takes(fd, n)  broken == s.state = "open" /\ s.end \in {"rst", "shut"} IN
    \/ /\ k > 0
       /\ sock' = [sock EXCEPT ![fd].room = @ - k]
       /\ Record(fd, IF Piece(n, k) = MsgLen THEN NoUnit ELSE <<c, Piece(n, k)>>)
       /\ UNCHANGED <<errno, fate>>
    \/ /\ k = 0 /\ ~broken
       /\ errno' = IF s.state = "open" THEN "EAGAIN" ELSE "other"
       /\ UNCHANGED <<kernel, fate>>
    \/ /\ broken /\ s.end = "rst"
       /\ sock' = [sock EXCEPT ![fd].end = "shut"] /\ errno' = "other"
       /\ UNCHANGED <<stream, fate>>
    \/ broken /\ fate' = "killed" /\ UNCHANGED <<kernel, errno>>

-----------------------------------------------------------------------------
(***************************************************************************)
(* g_socket_inf: operator[] makes a null entry of a missing one.           *)
(***************************************************************************)
HasInf(fd) == g_socket_inf[fd].entry = "inf"

\* Mutant: insert instead of an assignment, and nothing is inserted.
AddInfNever(fd) == UNCHANGED g_socket_inf

AddInf(fd) == g_socket_inf' = [g_socket_inf EXCEPT ![fd] = socket_inf]

\* A wrapper dereferences the entry it does not have.
CrashOn(fd) ==
  /\ ~HasInf(fd)
  /\ g_socket_inf' = [g_socket_inf EXCEPT ![fd] = NullInf]
  /\ fate' = "crashed"
  /\ UNCHANGED <<loop, kernel, errno, call, res>>

Return(c, r) ==
  /\ call' = [call EXCEPT ![c] = NoCall]
  /\ res' = [res EXCEPT ![c] = r]

\* co_register at place n of a wrapper; -1 of a timeout too big counts as a timeout everywhere.
co_register(c, op, fd, n, kind) ==
  \/ /\ kind # "big"
     /\ Suspend(c, fd, kind = "ms")
     /\ call' = [call EXCEPT ![c] = [op |-> op, fd |-> fd, n |-> n, kind |-> kind]]
     /\ res' = [res EXCEPT ![c] = "none"]
  \/ kind = "big" /\ Refuse(c) /\ Return(c, "TIME_OUT")

Woken(c, op) == Alive /\ Running(c) /\ call[c].op = op

\* After co_register: TIME_OUT, or the rest of the wrapper.
TimesOut(c) ==
  /\ is_timeout[c]
  /\ Return(c, "TIME_OUT")
  /\ UNCHANGED <<loop, kernel, g_socket_inf, errno, fate>>

\* co_register of no descriptor, called for its timeout only.
Sleep(c) ==
  /\ Free(c)
  /\ co_register(c, "sleep", NoFd, 0, "ms")
  /\ UNCHANGED <<kernel, g_socket_inf, errno, fate>>

SleepWoken(c) == Woken(c, "sleep") /\ TimesOut(c)

-----------------------------------------------------------------------------
(***************************************************************************)
(* The wrappers.  fd is the descriptor that socket or accept returns, NoFd *)
(* if it fails.  The socket_inf that co_accept then makes for -1, over any *)
(* earlier one, is left out: nobody looks it up.                           *)
(***************************************************************************)
co_socket(c, fd) ==
  /\ Free(c) /\ fd \in {NewFd, NoFd}
  /\ IF fd = NoFd THEN errno' = "other" /\ Return(c, "fail") /\ UNCHANGED <<kernel, g_socket_inf>>
     ELSE /\ Open(fd, "idle")
          /\ AddInf(fd)
          /\ Return(c, "ok") /\ UNCHANGED errno
  /\ UNCHANGED <<loop, fate>>

co_accept(c, fd) ==
  /\ Free(c)
  /\ co_register(c, "accept", fd, 0, "forever")
  /\ UNCHANGED <<kernel, g_socket_inf, errno, fate>>

accept(c, fd) ==
  /\ Woken(c, "accept")
  /\ IF fd = NoFd
     THEN errno' = "other" /\ Return(c, "fail") /\ UNCHANGED <<kernel, g_socket_inf>>
     ELSE /\ fd = NewFd /\ sock[call[c].fd].in
          /\ sock' = [sock EXCEPT ![fd] = NewSock("open"),
                                  ![call[c].fd].in = FALSE]
          /\ Record(fd, NoUnit)
          /\ AddInf(fd)
          /\ Return(c, "ok") /\ UNCHANGED errno
  /\ UNCHANGED <<loop, fate>>

(***************************************************************************)
(* connect succeeds or fails at once, or is in progress and waited for in  *)
(* three tries of 25 s each; then the error of the socket is asked for     *)
(* with a length that is not initialized: the call may fail, leave error   *)
(* at 1, or tell the truth.  The truth is 0 for a connection that has not  *)
(* been refused, also if it is not established yet.                        *)
(***************************************************************************)
co_connect(c, fd) ==
  /\ Free(c)
  /\ \/ sock' = [sock EXCEPT ![fd].state = "open"] /\ Return(c, "ok") /\ UNCHANGED <<loop, errno>>
     \/ errno' = "other" /\ Return(c, "fail") /\ UNCHANGED <<loop, sock>>
     \/ /\ sock' = [sock EXCEPT ![fd].state = "connecting"] /\ errno' = "other"
        /\ co_register(c, "connect", fd, 1, "ms")
  /\ UNCHANGED <<stream, g_socket_inf, fate>>

Tries == 3

SoError(fd) == {"fail"} \cup (IF sock[fd].state \in {"connecting", "open"} THEN {"ok"} ELSE {})

\* Mutant: nobody looks at timeout after the tries.
ConnectWokenLast(c) ==
  LET fd == call[c].fd IN
  /\ Woken(c, "connect")
  /\ \/ /\ is_timeout[c] /\ call[c].n < Tries
        /\ co_register(c, "connect", fd, call[c].n + 1, "ms")
        /\ UNCHANGED errno
     \/ /\ ~is_timeout[c] \/ call[c].n = Tries
        /\ \E r \in SoError(fd) : Return(c, r) /\ errno' = IF r = "ok" THEN errno ELSE "other"
        /\ UNCHANGED loop
  /\ UNCHANGED <<kernel, g_socket_inf, fate>>

ConnectWoken(c) ==
  LET fd == call[c].fd IN
  /\ Woken(c, "connect")
  /\ \/ /\ is_timeout[c] /\ call[c].n < Tries
        /\ co_register(c, "connect", fd, call[c].n + 1, "ms")
        /\ UNCHANGED errno
     \/ /\ is_timeout[c] /\ call[c].n = Tries
        /\ errno' = "other" /\ Return(c, "TIME_OUT")
        /\ UNCHANGED loop
     \/ /\ ~is_timeout[c]
        /\ \E r \in SoError(fd) : Return(c, r) /\ errno' = IF r = "ok" THEN errno ELSE "other"
        /\ UNCHANGED loop
  /\ UNCHANGED <<kernel, g_socket_inf, fate>>

\* Mutant: the descriptor is closed and its socket_inf stays.
CloseKeepsInf(fd) ==
  /\ sock' = [sock EXCEPT ![fd] = FreeSock]
  /\ Record(fd, NoUnit)
  /\ UNCHANGED g_socket_inf

\* delete inf erases the entry; a null one stays.
CloseSocket(fd) ==
  /\ g_socket_inf' = [g_socket_inf EXCEPT ![fd] = IF HasInf(fd) THEN NoInf ELSE NullInf]
  /\ sock' = [sock EXCEPT ![fd] = FreeSock]
  /\ Record(fd, NoUnit)

co_close(c, fd) ==
  /\ Free(c)
  /\ CloseSocket(fd)
  /\ Closed(fd)
  /\ Return(c, "ok")
  /\ UNCHANGED <<errno, fate>>

\* co_read and co_recv.
co_read(c, op, fd) ==
  /\ Free(c)
  /\ \/ CrashOn(fd)
     \/ /\ HasInf(fd)
        /\ co_register(c, op, fd, 0, g_socket_inf[fd].read)
        /\ UNCHANGED <<kernel, g_socket_inf, errno, fate>>

ReadWoken(c) ==
  /\ Woken(c, "read") \/ Woken(c, "recv")
  /\ \/ TimesOut(c)
     \/ /\ ~is_timeout[c]
        /\ LET fd == call[c].fd IN
             /\ sock' = [sock EXCEPT ![fd] = read(fd).s]
             /\ errno' = read(fd).e
             /\ Return(c, read(fd).r)
        /\ UNCHANGED <<loop, stream, g_socket_inf, fate>>

(***************************************************************************)
(* co_write and co_send.  If nothing was taken at first, co_write returns  *)
(* and co_send waits; later on both give up what is left.                  *)
(***************************************************************************)
co_write(c, op, fd) ==
  LET k == Takes(fd, 0) IN
  /\ Free(c)
  /\ \/ CrashOn(fd)
     \/ /\ HasInf(fd) /\ write(c, fd, 0)
        /\ IF k = MsgLen \/ (k = 0 /\ op = "write")
           THEN Return(c, IF k = 0 THEN "fail" ELSE "sent") /\ UNCHANGED loop
           ELSE co_register(c, op, fd, k, g_socket_inf[fd].write)
        /\ UNCHANGED g_socket_inf

WriteWoken(c) ==
  LET fd == call[c].fd  n == call[c].n  k == Takes(fd, n) IN
  /\ Woken(c, "write") \/ Woken(c, "send")
  /\ \/ TimesOut(c)
     \/ /\ ~is_timeout[c] /\ write(c, fd, n)
        /\ IF k = 0 \/ n + k = MsgLen
           THEN Return(c, IF n + k = 0 THEN "fail" ELSE "sent") /\ UNCHANGED loop
           ELSE co_register(c, call[c].op, fd, n + k, call[c].kind)
        /\ UNCHANGED g_socket_inf

-----------------------------------------------------------------------------
(***************************************************************************)
(* The event loop with the kernel: a turn takes every registered coroutine *)
(* whose descriptor is ready, and of the others any whose time is up.      *)
(* Deleting a registration that the kernel has dropped fails.              *)
(***************************************************************************)
PollTurn ==
  LET ready == {c \in Co : Ready(c)}
      timed == {c \in Co : st[c] = "wait" /\ timer[c]} IN
  /\ Alive /\ stack = <<>> /\ active = <<>>
  /\ \E due \in SUBSET (timed \ ready) :
       /\ ready \cup due # {}
       /\ \E es \in SetToSeqs(ready), ts \in SetToSeqs(due) : Turn(es, ts)
  /\ UNCHANGED <<kernel, calls, fate>>

\* A signal comes before anything is ready: epoll_wait fails, and the loop goes on.
Interrupted ==
  /\ Signals /\ Alive /\ stack = <<>> /\ active = <<>>
  /\ \A c \in Co : ~Ready(c)
  /\ errno' = "EINTR"
  /\ UNCHANGED <<loop, kernel, g_socket_inf, call, res, fate>>

\* A turn that takes c along: its descriptor is ready, or its time is up.
TurnFor(c) == (Ready(c) \/ timer[c]) /\ PollTurn /\ c \in Range(active')

ResumeNext ==
  /\ Alive
  /\ \E c \in Co :
       /\ Resume(c)
       /\ errno' = IF rfd[c] # NoFd /\ item_map[rfd[c]] # NoCo /\ interest[rfd[c]] = NoCo
                   THEN "other" ELSE errno
  /\ UNCHANGED <<kernel, g_socket_inf, call, res, fate>>

\* The wrappers' parts behind their co_register, but for accept.
Wakeup(c) == SleepWoken(c) \/ ConnectWoken(c) \/ ReadWoken(c) \/ WriteWoken(c)

-----------------------------------------------------------------------------
(***************************************************************************)
(* The peer of a connected socket sends, reads what it was sent, closes    *)
(* and resets; a connection attempt is answered.                           *)
(***************************************************************************)
PeerStep(fd, next) ==
  /\ Alive /\ sock' = [sock EXCEPT ![fd] = next]
  /\ UNCHANGED <<loop, stream, calls, fate>>

Peer(fd) ==
  LET s == sock[fd] IN
  \/ s.state = "open" /\ s.end = "no" /\ ~s.in /\ PeerStep(fd, [s EXCEPT !.in = TRUE])
  \/ s.state = "open" /\ s.end = "no" /\ s.room < Room /\ PeerStep(fd, [s EXCEPT !.room = Room])
  \/ s.state = "open" /\ s.end = "no" /\ "fin" \in PeerEnds /\ PeerStep(fd, [s EXCEPT !.end = "fin"])
  \/ s.state = "open" /\ s.end \in {"no", "fin"} /\ "rst" \in PeerEnds /\ PeerStep(fd, [s EXCEPT !.end = "rst"])
  \/ s.state = "connecting" /\ PeerStep(fd, [s EXCEPT !.state = "open"])
  \/ s.state = "connecting" /\ PeerStep(fd, [s EXCEPT !.state = "refused"])

-----------------------------------------------------------------------------
SysTypeOK ==
  /\ item_map \in [Fds -> Co \cup {NoCo}] /\ interest \in [Fds -> Co \cup {NoCo}]
  /\ st \in [Co -> States] /\ stack \in Seq(Co) /\ rfd \in [Co -> Fds \cup {NoFd}]
  /\ timer \in [Co -> BOOLEAN] /\ is_timeout \in [Co -> BOOLEAN]
  /\ active \in Seq(Co) /\ destroy_co \in Seq(Co)
  /\ sock \in [Fds -> Sockets]
  /\ stream \in [Watched -> (Co \cup {NoCo}) \X (0 .. MsgLen)]
  /\ g_socket_inf \in [Fds ->
                        [entry : {"none", "null", "inf"}, read : Kinds, write : Kinds]]
  /\ errno \in {"EAGAIN", "EINTR", "other"}
  /\ call \in [Co -> [op : Ops, fd : Fds \cup {NoFd}, n : 0 .. Max({3, MsgLen}), kind : Kinds]]
  /\ res \in [Co -> {"none", "ok", "fail", "data", "eof", "sent", "TIME_OUT"}]
  /\ fate \in {"alive", "crashed", "killed", "aborted"}

(***************************************************************************)
(* No wrapper looks up the socket_inf of a descriptor that has none: co_   *)
(* read and co_write dereference the null pointer that operator[] then     *)
(* makes (co_sys_call.cpp:111, 130).                                       *)
(***************************************************************************)
NoCrash == fate # "crashed"

=============================================================================
