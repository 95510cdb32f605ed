----------------------------- MODULE Connection ------------------------------
(***************************************************************************)
(* The network library (connection.cpp, server.cpp): the server coroutine  *)
(* accepts connections and resumes a coroutine for each, on top of itself; *)
(* that one calls back on connection, on every message and at the end.     *)
(*                                                                         *)
(* A callback does at most one thing to a connection: send a message or    *)
(* close(), as in Zchat_test.cpp also to another connection than its own,  *)
(* as long as that one has not been disconnected; or, in ConnectedCb, set  *)
(* a timeout of its own.                                                   *)
(* A connection and its coroutine are one, and their identity stands for a *)
(* new one once both are deleted.                                          *)
(***************************************************************************)
EXTENDS SysCall

CONSTANTS
  Server,       \* the coroutine of server_func
  SetKinds,     \* kinds of timeouts that ConnectedCb sets
  OnConnected, OnReceive, OnDisconnected      \* what the callbacks of the program may do

\* What a callback may do: send to, or close, its own connection or another one.
Acts == {"send", "close", "send_other", "close_other"}

ASSUME ConnectionAssumption ==
  /\ Server \in Co /\ SetKinds \subseteq Kinds
  /\ OnConnected \subseteq Acts /\ OnReceive \subseteq Acts /\ OnDisconnected \subseteq Acts

VARIABLES
  place,        \* [Co -> where server_func or conn_func is]
  fd_,          \* [Co -> server::fd_ or connection::fd_]
  end_,         \* [Conns -> BOOLEAN]
  statue        \* [Conns -> connection_statue_]

Conns == Co \ {Server}
conn == <<place, fd_, end_, statue>>
vars == <<sysVars, conn>>

ConnPlaces == {"none", "new", "run", "connected", "loop", "read", "disc", "close", "end", "ended"}
ServerPlaces == {"start", "init", "bind", "accept", "accepted", "resume"}
Statues == {"connected", "connecting", "close_by_server_timeout", "close_by_server_other",
            "close_by_client", "disconnected"}

Init ==
  /\ LoopInit /\ SysInit
  /\ place = [c \in Co |-> IF c = Server THEN "start" ELSE "none"]
  /\ fd_ = [c \in Co |-> NoFd]
  /\ end_ = [c \in Conns |-> FALSE]
  /\ statue = [c \in Conns |-> "disconnected"]

Goto(c, p) == place' = [place EXCEPT ![c] = p]

-----------------------------------------------------------------------------
(***************************************************************************)
(* server::start, init and run.  If socket fails, init goes on with the    *)
(* descriptor -1; if bind fails, the process aborts.                       *)
(***************************************************************************)
start ==
  /\ Alive /\ place[Server] = "start"
  /\ Start(Server) /\ Goto(Server, "init")
  /\ UNCHANGED <<kernel, calls, fate, fd_, end_, statue>>

init ==
  /\ place[Server] = "init"
  /\ \E fd \in Fds \cup {NoFd} :
       /\ co_socket(Server, fd)
       /\ fd_' = [fd_ EXCEPT ![Server] = fd]
       /\ Goto(Server, IF fd = NoFd THEN "accept" ELSE "bind")
  /\ UNCHANGED <<end_, statue>>

bind ==
  /\ place[Server] = "bind" /\ Free(Server)
  /\ \/ /\ sock' = [sock EXCEPT ![fd_[Server]].state = "listen"]
        /\ Goto(Server, "accept")
        /\ UNCHANGED <<loop, stream, g_socket_inf, fate>>
     \/ /\ CloseSocket(fd_[Server]) /\ Closed(fd_[Server])
        /\ fate' = "aborted"
        /\ UNCHANGED place
  /\ UNCHANGED <<errno, call, res, fd_, end_, statue>>

runAccept ==
  /\ place[Server] = "accept"
  /\ co_accept(Server, fd_[Server]) /\ Goto(Server, "accepted")
  /\ UNCHANGED <<fd_, end_, statue>>

Construct(c, fd) ==
  /\ fd_' = [fd_ EXCEPT ![c] = fd]
  /\ end_' = [end_ EXCEPT ![c] = FALSE]
  /\ statue' = [statue EXCEPT ![c] = "disconnected"]

\* A failed accept is tried again; otherwise a connection is made for the descriptor.
runAccepted ==
  /\ place[Server] = "accepted"
  /\ \/ /\ accept(Server, NoFd) /\ Goto(Server, "accept")
        /\ UNCHANGED <<fd_, end_, statue>>
     \/ \E fd \in Fds, c \in Conns :
          /\ place[c] = "none"
          /\ accept(Server, fd) /\ Construct(c, fd)
          /\ place' = [place EXCEPT ![Server] = "resume", ![c] = "new"]

runResume(c) ==
  /\ place[Server] = "resume" /\ Free(Server) /\ place[c] = "new"
  /\ Start(c)
  /\ place' = [place EXCEPT ![Server] = "accept", ![c] = "run"]
  /\ UNCHANGED <<kernel, calls, fate, fd_, end_, statue>>

-----------------------------------------------------------------------------
\* The other connections that a callback of c may use.
Known(c) == {d \in Conns \ {c} : place[d] \in {"connected", "loop", "read"}}

send(c, d) == co_write(c, "write", fd_[d]) /\ UNCHANGED end_

close(d) ==
  /\ end_' = [end_ EXCEPT ![d] = TRUE]
  /\ UNCHANGED sysVars

set_read_timeout(d, kind) ==
  /\ g_socket_inf' = [g_socket_inf EXCEPT ![fd_[d]].read = kind]
  /\ UNCHANGED <<loop, kernel, errno, call, res, fate, end_>>

set_write_timeout(d, kind) ==
  /\ g_socket_inf' = [g_socket_inf EXCEPT ![fd_[d]].write = kind]
  /\ UNCHANGED <<loop, kernel, errno, call, res, fate, end_>>

Callback(c, acts) ==
  \/ UNCHANGED <<sysVars, end_>>
  \/ "send" \in acts /\ send(c, c)
  \/ "close" \in acts /\ close(c)
  \/ \E d \in Known(c) : ("send_other" \in acts /\ send(c, d)) \/ ("close_other" \in acts /\ close(d))

SetTimeout(c) == \E kind \in SetKinds : set_read_timeout(c, kind) \/ set_write_timeout(c, kind)

-----------------------------------------------------------------------------
(***************************************************************************)
(* connection::run.  The last step of the loop is what becomes of          *)
(* connection_statue_ when end_ is looked at again.                        *)
(***************************************************************************)
ConnectedCb(c) ==
  /\ Free(c) /\ place[c] = "run"
  /\ Callback(c, OnConnected) \/ SetTimeout(c)
  /\ statue' = [statue EXCEPT ![c] = "connected"]
  /\ Goto(c, "connected")
  /\ UNCHANGED fd_

Leave(c, s) ==
  /\ statue' = [statue EXCEPT ![c] = IF end_[c] /\ s # "close_by_client"
                                     THEN "close_by_server_other" ELSE s]
  /\ Goto(c, "disc")

\* Mutant: while(1).
LoopEndsNever(c) == FALSE

LoopEnds(c) == end_[c]

LoopTest(c) ==
  /\ Free(c) /\ place[c] \in {"connected", "loop"}
  /\ \/ /\ LoopEnds(c) /\ Leave(c, "connecting")
        /\ UNCHANGED sysVars
     \/ /\ ~LoopEnds(c) /\ co_read(c, "read", fd_[c])
        /\ statue' = [statue EXCEPT ![c] = "connecting"]
        /\ Goto(c, "read")
  /\ UNCHANGED <<fd_, end_>>

ReceiveCb(c) ==
  /\ Free(c) /\ place[c] = "read" /\ res[c] = "data"
  /\ Callback(c, OnReceive)
  /\ Goto(c, "loop")
  /\ UNCHANGED <<fd_, statue>>

\* Mutant: only len < 0 ends the loop.
ReadAgainOnZero(c) == res[c] = "eof" \/ (res[c] = "fail" /\ errno # "other")

\* errno is looked at unless co_read timed out, also when the read returned 0.
ReadAgain(c) == res[c] # "TIME_OUT" /\ errno \in {"EAGAIN", "EINTR"}

\* Mutant: TIME_OUT is an error like any other.
ReadStatueAny(c) == "close_by_client"

ReadStatue(c) == IF res[c] = "TIME_OUT" THEN "close_by_server_timeout" ELSE "close_by_client"

\* len <= 0.
ReadEnds(c) ==
  /\ Free(c) /\ place[c] = "read" /\ res[c] # "data"
  /\ IF ReadAgain(c) THEN Goto(c, "loop") /\ UNCHANGED statue ELSE Leave(c, ReadStatue(c))
  /\ UNCHANGED <<sysVars, fd_, end_>>

DisconnectedCb(c) ==
  /\ Free(c) /\ place[c] = "disc"
  /\ Callback(c, OnDisconnected)
  /\ Goto(c, "close")
  /\ UNCHANGED <<fd_, statue>>

runCloses(c) ==
  /\ Free(c) /\ place[c] = "close"
  /\ co_close(c, fd_[c])
  /\ statue' = [statue EXCEPT ![c] = "disconnected"]
  /\ end_' = [end_ EXCEPT ![c] = TRUE]
  /\ Goto(c, "end")
  /\ UNCHANGED fd_

funcReturns(c) ==
  /\ Alive /\ place[c] = "end"
  /\ Finish(c) /\ Goto(c, "ended")
  /\ UNCHANGED <<kernel, calls, fate, fd_, end_, statue>>

\* The coroutine's destructor deletes the connection.
Clear ==
  /\ Alive /\ destroy_co # <<>> /\ clear_co
  /\ place' = [c \in Co |-> IF c \in Range(destroy_co) THEN "none" ELSE place[c]]
  /\ fd_' = [c \in Co |-> IF c \in Range(destroy_co) THEN NoFd ELSE fd_[c]]
  /\ end_' = [c \in Conns |-> IF c \in Range(destroy_co) THEN FALSE ELSE end_[c]]
  /\ UNCHANGED <<kernel, calls, fate, statue>>

-----------------------------------------------------------------------------
\* clear_co is at the end of every iteration of the loop.
Poll == destroy_co = <<>> /\ PollTurn /\ UNCHANGED conn
PollFor(c) == destroy_co = <<>> /\ TurnFor(c) /\ UNCHANGED conn

PollFails == destroy_co = <<>> /\ Interrupted /\ UNCHANGED conn

ResumeOne == ResumeNext /\ UNCHANGED conn

\* A bound: no more connections come than there are identities for.
PeerConnects ==
  /\ fd_[Server] # NoFd /\ sock[fd_[Server]].state = "listen" /\ ~sock[fd_[Server]].in
  /\ \E c \in Conns : place[c] = "none"
  /\ PeerStep(fd_[Server], [sock[fd_[Server]] EXCEPT !.in = TRUE])
  /\ UNCHANGED conn

(***************************************************************************)
(* Peers act while no coroutine runs, and before the callback of a new     *)
(* connection.  What they do while another coroutine runs could as well    *)
(* have been done before it was resumed: data arrives before an end, so    *)
(* that a read that comes first sees the same.                             *)
(***************************************************************************)
PeerActs ==
  /\ stack = <<>> \/ place[Server] = "resume"
  /\ PeerConnects \/ \E fd \in Fds : Peer(fd) /\ UNCHANGED conn

ServerStep == start \/ init \/ bind \/ runAccept \/ runAccepted \/ \E c \in Conns : runResume(c)

ConnStep(c) ==
  \/ ConnectedCb(c) \/ LoopTest(c) \/ ReceiveCb(c) \/ ReadEnds(c) \/ DisconnectedCb(c)
  \/ runCloses(c) \/ funcReturns(c)
  \/ Wakeup(c) /\ UNCHANGED conn

\* What the thread does between two turns.
Thread == ServerStep \/ (\E c \in Conns : ConnStep(c)) \/ ResumeOne \/ Clear

Next == Thread \/ Poll \/ PollFails \/ PeerActs

Spec == Init /\ [][Next]_vars

(***************************************************************************)
(* The thread runs: callbacks and wrappers come to their next wait, and    *)
(* the loop resumes whom it has collected.  It turns for ever, and takes   *)
(* along, sooner or later, whoever is ready or has a timer that runs out.  *)
(* Nothing is expected of the peers.                                       *)
(***************************************************************************)
FairSpec ==
  /\ Spec
  /\ WF_vars(Thread)
  /\ \A c \in Co : SF_vars(PollFor(c))

-----------------------------------------------------------------------------
TypeOK ==
  /\ SysTypeOK
  /\ place \in [Co -> ConnPlaces \cup ServerPlaces]
  /\ fd_ \in [Co -> Fds \cup {NoFd}]
  /\ end_ \in [Conns -> BOOLEAN] /\ statue \in [Conns -> Statues]

(***************************************************************************)
(* Every open descriptor has a socket_inf and exactly one owner, the       *)
(* server or a connection that has not closed it, and every such owner has *)
(* its descriptor open: none leaks and none is closed under a connection,  *)
(* however accepts fail and numbers are used again.                        *)
(***************************************************************************)
Owns(c) == fd_[c] # NoFd /\ place[c] \notin {"end", "ended"}

FdOwned ==
  fate # "aborted" =>
    \A fd \in Fds :
      /\ sock[fd].state # "free" <=> \E c \in Co : Owns(c) /\ fd_[c] = fd
      /\ Cardinality({c \in Co : Owns(c) /\ fd_[c] = fd}) <= 1
      /\ HasInf(fd) <=> sock[fd].state # "free"

(***************************************************************************)
(* What DisconnectedCb is told is true: close_by_client only if the client *)
(* has closed or reset the connection, close_by_server_other only after    *)
(* somebody called close(), and never plain connecting.                    *)
(***************************************************************************)
StatusTrue ==
  \A c \in Conns : place[c] = "disc" =>
    \/ statue[c] = "close_by_client" /\ sock[fd_[c]].end # "no"
    \/ statue[c] = "close_by_server_other" /\ end_[c]
    \/ statue[c] = "close_by_server_timeout" /\ ~end_[c]

(***************************************************************************)
(* A connection that somebody close()s is disconnected and deleted, also   *)
(* if it is called from another coroutine while the connection waits in    *)
(* co_read, unless the process ends, or the connection waits in a read     *)
(* without a timeout, which only the client can end.                       *)
(***************************************************************************)
Gone(c) == place[c] = "none" \/ ~Alive
ReadsForever(c) == call[c].op = "read" /\ call[c].kind = "forever"

CloseSeen == \A c \in Conns : end_[c] ~> Gone(c) \/ ReadsForever(c)

(***************************************************************************)
(* A connection that the client has closed or reset is disconnected and    *)
(* deleted, whatever else the thread does.  The one exception is that it   *)
(* finds, over and over, an errno that its read of 0 has not set: EAGAIN   *)
(* of another call, or EINTR of an interrupted epoll_wait.                 *)
(***************************************************************************)
PeerClosed(c) == Owns(c) /\ sock[fd_[c]].end # "no"
StaleErrno(c) == place[c] = "read" /\ res[c] = "eof" /\ errno # "other"

PeerCloseSeen == \A c \in Conns : (PeerClosed(c) ~> Gone(c)) \/ []<>StaleErrno(c)

(***************************************************************************)
(* A client that connects is accepted, unless accept fails over and over,  *)
(* also when a new connection's callback waits, in a send or at its first  *)
(* read, on top of the server.                                             *)
(***************************************************************************)
Pending == fd_[Server] # NoFd /\ sock[fd_[Server]].state = "listen" /\ sock[fd_[Server]].in

ServerAccepts == (Pending ~> ~Pending \/ ~Alive) \/ []<>(res[Server] = "fail")

(***************************************************************************)
(* The callback on the end of a connection comes when the client closes it *)
(* ("the developer need only care about three events ... called back when  *)
(* the event comes", src/README.md:317).                                   *)
(***************************************************************************)
DisconnectCalledBack == \A c \in Conns : PeerClosed(c) ~> Gone(c)

(***************************************************************************)
(* The server is consistent: descriptors, their socket_inf and their owners*)
(* match, however connections come, fail and go.                           *)
(***************************************************************************)
ConnectionConsistent == TypeOK /\ FdOwned

=============================================================================
