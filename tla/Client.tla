------------------------------- MODULE Client --------------------------------
(***************************************************************************)
(* Coroutines that use the wrapped system calls as clients: each makes a   *)
(* socket, connects it, sends and receives on it for as long as that       *)
(* works, closes it, sleeps and starts again, so that descriptors are used *)
(* again by others while a call of somebody else is under way.             *)
(***************************************************************************)
EXTENDS SysCall

CONSTANTS
  Senders,      \* clients that co_send
  Receivers     \* clients that co_recv

VARIABLES
  pc,           \* [Co -> where a client is]
  fd_           \* [Co -> its descriptor]

vars == <<sysVars, pc, fd_>>

Init ==
  /\ LoopInit /\ SysInit
  /\ pc = [c \in Co |-> "new"]
  /\ fd_ = [c \in Co |-> NoFd]

Goto(c, p) == pc' = [pc EXCEPT ![c] = p]

\* main starts the clients, one after the other, before its loop.
StartClient(c) ==
  /\ Alive /\ stack = <<>> /\ pc[c] = "new" /\ \A d \in Co : pc[d] = "new" \/ call[d] # NoCall
  /\ Start(c) /\ Goto(c, "socket")
  /\ UNCHANGED <<kernel, calls, fate, fd_>>

Socket(c) ==
  /\ pc[c] = "socket"
  /\ \E fd \in Fds \cup {NoFd} :
       /\ co_socket(c, fd)
       /\ fd_' = [fd_ EXCEPT ![c] = fd]
       /\ Goto(c, IF fd = NoFd THEN "sleep" ELSE "connect")

Connect(c) ==
  /\ pc[c] = "connect"
  /\ co_connect(c, fd_[c]) /\ Goto(c, "connected")
  /\ UNCHANGED fd_

\* After a result that is not an error the client goes on, otherwise it closes.
Use(c) ==
  /\ pc[c] \in {"connected", "used"} /\ res[c] \in {"ok", "data", "sent"}
  /\ \/ c \in Senders /\ co_write(c, "send", fd_[c])
     \/ c \in Receivers /\ co_read(c, "recv", fd_[c])
  /\ Goto(c, "used")
  /\ UNCHANGED fd_

Close(c) ==
  /\ pc[c] \in {"connected", "used"}
  /\ co_close(c, fd_[c])
  /\ fd_' = [fd_ EXCEPT ![c] = NoFd]
  /\ Goto(c, "sleep")

Pause(c) ==
  /\ pc[c] = "sleep"
  /\ Sleep(c) /\ Goto(c, "socket")
  /\ UNCHANGED fd_

\* What the thread does between two turns.
Thread ==
  \/ \E c \in Co :
       \/ Socket(c) \/ Connect(c) \/ Use(c) \/ Close(c) \/ Pause(c)
       \/ Wakeup(c) /\ UNCHANGED <<pc, fd_>>
  \/ ResumeNext /\ UNCHANGED <<pc, fd_>>

Next ==
  \/ Thread
  \/ \E c \in Co : StartClient(c)
  \/ (PollTurn \/ Interrupted) /\ UNCHANGED <<pc, fd_>>
  \/ \E fd \in Fds : Peer(fd) /\ UNCHANGED <<pc, fd_>>

(***************************************************************************)
(* The thread runs: a coroutine that is resumed comes to its next wait.    *)
(* The loop turns for ever, and takes along, sooner or later, whoever is   *)
(* ready or has a timer that runs out.  Nothing is expected of the peers.  *)
(***************************************************************************)
Spec ==
  /\ Init /\ [][Next]_vars
  /\ WF_vars(Thread)
  /\ \A c \in Co : SF_vars(TurnFor(c) /\ UNCHANGED <<pc, fd_>>)

-----------------------------------------------------------------------------
TypeOK ==
  /\ SysTypeOK
  /\ pc \in [Co -> {"new", "sleep", "socket", "connect", "connected", "used"}]
  /\ fd_ \in [Co -> Fds \cup {NoFd}]

(***************************************************************************)
(* A descriptor has a socket_inf for exactly as long as it is open, and    *)
(* belongs to one client, however sockets fail, are closed and their       *)
(* numbers used again.                                                     *)
(***************************************************************************)
InfMatches ==
  /\ \A fd \in Fds : HasInf(fd) <=> sock[fd].state # "free"
  /\ \A fd \in Fds : sock[fd].state # "free" => Cardinality({c \in Co : fd_[c] = fd}) = 1

(***************************************************************************)
(* A client that waits in a wrapper is registered for the descriptor of    *)
(* that call until it is resumed: nobody else's co_close or register_event *)
(* takes its registration away.                                            *)
(***************************************************************************)
StaysRegistered ==
  \A c \in Co : st[c] = "wait" /\ call[c].op # "sleep" =>
    rfd[c] = call[c].fd /\ Registered(c) /\ item_map[rfd[c]] = c

(***************************************************************************)
(* The units of a message reach the kernel in their order and each once:   *)
(* while co_send is under way, write_size is the place of the last unit on *)
(* the stream, however often the buffer was full in between.               *)
(***************************************************************************)
Contiguous ==
  \A c \in Co : call[c].op = "send" /\ call[c].n > 0 =>
    stream[call[c].fd] = <<c, call[c].n>>

(***************************************************************************)
(* co_connect returns 0 only on a connection that is established, although *)
(* SO_ERROR is 0 for one that is still under way: the socket is asked only *)
(* after a try that an event has ended, and nothing but the answer makes a *)
(* connecting socket ready; a timeout may come at any point before it.     *)
(***************************************************************************)
ConnectTrue ==
  \A c \in Co : pc[c] = "connected" /\ call[c] = NoCall /\ res[c] = "ok" =>
    sock[fd_[c]].state = "open"

(***************************************************************************)
(* Every call returns: no wrapper waits for ever for a peer that does      *)
(* nothing, unless SIGPIPE ends the process.                               *)
(***************************************************************************)
CallReturns == \A c \in Co : call[c] # NoCall ~> call[c] = NoCall \/ ~Alive

(***************************************************************************)
(* The sockets are consistent: socket_inf and owners match the descriptors,*)
(* and no wrapper looks up one that is not there.                          *)
(***************************************************************************)
SocketsConsistent == TypeOK /\ NoCrash /\ InfMatches

=============================================================================
