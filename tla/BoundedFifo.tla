----------------------------- MODULE BoundedFifo -----------------------------
(***************************************************************************)
(* What a channel promises (README, "Channel is a producer consumer        *)
(* queue"): a first-in first-out buffer of at most Cap values.  A put that *)
(* returns true has added its value, a get that returns true has removed   *)
(* the oldest one; an operation blocks only where it has to, and returns   *)
(* false only after close.  How a blocked coroutine is woken is not said.  *)
(***************************************************************************)
EXTENDS Naturals, Sequences

CONSTANTS
  Co,        \* the callers
  Cap,       \* capacity
  Values,    \* what is sent
  None,      \* no operation, no argument
  Pending,   \* the result of an operation that has not returned
  Closed     \* the result of an operation that returned false

VARIABLES
  buf,       \* the values in the channel
  closed,    \* close has been called
  arg,       \* [Co -> Values \cup {None}]: the argument of a blocked put
  ret        \* [Co -> Results]: the result of the last operation

vars == <<buf, closed, arg, ret>>

Init ==
  /\ buf = <<>>
  /\ closed = FALSE
  /\ arg = [c \in Co |-> None]
  /\ ret = [c \in Co |-> None]

Return(c, r) ==
  /\ ret' = [ret EXCEPT ![c] = r]
  /\ arg' = [arg EXCEPT ![c] = None]

Enqueue(c, v) ==
  /\ ~closed /\ Len(buf) < Cap
  /\ ret[c] = Pending => arg[c] = v
  /\ buf' = Append(buf, v)
  /\ Return(c, v)
  /\ UNCHANGED closed

Dequeue(c) ==
  /\ ~closed /\ buf # <<>>
  /\ ret[c] = Pending => arg[c] = None
  /\ buf' = Tail(buf)
  /\ Return(c, Head(buf))
  /\ UNCHANGED closed

BlockPut(c, v) ==
  /\ ~closed /\ Len(buf) >= Cap /\ ret[c] # Pending
  /\ ret' = [ret EXCEPT ![c] = Pending]
  /\ arg' = [arg EXCEPT ![c] = v]
  /\ UNCHANGED <<buf, closed>>

BlockGet(c) ==
  /\ ~closed /\ buf = <<>> /\ ret[c] # Pending
  /\ ret' = [ret EXCEPT ![c] = Pending]
  /\ UNCHANGED <<buf, closed, arg>>

Refuse(c) ==
  /\ closed
  /\ Return(c, Closed)
  /\ UNCHANGED <<buf, closed>>

Close == closed' = TRUE /\ UNCHANGED <<buf, arg, ret>>

Next ==
  \/ \E c \in Co, v \in Values : Enqueue(c, v) \/ BlockPut(c, v)
  \/ \E c \in Co : Dequeue(c) \/ BlockGet(c) \/ Refuse(c)
  \/ Close

Spec == Init /\ [][Next]_vars

=============================================================================
