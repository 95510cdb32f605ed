---------------------------- MODULE AsyncLogging -----------------------------
(***************************************************************************)
(* The asynchronous log (AsyncLogging.cpp, LogFile.cpp, AppendFile.cpp).   *)
(* Front-end threads append lines to a buffer; a back-end thread takes the *)
(* full buffers, or the current one when its time is up, and writes them   *)
(* to a file through LogFile.                                              *)
(*                                                                         *)
(* Lines are numbered in the order in which they are appended.  A null     *)
(* shared_ptr is Null.  The critical sections of append are atomic; the    *)
(* two of the back end are split where it waits, and what it does between  *)
(* them without the lock is one step per call into LogFile.  Its wait ends *)
(* after flush_time_ seconds at the latest, so it may end at any moment.   *)
(***************************************************************************)
EXTENDS Thread, LogStream

CONSTANTS
  LogL,           \* the latch AsyncLogging::L_
  MaxBuffers,     \* more buffers than this to write (25) are cut down to two
  Every_n_flush,  \* LogFile flushes by itself at this many appends (1024)
  Null,           \* a null BufferPtr
  MayStop,        \* stop may be called
  MaxLines        \* bound on the lines that are appended

ASSUME LogAssumption ==
  /\ Latches = {ThreadL, LogL} /\ LogL # ThreadL /\ LatchUsers = {Caller, Made} /\ Caller # Made
  /\ KSMALLBUFFER \in Nat \ {0} /\ Every_n_flush \in Nat \ {0} /\ MaxLines \in Nat
  /\ MaxBuffers \in Nat /\ MaxBuffers >= 2 /\ Null # EmptyBuffer

VARIABLES
  caller,           \* where the thread is that calls start and stop
  running,          \* running_
  Current_Buffer,   \* Current_Buffer_
  Next_Buffer,      \* Next_Buffer_
  Buffers,          \* Buffers_
  newBuffer1, newBuffer2, Buffer_To_Write,   \* locals of thread_func_
  pc,               \* where thread_func_ is
  i,                \* its loop counter, from 1
  count,            \* LogFile::count_
  file,             \* lines handed to fwrite_unlocked
  flushed,          \* lines of file that are on disk
  lines,            \* lines appended so far
  dropped           \* lines erased because there were too many buffers

front == <<running, Current_Buffer, Next_Buffer, Buffers, lines>>
local == <<newBuffer1, newBuffer2, Buffer_To_Write>>
out == <<i, count, file, flushed, dropped>>
back == <<local, pc, out>>
logVars == <<thread, caller, front, back>>

Callers == {"new", "starting", "waiting", "up", "stopping", "down"}

Places == {"new", "test", "enter", "wait", "cut", "write", "self", "end", "done"}

LogInit ==
  /\ ThreadInit /\ caller = "new" /\ running = FALSE
  /\ Current_Buffer = EmptyBuffer /\ Next_Buffer = EmptyBuffer /\ Buffers = <<>>
  /\ newBuffer1 = EmptyBuffer /\ newBuffer2 = EmptyBuffer /\ Buffer_To_Write = <<>>
  /\ pc = "new" /\ i = 1 /\ count = 0
  /\ file = <<>> /\ flushed = 0 /\ lines = 0 /\ dropped = {}

-----------------------------------------------------------------------------
(***************************************************************************)
(* start: the thread is made, which is waited for on two latches.  If it   *)
(* cannot be made, L_ is waited for all the same.                          *)
(***************************************************************************)
start ==
  /\ caller = "new" /\ caller' = "starting"
  /\ running' = TRUE
  /\ Create
  /\ UNCHANGED <<Current_Buffer, Next_Buffer, Buffers, lines, back>>

StartLatches ==
  /\ \/ caller = "starting" /\ start_ /\ StartWaits /\ UNCHANGED caller
     \/ caller = "starting" /\ Started /\ caller' = "waiting" /\ UNCHANGED thread
     \/ /\ caller = "waiting" /\ WaitStep(LogL, Caller)
        /\ caller' = IF At(LogL, Caller)' = "done" THEN "up" ELSE "waiting"
        /\ UNCHANGED <<start_, join_, tid_, life>>
  /\ UNCHANGED <<front, back>>

\* A wait on a latch may end without a notify.
Spurious ==
  /\ \E l \in Latches : SpuriousWakeup(l, Caller)
  /\ UNCHANGED <<start_, join_, tid_, life, caller, front, back>>

(***************************************************************************)
(* append of a line of n characters, by any thread, and stop, which clears *)
(* running_ without the lock, notifies and joins.  The destructor calls    *)
(* stop, so nothing is appended afterwards.                                *)
(***************************************************************************)
append(n) ==
  /\ running /\ lines < MaxLines
  /\ lines' = lines + 1
  /\ IF RoomFor(Current_Buffer, n)
     THEN /\ Current_Buffer' = Append_(Current_Buffer, n, <<lines + 1>>)
          /\ UNCHANGED <<Buffers, Next_Buffer>>
     ELSE /\ Buffers' = Append(Buffers, Current_Buffer)
          /\ Current_Buffer' =
               Append_(IF Next_Buffer # Null THEN Next_Buffer ELSE EmptyBuffer, n, <<lines + 1>>)
          /\ Next_Buffer' = Null
  /\ UNCHANGED <<running, thread, caller, back>>

stop ==
  /\ MayStop /\ caller = "up" /\ caller' = "stopping"
  /\ running' = FALSE
  /\ join
  /\ UNCHANGED <<Current_Buffer, Next_Buffer, Buffers, lines, back>>

Joined ==
  /\ caller = "stopping" /\ life = "end" /\ caller' = "down"
  /\ UNCHANGED <<thread, front, back>>

-----------------------------------------------------------------------------
(***************************************************************************)
(* thread_func_.                                                           *)
(***************************************************************************)
Begin ==
  /\ pc = "new" /\ life = "func" /\ CountdownStep(LogL, Made)
  /\ pc' = IF At(LogL, Made)' = "done" THEN "test" ELSE "new"
  /\ UNCHANGED <<start_, join_, tid_, life, caller, front, local, out>>

TestRunning ==
  /\ pc = "test"
  /\ pc' = IF running THEN "enter" ELSE "end"
  /\ UNCHANGED <<front, local, out, thread, caller>>

\* Mutant: the current buffer is written before the full ones.
ExchangeCurrentFirst ==
  /\ Current_Buffer' = newBuffer1 /\ newBuffer1' = Null
  /\ Buffer_To_Write' = <<Current_Buffer>> \o Buffers
  /\ Buffers' = Buffer_To_Write
  /\ IF Next_Buffer = Null
     THEN Next_Buffer' = newBuffer2 /\ newBuffer2' = Null
     ELSE UNCHANGED <<Next_Buffer, newBuffer2>>
  /\ pc' = "cut"
  /\ UNCHANGED <<running, lines, out, thread, caller>>

\* The critical section, up to WaitSomeSecond if there is nothing to write yet.
Exchange ==
  /\ Current_Buffer' = newBuffer1
  /\ newBuffer1' = Null
  /\ Buffer_To_Write' = Append(Buffers, Current_Buffer)
  /\ Buffers' = Buffer_To_Write
  /\ IF Next_Buffer = Null
     THEN Next_Buffer' = newBuffer2 /\ newBuffer2' = Null
     ELSE UNCHANGED <<Next_Buffer, newBuffer2>>
  /\ pc' = "cut"
  /\ UNCHANGED <<running, lines, out, thread, caller>>

Enter ==
  /\ pc = "enter"
  /\ IF Buffers = <<>>
     THEN pc' = "wait" /\ UNCHANGED <<front, local, out, thread, caller>>
     ELSE Exchange

\* Mutant: when the time is up and no buffer is full, nothing is written.
WaitForFull ==
  /\ pc = "wait"
  /\ IF Buffers = <<>> THEN pc' = "test" /\ UNCHANGED <<front, local, out, thread, caller>> ELSE Exchange

WaitSomeSecond == pc = "wait" /\ Exchange

Lines(bs) == FlattenSeq([k \in DOMAIN bs |-> bs[k].lines])

Cut ==
  /\ pc = "cut"
  /\ IF Len(Buffer_To_Write) > MaxBuffers
     THEN /\ Buffer_To_Write' = SubSeq(Buffer_To_Write, 1, 2)
          /\ dropped' = dropped \cup
               Range(Lines(SubSeq(Buffer_To_Write, 3, Len(Buffer_To_Write))))
     ELSE UNCHANGED <<Buffer_To_Write, dropped>>
  /\ i' = 1
  /\ pc' = "write"
  /\ UNCHANGED <<front, newBuffer1, newBuffer2, count, file, flushed, thread, caller>>

(***************************************************************************)
(* LogFile::append.  At every Every_n_flush-th call it calls               *)
(* LogFile::flush, which locks the mutex that append holds: the thread     *)
(* waits for itself, in place "self", and there is no step out of it.      *)
(***************************************************************************)
Write ==
  /\ pc = "write" /\ i <= Len(Buffer_To_Write)
  /\ file' = file \o Buffer_To_Write[i].lines
  /\ count' = count + 1
  /\ i' = i + 1
  /\ pc' = IF count' >= Every_n_flush THEN "self" ELSE "write"
  /\ UNCHANGED <<front, local, flushed, dropped, thread, caller>>

\* Two of the buffers just written become newBuffer1 and newBuffer2 again.
Refill ==
  /\ pc = "write" /\ i > Len(Buffer_To_Write)
  /\ newBuffer1' = IF newBuffer1 = Null THEN EmptyBuffer ELSE newBuffer1
  /\ newBuffer2' = IF newBuffer2 = Null THEN EmptyBuffer ELSE newBuffer2
  /\ Buffer_To_Write' = <<>>
  /\ flushed' = Len(file)
  /\ pc' = "test"
  /\ UNCHANGED <<front, i, count, file, dropped, thread, caller>>

End ==
  /\ pc = "end" /\ pc' = "done"
  /\ flushed' = Len(file)
  /\ FuncReturns
  /\ UNCHANGED <<front, local, i, count, file, dropped, caller>>

thread_func ==
  Begin \/ TestRunning \/ Enter \/ WaitSomeSecond \/ Cut \/ Write \/ Refill \/ End

MadeThread == thread_func \/ (run_in_thread /\ UNCHANGED <<caller, front, back>>)
CallerStep == StartLatches \/ Joined

-----------------------------------------------------------------------------
Buffer == [len : 0 .. KSMALLBUFFER, top : 0 .. KSMALLBUFFER, lines : Seq(1 .. MaxLines)]

LogTypeOK ==
  /\ ThreadTypeOK /\ caller \in Callers
  /\ running \in BOOLEAN /\ pc \in Places
  /\ Current_Buffer \in Buffer
  /\ {Next_Buffer, newBuffer1, newBuffer2} \subseteq {EmptyBuffer, Null}
  /\ Range(Buffers) \subseteq Buffer /\ Range(Buffer_To_Write) \subseteq Buffer
  /\ i \in Nat \ {0} /\ count \in 0 .. Every_n_flush
  /\ Range(file) \subseteq 1 .. MaxLines /\ flushed \in 0 .. Len(file)
  /\ lines \in 0 .. MaxLines /\ dropped \subseteq 1 .. MaxLines

(***************************************************************************)
(* The asserts of thread_func_: both spare buffers are there when it       *)
(* enters the critical section, and when it takes them back afterwards     *)
(* there are as many written buffers as it needs.  The back end gave       *)
(* newBuffer2 away only if the front end had used up Next_Buffer_, and     *)
(* then there is a second buffer to write.                                 *)
(***************************************************************************)
NumNull == (IF newBuffer1 = Null THEN 1 ELSE 0) + (IF newBuffer2 = Null THEN 1 ELSE 0)

Asserts ==
  /\ pc \in {"test", "enter", "wait"} => NumNull = 0 /\ Buffer_To_Write = <<>>
  /\ pc \in {"cut", "write"} => Len(Buffer_To_Write) >= NumNull /\ Buffer_To_Write # <<>>

(***************************************************************************)
(* Lines reach the file in the order in which they were appended, each at  *)
(* most once, and none is missing between the file and the front end       *)
(* except those dropped because more than MaxBuffers had piled up: every   *)
(* line that LogStream can make fits into an empty buffer.                 *)
(***************************************************************************)
Unwritten == IF pc \in {"write", "self"} THEN SubSeq(Buffer_To_Write, i, Len(Buffer_To_Write))
             ELSE Buffer_To_Write

Pipeline == file \o Lines(Unwritten) \o Lines(Buffers) \o Current_Buffer.lines

InOrder ==
  /\ Range(Pipeline) = (1 .. lines) \ dropped
  /\ \A j, k \in DOMAIN Pipeline : j < k => Pipeline[j] < Pipeline[k]

(***************************************************************************)
(* The asserts of the start and the stop of the log thread: tid_ > 0 when  *)
(* Thread::start returns, also after a spurious wakeup on the latch;       *)
(* isLock_ when a latch is waited on, although UnLock clears it late;      *)
(* running_ when thread_func_ begins; start_ when the thread is joined;    *)
(* and no mutex of a latch in use, nor isLock_ set, when the Thread and    *)
(* its latch are destroyed.                                                *)
(***************************************************************************)
StartAsserts ==
  /\ caller \notin {"new", "starting"} /\ start_ => tid_
  /\ \A l \in Latches : At(l, Caller) = "test" /\ MustWait(l) => latch[l].isLock
  /\ life = "func" /\ At(LogL, Made) = "out" => running
  /\ caller \in {"stopping", "down"} => start_
  /\ caller = "down" => \A l \in Latches : ~latch[l].isLock /\ \A t \in LatchUsers : At(l, t) = "done"

(***************************************************************************)
(* A line that has been appended is on disk in the end: in the timed wait  *)
(* at the latest its buffer is taken, written and flushed, however many    *)
(* lines follow.  Only three things may come between: it is dropped; the   *)
(* log is stopped after the back end took its last buffers, and the line   *)
(* is left with the front end; or, before that, LogFile::append is called  *)
(* for the Every_n_flush-th time and locks itself out.  That cannot happen *)
(* if the buffers that are ahead of the flush are few enough: those to be  *)
(* written, the current one, and one for every line still to come.         *)
(***************************************************************************)
AppendsAhead == Len(Unwritten) + Len(Buffers) + 1 + (MaxLines - lines)

OnDisk(n) == n \in Range(SubSeq(file, 1, flushed))
LeftBehind(n) == pc = "done" /\ n \in Range(Lines(Buffers) \o Current_Buffer.lines)

Written ==
  \A n \in 1 .. MaxLines :
    lines >= n /\ count + AppendsAhead < Every_n_flush ~> OnDisk(n) \/ n \in dropped \/ LeftBehind(n)

(***************************************************************************)
(* A line that has been appended is written when the buffer is full or the *)
(* time is up, as the README says, for as long as the log is not stopped.  *)
(***************************************************************************)
AlwaysWritten == \A n \in 1 .. MaxLines : lines >= n ~> n \in Range(file) \cup dropped \/ ~running

=============================================================================
