------------------------------- MODULE Logging -------------------------------
(***************************************************************************)
(* The front end of the log (Logging.cpp): a Logging object makes a line   *)
(* in its LogStream, and its destructor hands it to output, which makes    *)
(* the log on the first call and appends.                                  *)
(*                                                                         *)
(* A Logging object is local to its thread: nobody sees its steps before   *)
(* output, so a line is made in one step.  The threads that are in output  *)
(* with a line are in Fronts.  The log that Logging makes is never         *)
(* stopped; a program that makes its own log and hands it lines in the     *)
(* same way may stop it (MayStop).                                         *)
(***************************************************************************)
EXTENDS AsyncLogging

CONSTANTS
  Fronts,       \* threads that log
  Strings,      \* lengths of the strings that are logged
  Numbers,      \* integers that are logged, as pointers if not negative
  Doubles,      \* lengths of doubles as %.12g prints them
  MaxMenu,      \* bound on the different values a program logs
  MaxInserts    \* bound on the values in a line

VARIABLES
  once,         \* once_control_: init, busy, done
  at,           \* [Fronts -> where a thread is in output]
  menu,         \* what the program logs in its lines; it never changes
  line          \* [Fronts -> its Logging object: stream_'s buffer and what was logged]

outputs == <<once, at, line>>
vars == <<logVars, menu, outputs>>

NoLine == [buffer |-> EmptyBuffer, ops |-> <<>>]

-----------------------------------------------------------------------------
(***************************************************************************)
(* operator<<: a string of v characters, the integer v, the pointer v, or  *)
(* a double of v characters.  Each may find no room.                       *)
(***************************************************************************)
Op(kind, v) == [kind |-> kind, v |-> v]

Ops == {Op("string", v) : v \in Strings} \cup {Op("number", v) : v \in Numbers}
         \cup {Op("pointer", v) : v \in Numbers \cap Nat} \cup {Op("double", v) : v \in Doubles}

Init ==
  /\ LogInit
  /\ menu \in UNION {kSubset(k, Ops) : k \in 0 .. MaxMenu}
  /\ once = "init" /\ at = [f \in Fronts |-> "idle"] /\ line = [f \in Fronts |-> NoLine]

Insert(b, op) ==
  CASE op.kind = "string" -> Append_(b, op.v, <<>>)
    [] op.kind = "number" -> formatInteger(b, op.v)
    [] op.kind = "pointer" -> formatPointer(b, op.v)
    [] op.kind = "double" -> formatDouble(b, op.v)

(***************************************************************************)
(* The constructor logs the time, the destructor " -- ", the name of the   *)
(* file, a colon, the line number and a newline.  Their lengths are scaled *)
(* down with KSMALLBUFFER.                                                 *)
(***************************************************************************)
formatTime == <<Op("string", 2)>>
Tail_ == <<Op("string", 1), Op("string", 1), Op("string", 1), Op("number", 1), Op("string", 1)>>

Line(ops) == [buffer |-> FoldLeft(Insert, EmptyBuffer, formatTime \o ops \o Tail_), ops |-> ops]

\* Threads are interchangeable, so the next one to log is any that is idle.
Idle == {f \in Fronts : at[f] = "idle"}

Log(f) ==
  /\ lines < MaxLines /\ Idle # {} /\ f = CHOOSE g \in Idle : TRUE
  /\ at' = [at EXCEPT ![f] = "once"]
  /\ \E ops \in BoundedSeq(menu, MaxInserts) : line' = [line EXCEPT ![f] = Line(ops)]
  /\ UNCHANGED <<logVars, menu, once>>

\* kMaxNumericSize is more than any integer, pointer or double needs with its terminating zero.
ASSUME NumbersFit ==
  /\ IntHalf \in Nat \ {0} /\ Numbers \subseteq Ints
  /\ Strings \subseteq Nat /\ kMaxNumericSize \in Nat /\ Doubles \subseteq 0 .. kMaxNumericSize - 1
  /\ \A v \in Numbers \cup {1} : TextLen(convert(v)) \in 0 .. kMaxNumericSize - 1
  /\ \A v \in Numbers \cap Nat : Len(Digits(v, 16)) + 2 \in 0 .. kMaxNumericSize - 1

-----------------------------------------------------------------------------
(***************************************************************************)
(* output: pthread_once, in one thread thread_once with AsyncLogging's     *)
(* start; the others wait until that has returned.  Then append.           *)
(***************************************************************************)
\* Mutant: a flag of the library that is set before the log is made.
OnceEarly(f) ==
  /\ once' = "done"
  /\ at' = [at EXCEPT ![f] = "start"]
  /\ UNCHANGED <<logVars, menu, line>>

thread_once(f) ==
  /\ once' = "busy"
  /\ at' = [at EXCEPT ![f] = "start"]
  /\ UNCHANGED <<logVars, menu, line>>

Once(f) == at[f] = "once" /\ once = "init" /\ thread_once(f)

OnceStart(f) == at[f] = "start" /\ start /\ UNCHANGED <<menu, outputs>>

OnceReturns(f) ==
  /\ at[f] = "start" /\ caller = "up"
  /\ once' = "done" /\ at' = [at EXCEPT ![f] = "once"]
  /\ UNCHANGED <<logVars, menu, line>>

AppendLine(f) ==
  /\ at[f] = "once" /\ once = "done"
  /\ append(line[f].buffer.len)
  /\ at' = [at EXCEPT ![f] = "idle"] /\ line' = [line EXCEPT ![f] = NoLine]
  /\ UNCHANGED <<menu, once>>

FrontStep(f) == Once(f) \/ OnceStart(f) \/ OnceReturns(f) \/ AppendLine(f)

-----------------------------------------------------------------------------
Next ==
  \/ \E f \in Fronts : Log(f) \/ FrontStep(f)
  \/ (CallerStep \/ MadeThread \/ Spurious) /\ UNCHANGED <<menu, outputs>>
  \/ once = "done" /\ stop /\ UNCHANGED <<menu, outputs>>

Spec == Init /\ [][Next]_vars

(***************************************************************************)
(* Every thread keeps running.  The wait of the log thread ends because it *)
(* is timed; those on the latches return without a notify only finitely    *)
(* often.                                                                  *)
(***************************************************************************)
FairSpec ==
  /\ Spec
  /\ \A f \in Fronts : WF_vars(FrontStep(f))
  /\ WF_vars(CallerStep /\ UNCHANGED <<menu, outputs>>) /\ WF_vars(MadeThread /\ UNCHANGED <<menu, outputs>>)

-----------------------------------------------------------------------------
TypeOK ==
  /\ LogTypeOK
  /\ once \in {"init", "busy", "done"}
  /\ at \in [Fronts -> {"idle", "once", "start"}] /\ DOMAIN line = Fronts

(***************************************************************************)
(* No byte is written outside data_, and a LogStream's buffer is never     *)
(* quite full: a line is shorter than a buffer of the log, which append    *)
(* needs since it drops, without a word, what does not fit into an empty   *)
(* one.                                                                    *)
(***************************************************************************)
InBounds ==
  \A f \in Fronts : line[f].buffer.top <= KSMALLBUFFER /\ line[f].buffer.len < KSMALLBUFFER

(***************************************************************************)
(* convert writes the decimal representation of a signed integer: the      *)
(* digits have its absolute value, also for the least integer, which has   *)
(* no positive counterpart, and no zero leads.                             *)
(***************************************************************************)
DecimalValue(ds) == FoldLeft(LAMBDA acc, d : 10 * acc + d, 0, ds)

ConvertRight ==
  \A f \in Fronts : \A op \in Range(line[f].ops) : op.kind = "number" =>
    LET t == convert(op.v)  v == DecimalValue(t.digits) IN
      /\ op.v = IF t.neg THEN -v ELSE v
      /\ Range(t.digits) \subseteq 0 .. 9
      /\ Head(t.digits) = 0 => t.digits = <<0>> /\ ~t.neg

(***************************************************************************)
(* Nobody appends to a log whose start has not returned, whichever thread  *)
(* comes first to pthread_once.                                            *)
(***************************************************************************)
OnceStarted == once = "done" \/ lines > 0 => caller \in {"up", "stopping", "down"}

(***************************************************************************)
(* Every thread that is in output returns from it: the log is made, the    *)
(* two latches of its thread are waited for and counted down, and the line *)
(* is appended; unless the thread cannot be made or the log is stopped.    *)
(***************************************************************************)
OutputReturns ==
  \A f \in Fronts : at[f] # "idle" ~> at[f] = "idle" \/ (caller # "new" /\ ~start_) \/ join_ \/ lines = MaxLines

(***************************************************************************)
(* The log is consistent: the asserts of thread_func_, of Thread, of the   *)
(* latches and of their destructors hold.                                  *)
(***************************************************************************)
LogConsistent == TypeOK /\ Asserts /\ StartAsserts

=============================================================================
