---------------------------- MODULE LoggingProofs ----------------------------
(***************************************************************************)
(* The log for any number of front-end threads and lines, buffers of any   *)
(* size and any number of spurious wakeups: its asserts hold, and lines    *)
(* come to the file in their order.                                        *)
(***************************************************************************)
EXTENDS Logging, Lists

USE LogAssumption, ThreadAssumption, LatchAssumption

-----------------------------------------------------------------------------
(***************************************************************************)
(* The inductive invariant.  A latch is at 1 until Made has counted down,  *)
(* nobody sleeps on it after that, and nobody is through before.           *)
(***************************************************************************)
LatchOK ==
  \A l \in Latches :
    /\ latch[l].count = IF At(l, Made) = "out" THEN 1 ELSE 0
    /\ At(l, Made) \in {"out", "unlock", "done"}
    /\ At(l, Caller) = "asleep" => At(l, Made) = "out"
    /\ At(l, Caller) \in {"unlock", "done"} => At(l, Made) # "out"
    /\ At(l, Caller) = "test" /\ At(l, Made) = "out" => latch[l].isLock
    /\ At(l, Caller) = "done" /\ At(l, Made) = "done" => ~latch[l].isLock

\* How far the two threads are with the two latches.
StartOK ==
  /\ start_ <=> life # "none"
  /\ tid_ <=> life \in {"tid", "func", "end"}
  /\ running <=> caller \in {"starting", "waiting", "up"}
  /\ caller = "new" => ~start_
  /\ caller \notin {"new", "starting"} /\ start_ => At(ThreadL, Caller) = "done"
  /\ caller \in {"new", "starting"} => At(LogL, Caller) = "out"
  /\ caller \in {"up", "stopping", "down"} => At(LogL, Caller) = "done"
  /\ caller = "down" => life = "end"
  /\ life \in {"none", "born"} => At(ThreadL, Made) = "out"
  /\ life \in {"func", "end"} <=> At(ThreadL, Made) = "done"
  /\ At(LogL, Made) # "out" => life \in {"func", "end"}
  /\ pc = "new" <=> At(LogL, Made) # "done"
  /\ life = "end" <=> pc = "done"

(***************************************************************************)
(* The buffers: the back end has both spare ones outside its critical      *)
(* section and its loop, and Next_Buffer_ is used up only if there is a    *)
(* full buffer.                                                            *)
(***************************************************************************)
BuffersOK ==
  /\ Current_Buffer \in Buffer /\ Buffers \in Seq(Buffer) /\ Buffer_To_Write \in Seq(Buffer)
  /\ file \in Seq(1 .. MaxLines)
  /\ Next_Buffer \in {EmptyBuffer, Null} /\ newBuffer1 \in {EmptyBuffer, Null} /\ newBuffer2 \in {EmptyBuffer, Null}

SparesOK ==
  /\ pc \in {"new", "test", "enter", "wait", "end", "done"} =>
       newBuffer1 = EmptyBuffer /\ newBuffer2 = EmptyBuffer /\ Buffer_To_Write = <<>>
  /\ pc \in {"cut", "write"} => Len(Buffer_To_Write) >= NumNull /\ Buffer_To_Write # <<>>
  /\ Next_Buffer = Null => Buffers # <<>>

CountOK ==
  /\ i \in Nat \ {0} /\ count \in 0 .. Every_n_flush
  /\ count = Every_n_flush => pc = "self"
  /\ pc \in {"write", "self"} => i <= Len(Buffer_To_Write) + 1
  /\ flushed \in 0 .. Len(file)
  /\ lines \in 0 .. MaxLines /\ dropped \subseteq 1 .. lines

PlacesOK ==
  /\ latch \in [Latches -> LatchType]
  /\ life \in {"none", "born", "tid", "func", "end"} /\ caller \in Callers /\ pc \in Places

FlagsOK == start_ \in BOOLEAN /\ join_ \in BOOLEAN /\ tid_ \in BOOLEAN /\ running \in BOOLEAN

\* A LogStream's buffer: what InBounds says of it, and no line of the log in it.
Text == [len : 0 .. KSMALLBUFFER - 1, top : 0 .. KSMALLBUFFER, lines : {<<>>}]

OutputOK ==
  /\ menu \subseteq Ops
  /\ once \in {"init", "busy", "done"} /\ at \in [Fronts -> {"idle", "once", "start"}] /\ DOMAIN line = Fronts
  /\ once = "done" => caller \in {"up", "stopping", "down"}
  /\ lines > 0 => once = "done"
  /\ \A f \in Fronts : line[f].buffer \in Text /\ Range(line[f].ops) \subseteq Ops

LogInv ==
  /\ PlacesOK /\ FlagsOK /\ LatchOK /\ StartOK
  /\ BuffersOK /\ SparesOK /\ CountOK /\ InOrder
  /\ OutputOK

\* A latch with the places of its two users.
OneOK(k) ==
  /\ k.count = IF k.at[Made] = "out" THEN 1 ELSE 0
  /\ k.at[Made] \in {"out", "unlock", "done"}
  /\ k.at[Caller] = "asleep" => k.at[Made] = "out"
  /\ k.at[Caller] \in {"unlock", "done"} => k.at[Made] # "out"
  /\ k.at[Caller] = "test" /\ k.at[Made] = "out" => k.isLock
  /\ k.at[Caller] = "done" /\ k.at[Made] = "done" => ~k.isLock

\* What a step on one latch does to the others: nothing.
LEMMA LatchStep ==
  ASSUME latch \in [Latches -> LatchType], LatchOK, NEW l \in Latches, NEW k \in LatchType,
         latch' = [latch EXCEPT ![l] = k], OneOK(k)
  PROVE  /\ latch' \in [Latches -> LatchType] /\ LatchOK'
         /\ \A m \in Latches : latch'[m] = IF m = l THEN k ELSE latch[m]
<1>1. latch' \in [Latches -> LatchType]
  OBVIOUS
<1>2. \A m \in Latches : latch'[m] = IF m = l THEN k ELSE latch[m]
  OBVIOUS
<1>3. \A m \in Latches : OneOK(latch'[m])
  BY <1>2 DEF LatchOK, OneOK, At
<1> QED
  BY <1>1, <1>2, <1>3 DEF LatchOK, OneOK, At

\* wait, and the wakeups from it.
LEMMA WaitKeeps ==
  ASSUME latch \in [Latches -> LatchType], LatchOK, NEW l \in Latches,
         WaitStep(l, Caller) \/ SpuriousWakeup(l, Caller)
  PROVE  /\ latch' \in [Latches -> LatchType] /\ LatchOK'
         /\ \A m \in Latches : m # l => latch'[m] = latch[m]
         /\ At(l, Made)' = At(l, Made) /\ At(l, Caller) # "done"
         /\ SpuriousWakeup(l, Caller) => At(l, Caller) = "asleep"
<1> DEFINE a == latch[l]
<1>1. /\ a.count \in 0 .. 1 /\ a.at \in [LatchUsers -> LatchPlaces] /\ a.woken \in 0 .. MaxSpurious
      /\ OneOK(a) /\ a = [count |-> a.count, isLock |-> a.isLock, at |-> a.at, woken |-> a.woken]
  BY DEF LatchType, LatchOK, OneOK, At
<1>2. a.isLock \in BOOLEAN
  BY DEF LatchType
<1>3. ASSUME NEW lk \in BOOLEAN, NEW p \in LatchPlaces, NEW w \in 0 .. MaxSpurious,
             latch' = [latch EXCEPT ![l] = [count |-> a.count, isLock |-> lk, at |-> [a.at EXCEPT ![Caller] = p], woken |-> w]],
             p = "asleep" => a.at[Made] = "out", p \in {"unlock", "done"} => a.at[Made] # "out",
             p = "test" => lk, p = "done" => ~lk, a.at[Caller] # "done"
      PROVE  /\ latch' \in [Latches -> LatchType] /\ LatchOK'
             /\ \A m \in Latches : m # l => latch'[m] = latch[m]
             /\ At(l, Made)' = At(l, Made) /\ At(l, Caller) # "done"
  <2> DEFINE k == [count |-> a.count, isLock |-> lk, at |-> [a.at EXCEPT ![Caller] = p], woken |-> w]
  <2>1. k \in LatchType /\ k.at[Made] = a.at[Made] /\ k.at[Caller] = p
    BY <1>1, <1>3 DEF LatchType
  <2>2. OneOK(k)
    BY <1>1, <1>3, <2>1 DEF OneOK
  <2>3. latch' = [latch EXCEPT ![l] = k]
    BY <1>3
  <2> HIDE DEF k
  <2> QED
    BY <1>3, <2>1, <2>2, <2>3, LatchStep DEF At
<1>4. CASE WaitLock(l, Caller)
  <2>1. a.at[Caller] \in {"out", "awake"}
        /\ latch' = [latch EXCEPT ![l] = [count |-> a.count, isLock |-> TRUE, at |-> [a.at EXCEPT ![Caller] = "test"], woken |-> a.woken]]
    BY <1>1, <1>4 DEF WaitLock, At
  <2>2. TRUE \in BOOLEAN /\ "test" \in LatchPlaces
    BY DEF LatchPlaces
  <2> QED
    BY <1>1, <1>3, <2>1, <2>2, <1>4 DEF SpuriousWakeup, At
<1>5. CASE WaitTest(l, Caller)
  <2>0. PICK p : p = IF a.count > 0 THEN "asleep" ELSE "unlock"
    OBVIOUS
  <2>3. a.at[Caller] = "test" /\ latch' = [latch EXCEPT ![l].at[Caller] = p]
    BY <1>5, <2>0 DEF WaitTest, At, MustWait
  <2>1. a.at[Caller] = "test"
        /\ latch' = [latch EXCEPT ![l] = [count |-> a.count, isLock |-> a.isLock, at |-> [a.at EXCEPT ![Caller] = p], woken |-> a.woken]]
    <3>1. latch' = [latch EXCEPT ![l] = [a EXCEPT !.at = [a.at EXCEPT ![Caller] = p]]]
      BY <2>3
    <3>2. [a EXCEPT !.at = [a.at EXCEPT ![Caller] = p]]
            = [count |-> a.count, isLock |-> a.isLock, at |-> [a.at EXCEPT ![Caller] = p], woken |-> a.woken]
      BY <1>1
    <3> QED
      BY <2>3, <3>1, <3>2
  <2>2. p \in LatchPlaces /\ (p = "asleep" => a.at[Made] = "out") /\ (p = "unlock" => a.at[Made] # "out")
        /\ p # "test" /\ p # "done"
    BY <1>1, <2>0 DEF LatchPlaces, OneOK
  <2> QED
    BY <1>1, <1>2, <1>3, <2>1, <2>2 DEF SpuriousWakeup, At
<1>6. CASE FlagCleared(l, Caller)
  <2>1. a.at[Caller] = "unlock" /\ a.at[Made] # "out"
        /\ latch' = [latch EXCEPT ![l] = [count |-> a.count, isLock |-> FALSE, at |-> [a.at EXCEPT ![Caller] = "done"], woken |-> 0]]
    BY <1>1, <1>6 DEF FlagCleared, At, OneOK
  <2>2. FALSE \in BOOLEAN /\ "done" \in LatchPlaces /\ 0 \in 0 .. MaxSpurious
    BY DEF LatchPlaces
  <2> QED
    BY <1>1, <1>3, <2>1, <2>2 DEF SpuriousWakeup, At
<1>7. CASE SpuriousWakeup(l, Caller)
  <2>1. a.at[Caller] = "asleep" /\ a.woken + 1 \in 0 .. MaxSpurious
        /\ latch' = [latch EXCEPT ![l] = [count |-> a.count, isLock |-> a.isLock, at |-> [a.at EXCEPT ![Caller] = "awake"], woken |-> a.woken + 1]]
    BY <1>1, <1>7 DEF SpuriousWakeup, At
  <2>2. PICK w : w = a.woken + 1
    OBVIOUS
  <2>3. "awake" \in LatchPlaces
    BY DEF LatchPlaces
  <2>4. w \in 0 .. MaxSpurious
        /\ latch' = [latch EXCEPT ![l] = [count |-> a.count, isLock |-> a.isLock, at |-> [a.at EXCEPT ![Caller] = "awake"], woken |-> w]]
    BY <2>1, <2>2
  <2> HIDE DEF a
  <2>5. /\ latch' \in [Latches -> LatchType] /\ LatchOK'
        /\ \A m \in Latches : m # l => latch'[m] = latch[m]
        /\ At(l, Made)' = At(l, Made)
    <3>1. a.at[Caller] # "done" /\ "awake" \notin {"asleep", "unlock", "done", "test"}
      BY <2>1
    <3> QED
      BY <1>2, <1>3, <2>3, <2>4, <3>1
  <2> QED
    BY <2>1, <2>5 DEF At, a
<1> QED
  BY <1>4, <1>5, <1>6, <1>7 DEF WaitStep

\* Countdown, which wakes who sleeps.
LEMMA CountdownKeeps ==
  ASSUME latch \in [Latches -> LatchType], LatchOK, NEW l \in Latches, CountdownStep(l, Made)
  PROVE  /\ latch' \in [Latches -> LatchType] /\ LatchOK'
         /\ \A m \in Latches : m # l => latch'[m] = latch[m]
         /\ \/ At(l, Made) = "out" /\ At(l, Made)' = "unlock"
            \/ At(l, Made) = "unlock" /\ At(l, Made)' = "done"
         /\ At(l, Caller)' = At(l, Caller) \/ (At(l, Caller) = "asleep" /\ At(l, Caller)' = "awake")
<1> DEFINE a == latch[l]
<1>1. /\ a.count \in 0 .. 1 /\ a.at \in [LatchUsers -> LatchPlaces] /\ a.woken \in 0 .. MaxSpurious
      /\ OneOK(a) /\ a = [count |-> a.count, isLock |-> a.isLock, at |-> a.at, woken |-> a.woken]
  BY DEF LatchType, LatchOK, OneOK, At
<1>2. CASE Countdown(l, Made)
  <2> DEFINE q == [u \in LatchUsers |-> IF u = Made THEN "unlock"
                                        ELSE IF a.at[u] = "asleep" /\ a.count = 1 THEN "awake" ELSE a.at[u]]
             k == [count |-> a.count - 1, isLock |-> TRUE, at |-> q, woken |-> a.woken]
  <2>1. a.at[Made] = "out" /\ a.at[Caller] # "test"
    BY <1>2 DEF Countdown, At, Unlocked
  <2>2. latch' = [latch EXCEPT ![l] = k]
    BY <1>1, <1>2 DEF Countdown, At
  <2>3. a.count = 1 /\ a.at[Caller] \notin {"unlock", "done"}
    BY <1>1, <2>1 DEF OneOK
  <2>4. /\ q \in [LatchUsers -> LatchPlaces] /\ q[Made] = "unlock"
        /\ q[Caller] = IF a.at[Caller] = "asleep" THEN "awake" ELSE a.at[Caller]
    BY <1>1, <2>3 DEF LatchPlaces
  <2> HIDE DEF q
  <2>5. k \in LatchType
    BY <1>1, <2>3, <2>4 DEF LatchType
  <2>6. OneOK(k)
    BY <2>1, <2>3, <2>4 DEF OneOK
  <2>7. k.at = q
    OBVIOUS
  <2> HIDE DEF k
  <2> QED
    <3>1. /\ latch' \in [Latches -> LatchType] /\ LatchOK'
          /\ \A m \in Latches : latch'[m] = IF m = l THEN k ELSE latch[m]
      BY <2>2, <2>5, <2>6, LatchStep
    <3>2. latch'[l].at = q
      BY <2>7, <3>1
    <3>3. At(l, Made) = "out" /\ At(l, Made)' = "unlock"
      BY <2>1, <2>4, <3>2 DEF At
    <3>4. At(l, Caller)' = At(l, Caller) \/ (At(l, Caller) = "asleep" /\ At(l, Caller)' = "awake")
      BY <2>4, <3>2 DEF At
    <3> QED
      BY <3>1, <3>3, <3>4
<1>3. CASE FlagCleared(l, Made)
  <2> DEFINE k == [count |-> a.count, isLock |-> FALSE, at |-> [a.at EXCEPT ![Made] = "done"], woken |-> 0]
  <2>1. a.at[Made] = "unlock" /\ latch' = [latch EXCEPT ![l] = k]
    BY <1>1, <1>3 DEF FlagCleared, At
  <2>2. k \in LatchType /\ k.at[Made] = "done" /\ k.at[Caller] = a.at[Caller]
    BY <1>1 DEF LatchType, LatchPlaces
  <2>3. OneOK(k)
    BY <1>1, <2>1, <2>2 DEF OneOK
  <2> HIDE DEF k
  <2> QED
    <3>1. /\ latch' \in [Latches -> LatchType] /\ LatchOK'
          /\ \A m \in Latches : latch'[m] = IF m = l THEN k ELSE latch[m]
      BY <2>1, <2>2, <2>3, LatchStep
    <3>2. latch'[l] = k
      BY <3>1
    <3>3. At(l, Made) = "unlock" /\ At(l, Made)' = "done" /\ At(l, Caller)' = At(l, Caller)
      BY <2>1, <2>2, <3>2 DEF At
    <3> QED
      BY <3>1, <3>3
<1> QED
  BY <1>2, <1>3 DEF CountdownStep

-----------------------------------------------------------------------------
(***************************************************************************)
(* Lists of line numbers, and the lines of a list of buffers.              *)
(***************************************************************************)
Up(q) == \A j, k \in DOMAIN q : j < k => q[j] < q[k]

\* Two lists in a row ascend if both do and the first one is below the second.
LEMMA UpConcat ==
  ASSUME NEW p \in Seq(Nat), NEW q \in Seq(Nat)
  PROVE  Up(p \o q) <=> Up(p) /\ Up(q) /\ \A x \in Range(p), y \in Range(q) : x < y
<1>1. /\ DOMAIN p = 1 .. Len(p) /\ Len(p) \in Nat /\ DOMAIN q = 1 .. Len(q) /\ Len(q) \in Nat
      /\ DOMAIN (p \o q) = 1 .. Len(p) + Len(q)
      /\ \A j \in 1 .. Len(p) : (p \o q)[j] = p[j]
      /\ \A j \in Len(p) + 1 .. Len(p) + Len(q) : (p \o q)[j] = q[j - Len(p)]
  OBVIOUS
<1>2. \A j \in 1 .. Len(q) : Len(p) + j \in Len(p) + 1 .. Len(p) + Len(q) /\ (p \o q)[Len(p) + j] = q[j]
  BY <1>1
<1>3. ASSUME Up(p \o q) PROVE Up(p) /\ Up(q) /\ \A x \in Range(p), y \in Range(q) : x < y
  <2>1. Up(p)
    <3> SUFFICES ASSUME NEW j \in 1 .. Len(p), NEW k \in 1 .. Len(p), j < k PROVE p[j] < p[k]
      BY <1>1 DEF Up
    <3>1. j \in 1 .. Len(p) + Len(q) /\ k \in 1 .. Len(p) + Len(q)
      BY <1>1
    <3>2. (p \o q)[j] < (p \o q)[k]
      BY <1>1, <1>3, <3>1 DEF Up
    <3> QED
      BY <1>1, <3>2
  <2>2. Up(q)
    <3> SUFFICES ASSUME NEW j \in 1 .. Len(q), NEW k \in 1 .. Len(q), j < k PROVE q[j] < q[k]
      BY <1>1 DEF Up
    <3>1. Len(p) + j \in 1 .. Len(p) + Len(q) /\ Len(p) + k \in 1 .. Len(p) + Len(q) /\ Len(p) + j < Len(p) + k
      BY <1>1
    <3>2. (p \o q)[Len(p) + j] < (p \o q)[Len(p) + k]
      BY <1>1, <1>3, <3>1 DEF Up
    <3> QED
      BY <1>2, <3>2
  <2>3. ASSUME NEW x \in Range(p), NEW y \in Range(q) PROVE x < y
    <3>1. PICK j \in 1 .. Len(p) : x = p[j]
      BY <1>1 DEF Range
    <3>2. PICK k \in 1 .. Len(q) : y = q[k]
      BY <1>1 DEF Range
    <3>3. j \in 1 .. Len(p) + Len(q) /\ Len(p) + k \in 1 .. Len(p) + Len(q) /\ j < Len(p) + k
      BY <1>1
    <3>4. (p \o q)[j] < (p \o q)[Len(p) + k]
      BY <1>1, <1>3, <3>3 DEF Up
    <3> QED
      BY <1>1, <1>2, <3>1, <3>2, <3>4
  <2> QED
    BY <2>1, <2>2, <2>3
<1>4. ASSUME Up(p), Up(q), \A x \in Range(p), y \in Range(q) : x < y PROVE Up(p \o q)
  <2> SUFFICES ASSUME NEW j \in 1 .. Len(p) + Len(q), NEW k \in 1 .. Len(p) + Len(q), j < k
               PROVE  (p \o q)[j] < (p \o q)[k]
    BY <1>1 DEF Up
  <2>1. CASE k <= Len(p)
    <3>1. j \in 1 .. Len(p) /\ k \in 1 .. Len(p)
      BY <1>1, <2>1
    <3>2. p[j] < p[k]
      BY <1>1, <1>4, <3>1 DEF Up
    <3> QED
      BY <1>1, <3>1, <3>2
  <2>2. CASE j > Len(p)
    <3>1. j - Len(p) \in 1 .. Len(q) /\ k - Len(p) \in 1 .. Len(q) /\ j - Len(p) < k - Len(p)
      BY <1>1, <2>2
    <3>2. q[j - Len(p)] < q[k - Len(p)]
      BY <1>1, <1>4, <3>1 DEF Up
    <3> QED
      BY <1>1, <2>2, <3>2
  <2>3. CASE j <= Len(p) /\ k > Len(p)
    <3>1. j \in 1 .. Len(p) /\ k - Len(p) \in 1 .. Len(q)
      BY <1>1, <2>3
    <3>2. p[j] \in Range(p) /\ q[k - Len(p)] \in Range(q)
      BY <1>1, <3>1 DEF Range
    <3>3. p[j] < q[k - Len(p)]
      BY <1>4, <3>2
    <3> QED
      BY <1>1, <2>3, <3>3
  <2> QED
    BY <1>1, <2>1, <2>2, <2>3
<1> QED
  BY <1>3, <1>4

LineNos == 1 .. MaxLines

\* The lines of buffers are a list of lines.
LEMMA LinesType ==
  ASSUME NEW bs \in Seq(Buffer)
  PROVE  [k \in DOMAIN bs |-> bs[k].lines] \in Seq(Seq(LineNos)) /\ Lines(bs) \in Seq(LineNos)
<1>1. \A k \in DOMAIN bs : bs[k].lines \in Seq(LineNos)
  <2> TAKE k \in DOMAIN bs
  <2>1. bs[k] \in Buffer
    OBVIOUS
  <2> QED
    BY <2>1 DEF Buffer, LineNos
<1>2. [k \in DOMAIN bs |-> bs[k].lines] \in Seq(Seq(LineNos))
  BY <1>1
<1> QED
  BY <1>2, FlattenRange DEF Lines

\* The lines of two lists of buffers.
LEMMA LinesConcat ==
  ASSUME NEW p \in Seq(Buffer), NEW q \in Seq(Buffer)
  PROVE  Lines(p \o q) = Lines(p) \o Lines(q)
<1> DEFINE P == [k \in DOMAIN p |-> p[k].lines]
           Q == [k \in DOMAIN q |-> q[k].lines]
<1>1. P \in Seq(Seq(LineNos)) /\ Q \in Seq(Seq(LineNos))
  BY LinesType
<1>2. [k \in DOMAIN (p \o q) |-> (p \o q)[k].lines] = P \o Q
  <2>1. DOMAIN P = 1 .. Len(p) /\ DOMAIN Q = 1 .. Len(q) /\ Len(P) = Len(p) /\ Len(Q) = Len(q)
    OBVIOUS
  <2>2. DOMAIN (P \o Q) = 1 .. Len(p) + Len(q) /\ DOMAIN (p \o q) = 1 .. Len(p) + Len(q)
    BY <1>1, <2>1
  <2>3. ASSUME NEW k \in 1 .. Len(p) + Len(q) PROVE (P \o Q)[k] = (p \o q)[k].lines
    <3>1. CASE k <= Len(p)
      <4>1. (P \o Q)[k] = P[k] /\ (p \o q)[k] = p[k] /\ k \in DOMAIN p
        BY <1>1, <2>1, <3>1
      <4> QED
        BY <4>1
    <3>2. CASE k > Len(p)
      <4>1. (P \o Q)[k] = Q[k - Len(p)] /\ (p \o q)[k] = q[k - Len(p)] /\ k - Len(p) \in DOMAIN q
        BY <1>1, <2>1, <3>2
      <4> QED
        BY <4>1
    <3> QED
      BY <3>1, <3>2
  <2> HIDE DEF P, Q
  <2>4. P \o Q = [k \in 1 .. Len(p) + Len(q) |-> (P \o Q)[k]]
    <3>0. P \o Q \in Seq(Seq(LineNos))
      BY <1>1
    <3>1. PICK r \in Seq(Seq(LineNos)) : r = P \o Q
      BY <3>0, Zenon
    <3>2. r = [k \in DOMAIN r |-> r[k]]
      OBVIOUS
    <3> QED
      BY <2>2, <3>1, <3>2
  <2> QED
    BY <2>2, <2>3, <2>4
<1> HIDE DEF P, Q
<1>3. FlattenSeq(P \o Q) = FlattenSeq(P) \o FlattenSeq(Q)
  BY <1>1, FlattenConcat
<1> QED
  BY <1>2, <1>3 DEF Lines, P, Q

\* The lines of one buffer.
LEMMA LinesOne ==
  ASSUME NEW b \in Buffer
  PROVE  Lines(<<b>>) = b.lines
<1>1. b.lines \in Seq(LineNos)
  BY DEF Buffer, LineNos
<1>2. [k \in DOMAIN <<b>> |-> <<b>>[k].lines] = <<b.lines>>
  OBVIOUS
<1>3. FlattenSeq(<<b.lines>>) = b.lines
  BY <1>1, FlattenOne
<1> QED
  BY <1>2, <1>3 DEF Lines

\* The lines of no buffer.
LEMMA LinesNone == Lines(<<>>) = <<>>
<1>1. [k \in DOMAIN <<>> |-> <<>>[k].lines] = <<>>
  OBVIOUS
<1> QED
  BY <1>1, FlattenNone DEF Lines

\* How the parts of the pipeline move along it.
Pipe(F, W, B, C) == F \o W \o B \o C

PipeLaw(F, W, B, C, x) ==
  /\ Pipe(F, B \o C, <<>>, <<>>) = Pipe(F, <<>>, B, C)
  /\ Pipe(F, W, B, C \o x) = Pipe(F, W, B, C) \o x
  /\ Pipe(F, W, B \o C, x) = Pipe(F, W, B, C) \o x
  /\ Pipe(F \o x, W, B, C) = Pipe(F, x \o W, B, C)
  /\ Pipe(F, W \o x, B, C) = (F \o W) \o x \o (B \o C)
  /\ Pipe(F, W, B, C) = (F \o W) \o (B \o C)
  /\ Pipe(F, W, B, C) \in Seq(Nat)

\* The pipeline is the same wherever a list in it is cut.
LEMMA PipeLaws ==
  ASSUME NEW F \in Seq(Nat), NEW W \in Seq(Nat), NEW B \in Seq(Nat), NEW C \in Seq(Nat), NEW x \in Seq(Nat)
  PROVE  PipeLaw(F, W, B, C, x)
<1> DEFINE c(p, q) == p \o q
           S == Seq(Nat)
<1>1. /\ <<>> \in S
      /\ \A p, q \in S : c(p, q) \in S
      /\ \A p, q, r \in S : c(c(p, q), r) = c(p, c(q, r))
      /\ \A p \in S : c(p, <<>>) = p
  BY NatConcat, Zenon
<1>2. F \in S /\ W \in S /\ B \in S /\ C \in S /\ x \in S
  OBVIOUS
<1>3. PICK e : e = <<>>
  OBVIOUS
<1>4. /\ c(c(c(F, c(B, C)), e), e) = c(c(c(F, e), B), C)
      /\ c(c(c(F, W), B), c(C, x)) = c(c(c(c(F, W), B), C), x)
      /\ c(c(c(F, W), c(B, C)), x) = c(c(c(c(F, W), B), C), x)
      /\ c(c(c(c(F, x), W), B), C) = c(c(c(F, c(x, W)), B), C)
      /\ c(c(c(F, c(W, x)), B), C) = c(c(c(F, W), x), c(B, C))
      /\ c(c(c(F, W), B), C) = c(c(F, W), c(B, C))
  <2>1. e \in S /\ \A p \in S : c(p, e) = p
    BY <1>1, <1>3
  <2> HIDE DEF c, S
  <2>2. c(F, c(B, C)) \in S /\ c(F, W) \in S /\ c(c(F, W), B) \in S
    BY <1>1, <1>2
  <2>3. c(c(c(F, c(B, C)), e), e) = c(c(c(F, e), B), C)
    BY <1>1, <1>2, <2>1, <2>2
  <2>4. c(c(c(F, W), B), c(C, x)) = c(c(c(c(F, W), B), C), x)
    BY <1>1, <1>2, <2>2
  <2>5. c(c(F, W), c(B, C)) = c(c(c(F, W), B), C)
    BY <1>1, <1>2, <2>2
  <2>6. c(F, c(x, W)) = c(c(F, x), W)
    BY <1>1, <1>2
  <2>7. c(c(c(F, c(W, x)), B), C) = c(c(c(F, W), x), c(B, C))
    <3>1. c(F, c(W, x)) = c(c(F, W), x) /\ c(c(F, W), x) \in S
      BY <1>1, <1>2, <2>2
    <3> QED
      BY <1>1, <1>2, <3>1
  <2> QED
    BY <2>3, <2>4, <2>5, <2>6, <2>7
<1>5. c(c(c(F, W), B), C) \in S
  <2> HIDE DEF c, S
  <2> QED
    BY <1>1, <1>2
<1> QED
  BY <1>3, <1>4, <1>5 DEF Pipe, PipeLaw

\* A part that is dropped out of the middle.
LEMMA UpDrop ==
  ASSUME NEW p \in Seq(Nat), NEW d \in Seq(Nat), NEW q \in Seq(Nat), Up(p \o d \o q)
  PROVE  /\ Up(p \o q) /\ Range(d) \subseteq Range(p \o d \o q)
         /\ Range(p \o q) = Range(p \o d \o q) \ Range(d)
<1>1. p \o d \in Seq(Nat) /\ Range(p \o d) = Range(p) \cup Range(d)
  BY ConcatList
<1>2. Up(p \o d) /\ Up(q) /\ \A x \in Range(p \o d), y \in Range(q) : x < y
  BY <1>1, UpConcat
<1>3. Up(p) /\ Up(d) /\ \A x \in Range(p), y \in Range(d) : x < y
  BY <1>2, UpConcat
<1>4. Up(p \o q)
  BY <1>1, <1>2, <1>3, UpConcat
<1>5. Range(p \o d \o q) = Range(p) \cup Range(d) \cup Range(q) /\ Range(p \o q) = Range(p) \cup Range(q)
  <2>1. PICK r \in Seq(Nat) : r = p \o d
    BY <1>1
  <2>2. Range(r \o q) = Range(r) \cup Range(q)
    BY ConcatList
  <2>3. Range(p \o q) = Range(p) \cup Range(q)
    BY ConcatList
  <2> QED
    BY <1>1, <2>1, <2>2, <2>3
<1>6. Range(p) \subseteq Nat /\ Range(q) \subseteq Nat /\ Range(d) \subseteq Nat
  BY DEF Range
<1>7. Range(p) \cap Range(d) = {} /\ Range(d) \cap Range(q) = {}
  <2>1. ASSUME NEW x \in Range(d), x \in Range(p) PROVE FALSE
    <3>1. x < x /\ x \in Nat
      BY <1>3, <1>6, <2>1
    <3> QED
      BY <3>1
  <2>2. ASSUME NEW x \in Range(d), x \in Range(q) PROVE FALSE
    <3>1. x < x /\ x \in Nat
      BY <1>1, <1>2, <1>6, <2>2
    <3> QED
      BY <3>1
  <2> QED
    BY <2>1, <2>2
<1> QED
  BY <1>4, <1>5, <1>7

\* A line more at the end.
LEMMA UpMore ==
  ASSUME NEW p \in Seq(Nat), NEW n \in Nat, Up(p), \A x \in Range(p) : x < n
  PROVE  Up(p \o <<n>>) /\ Range(p \o <<n>>) = Range(p) \cup {n} /\ <<n>> \in Seq(Nat)
<1>1. <<n>> \in Seq(Nat) /\ Range(<<n>>) = {n}
  BY DEF Range
<1>2. Up(<<n>>)
  BY DEF Up
<1>3. Up(p \o <<n>>)
  <2>1. PICK q \in Seq(Nat) : q = <<n>>
    BY <1>1
  <2>2. Up(q) /\ Range(q) = {n}
    BY <1>1, <1>2, <2>1
  <2>3. \A x \in Range(p), y \in Range(q) : x < y
    BY <2>2
  <2>4. Up(p \o q)
    BY <2>2, <2>3, UpConcat
  <2> QED
    BY <2>1, <2>4
<1>4. Range(p \o <<n>>) = Range(p) \cup {n}
  <2>1. PICK q \in Seq(Nat) : q = <<n>>
    BY <1>1
  <2>2. Range(p \o q) = Range(p) \cup Range(q)
    BY ConcatList
  <2> QED
    BY <1>1, <2>1, <2>2
<1> QED
  BY <1>1, <1>3, <1>4

-----------------------------------------------------------------------------
(***************************************************************************)
(* Steps that leave the buffers alone.                                     *)
(***************************************************************************)
QuietPlaces == {"new", "test", "enter", "wait", "end", "done"}

\* The pipeline as the four lists it is made of.
LEMMA PipeParts ==
  ASSUME BuffersOK, CountOK, pc \in Places
  PROVE  /\ Unwritten \in Seq(Buffer)
         /\ file \in Seq(Nat) /\ Lines(Unwritten) \in Seq(Nat) /\ Lines(Buffers) \in Seq(Nat)
         /\ Current_Buffer.lines \in Seq(Nat)
         /\ InOrder <=> Range(Pipeline) = (1 .. lines) \ dropped /\ Up(Pipeline)
<1>1. Unwritten \in Seq(Buffer)
  <2>1. CASE pc \in {"write", "self"}
    <3>1. i \in 1 .. Len(Buffer_To_Write) + 1 /\ Buffer_To_Write \in Seq(Buffer)
      BY <2>1 DEF CountOK, BuffersOK
    <3>2. SubSeq(Buffer_To_Write, i, Len(Buffer_To_Write)) \in Seq(Buffer)
      BY <3>1
    <3> QED
      BY <2>1, <3>2 DEF Unwritten
  <2>2. CASE pc \notin {"write", "self"}
    BY <2>2 DEF Unwritten, BuffersOK
  <2> QED
    BY <2>1, <2>2
<1>2. LineNos \subseteq Nat /\ \A s \in Seq(LineNos) : s \in Seq(Nat)
  BY DEF LineNos
<1>3. Lines(Unwritten) \in Seq(LineNos) /\ Lines(Buffers) \in Seq(LineNos)
  BY <1>1, LinesType DEF BuffersOK
<1>4. Current_Buffer.lines \in Seq(LineNos) /\ file \in Seq(LineNos)
  BY DEF BuffersOK, Buffer, LineNos
<1> QED
  BY <1>1, <1>2, <1>3, <1>4 DEF InOrder, Up

\* Steps of the back end between its critical section and its loops.
LEMMA QuietBack ==
  ASSUME BuffersOK, SparesOK, CountOK, InOrder, pc \in Places,
         UNCHANGED <<Current_Buffer, Next_Buffer, Buffers, lines, local, i, count, file, dropped>>,
         flushed' = flushed \/ flushed' = Len(file),
         pc' = pc \/ (pc \in QuietPlaces /\ pc' \in QuietPlaces)
  PROVE  BuffersOK' /\ SparesOK' /\ CountOK' /\ InOrder'
<1>1. UNCHANGED <<newBuffer1, newBuffer2, Buffer_To_Write>>
  BY DEF local
<1>2. BuffersOK'
  BY <1>1 DEF BuffersOK
<1>3. SparesOK'
  <2>1. NumNull' = NumNull
    BY <1>1 DEF NumNull
  <2>2. CASE pc' = pc
    BY <1>1, <2>1, <2>2 DEF SparesOK
  <2>3. CASE pc \in QuietPlaces /\ pc' \in QuietPlaces
    <3>1. newBuffer1 = EmptyBuffer /\ newBuffer2 = EmptyBuffer /\ Buffer_To_Write = <<>>
          /\ (Next_Buffer = Null => Buffers # <<>>)
      BY <2>3 DEF SparesOK, QuietPlaces
    <3> QED
      BY <1>1, <2>3, <3>1 DEF SparesOK, QuietPlaces
  <2> QED
    BY <2>2, <2>3
<1>4. CountOK'
  <2>1. Len(file) \in Nat /\ flushed' \in 0 .. Len(file)
    BY DEF CountOK, BuffersOK
  <2> QED
    BY <1>1, <2>1 DEF CountOK, QuietPlaces
<1>5. InOrder'
  <2>1. Unwritten' = Unwritten
    BY <1>1 DEF Unwritten, QuietPlaces
  <2>2. Pipeline' = Pipeline
    BY <2>1 DEF Pipeline, Lines
  <2> QED
    BY <2>2 DEF InOrder
<1> QED
  BY <1>2, <1>3, <1>4, <1>5

\* Steps that do not concern the start of the thread.
LEMMA QuietStart ==
  ASSUME PlacesOK, FlagsOK, LatchOK, StartOK, UNCHANGED <<thread, caller, running>>, pc' \in Places,
         pc' = "new" <=> pc = "new", pc' = "done" <=> pc = "done"
  PROVE  PlacesOK' /\ FlagsOK' /\ LatchOK' /\ StartOK'
<1>1. UNCHANGED <<latch, start_, join_, tid_, life>>
  BY DEF thread
<1> QED
  BY <1>1 DEF PlacesOK, FlagsOK, LatchOK, StartOK, At

\* Steps of other threads than those in output.
LEMMA QuietOutput ==
  ASSUME OutputOK, UNCHANGED <<menu, outputs, lines>>,
         caller \in {"up", "stopping", "down"} => caller' \in {"up", "stopping", "down"}
  PROVE  OutputOK'
  BY DEF OutputOK, outputs

(***************************************************************************)
(* A line is made by one insertion after the other: what FoldLeft computes *)
(* is the last of the buffers on the way.  FoldLeft takes the largest      *)
(* index out of a set of them in each step; such a function exists for the *)
(* sets of indices up to any m.                                            *)
(***************************************************************************)
Folded(s, f, m) ==
  [t \in SUBSET (1 .. m) |-> IF t = {} THEN EmptyBuffer ELSE Insert(f[t \ {Max(t)}], s[Max(t)])]

\* The largest number of a set that has one.
LEMMA MaxIs ==
  ASSUME NEW t, t \subseteq Int, NEW k \in t, \A y \in t : y <= k
  PROVE  Max(t) = k
<1>1. \E x \in t : \A y \in t : x >= y
  OBVIOUS
<1>2. Max(t) \in t /\ \A y \in t : Max(t) >= y
  BY <1>1 DEF Max
<1>3. Max(t) >= k /\ Max(t) <= k /\ Max(t) \in Int /\ k \in Int
  BY <1>2
<1> QED
  BY <1>3

\* The function by which FoldLeft is defined exists.
LEMMA FoldExists ==
  ASSUME NEW s, NEW m \in Nat
  PROVE  \E f : f = Folded(s, f, m)
<1> DEFINE S == {k \in Nat : \E f : f = Folded(s, f, k)}
<1>1. 0 \in S
  <2> DEFINE f == [t \in SUBSET (1 .. 0) |-> EmptyBuffer]
  <2>1. \A t \in SUBSET (1 .. 0) : t = {}
    OBVIOUS
  <2>2. f = Folded(s, f, 0)
    BY <2>1 DEF Folded
  <2> QED
    BY <2>2
<1>2. ASSUME NEW k \in Nat, k \in S PROVE k + 1 \in S
  <2>1. PICK f : f = Folded(s, f, k)
    BY <1>2
  <2> DEFINE g == [t \in SUBSET (1 .. k + 1) |->
                     IF k + 1 \in t THEN Insert(f[t \ {k + 1}], s[k + 1]) ELSE f[t]]
             h(t) == IF t = {} THEN EmptyBuffer ELSE Insert(g[t \ {Max(t)}], s[Max(t)])
  <2>2. ASSUME NEW t \in SUBSET (1 .. k + 1) PROVE g[t] = h(t)
    <3>1. CASE k + 1 \in t
      <4>1. t \subseteq Int /\ \A y \in t : y <= k + 1
        OBVIOUS
      <4>2. Max(t) = k + 1 /\ t # {}
        BY <3>1, <4>1, MaxIs
      <4>3. t \ {k + 1} \in SUBSET (1 .. k + 1) /\ k + 1 \notin t \ {k + 1}
        OBVIOUS
      <4>4. g[t \ {k + 1}] = f[t \ {k + 1}]
        BY <4>3
      <4>5. g[t] = Insert(f[t \ {k + 1}], s[k + 1])
        BY <3>1
      <4> QED
        BY <4>2, <4>4, <4>5
    <3>2. CASE k + 1 \notin t
      <4>1. t \in SUBSET (1 .. k) /\ g[t] = f[t]
        BY <3>2
      <4>2. f[t] = IF t = {} THEN EmptyBuffer ELSE Insert(f[t \ {Max(t)}], s[Max(t)])
        BY <2>1, <4>1 DEF Folded
      <4>3. t \ {Max(t)} \in SUBSET (1 .. k + 1) /\ k + 1 \notin t \ {Max(t)}
        BY <3>2
      <4>4. g[t \ {Max(t)}] = f[t \ {Max(t)}]
        BY <4>3
      <4> QED
        BY <4>1, <4>2, <4>4
    <3> QED
      BY <3>1, <3>2
  <2>3. g = [t \in SUBSET (1 .. k + 1) |-> g[t]]
    OBVIOUS
  <2>4. g = Folded(s, g, k + 1)
    <3> HIDE DEF g
    <3> QED
      BY <2>2, <2>3 DEF Folded
  <2> HIDE DEF g
  <2> QED
    BY <2>4
<1> HIDE DEF S
<1>3. Nat \subseteq S
  BY <1>1, <1>2, NatSetInduction
<1> QED
  BY <1>3 DEF S

\* What one insertion preserves, a whole line does.
LEMMA FoldKeeps ==
  ASSUME NEW T, NEW s \in Seq(T), NEW G, EmptyBuffer \in G,
         \A b \in G, op \in T : Insert(b, op) \in G
  PROVE  FoldLeft(Insert, EmptyBuffer, s) \in G
<1> DEFINE n == Len(s)
           h == CHOOSE f : f = Folded(s, f, n)
<1>1. n \in Nat /\ DOMAIN s = 1 .. n /\ \A j \in 1 .. n : s[j] \in T
  OBVIOUS
<1>2. h = Folded(s, h, n)
  BY <1>1, FoldExists
<1>3. FoldLeft(Insert, EmptyBuffer, s) = h[1 .. n]
  BY <1>1 DEF FoldLeft, MapThenFoldSet, Folded
<1> HIDE DEF h, n
<1>4. \A t \in SUBSET (1 .. n) : h[t] = IF t = {} THEN EmptyBuffer ELSE Insert(h[t \ {Max(t)}], s[Max(t)])
  BY <1>2 DEF Folded
<1> DEFINE S == {k \in Nat : k <= n => h[1 .. k] \in G}
<1>5. 0 \in S
  <2>1. {} \in SUBSET (1 .. n) /\ 1 .. 0 = {}
    OBVIOUS
  <2> QED
    BY <1>4, <2>1
<1>6. ASSUME NEW k \in Nat, k \in S PROVE k + 1 \in S
  <2> SUFFICES ASSUME k + 1 <= n PROVE h[1 .. k + 1] \in G
    OBVIOUS
  <2>1. PICK t : t = 1 .. k + 1
    OBVIOUS
  <2>2. t \in SUBSET (1 .. n) /\ t # {} /\ t \ {k + 1} = 1 .. k /\ t \subseteq Int /\ k + 1 \in t /\ \A y \in t : y <= k + 1
    <3>1. t \ {k + 1} = 1 .. k
      BY <2>1
    <3>2. t \in SUBSET (1 .. n) /\ k + 1 \in t
      BY <1>1, <2>1
    <3>3. t \subseteq Int /\ \A y \in t : y <= k + 1
      BY <2>1
    <3>4. t # {}
      BY <3>2
    <3> QED
      BY <3>1, <3>2, <3>3, <3>4
  <2>3. Max(t) = k + 1
    BY <2>2, MaxIs
  <2>4. h[t] = Insert(h[1 .. k], s[k + 1])
    BY <1>4, <2>2, <2>3
  <2>5. h[1 .. k] \in G /\ s[k + 1] \in T
    BY <1>1, <1>6
  <2> QED
    BY <2>1, <2>4, <2>5
<1> HIDE DEF S
<1>7. Nat \subseteq S
  BY <1>5, <1>6, NatSetInduction
<1>8. n \in S
  BY <1>1, <1>7
<1> QED
  BY <1>1, <1>3, <1>8 DEF S

\* The larger of two numbers.
LEMMA MaxTwo ==
  ASSUME NEW a \in Int, NEW b \in Int
  PROVE  Max({a, b}) = IF a >= b THEN a ELSE b
<1>1. CASE a >= b
  <2>1. {a, b} \subseteq Int /\ a \in {a, b} /\ \A y \in {a, b} : y <= a
    BY <1>1
  <2>2. Max({a, b}) = a
    BY <2>1, MaxIs
  <2> QED
    BY <1>1, <2>2
<1>2. CASE ~(a >= b)
  <2>1. {a, b} \subseteq Int /\ b \in {a, b} /\ \A y \in {a, b} : y <= b
    BY <1>2
  <2>2. Max({a, b}) = b
    BY <2>1, MaxIs
  <2> QED
    BY <1>2, <2>2
<1> QED
  BY <1>1, <1>2

\* The end of what has been written stays where both its parts do.
LEMMA TopIn ==
  ASSUME NEW K \in Nat, NEW a \in 0 .. K, NEW b \in 0 .. K
  PROVE  Max({a, b}) \in 0 .. K
<1>1. a \in Int /\ b \in Int
  OBVIOUS
<1>2. Max({a, b}) = IF a >= b THEN a ELSE b
  BY <1>1, MaxTwo
<1> QED
  BY <1>2

\* What operator<< inserts, and what the constructor and the destructor do.
AllOps == Ops \cup {Op("string", 1), Op("string", 2), Op("number", 1)}

\* An insertion leaves a buffer of a LogStream in its bounds, whether or not there is room.
LEMMA InsertFits ==
  ASSUME NEW b \in Text, NEW op \in AllOps
  PROVE  Insert(b, op) \in Text
<1>1. b.len \in 0 .. KSMALLBUFFER - 1 /\ b.top \in 0 .. KSMALLBUFFER /\ b.lines = <<>> /\ KSMALLBUFFER \in Nat
  BY DEF Text
<1>2. ASSUME NEW n \in Nat, NEW z \in 0 .. 1, b.len + n + z <= KSMALLBUFFER, b.len + n < KSMALLBUFFER
      PROVE  Grow(b, n, z, <<>>) \in Text
  <2>1. PICK m \in 0 .. KSMALLBUFFER : m = b.len + n + z
    BY <1>1, <1>2
  <2>2. PICK t \in 0 .. KSMALLBUFFER : t = Max({b.top, m})
    BY <1>1, TopIn
  <2>3. Grow(b, n, z, <<>>) = [len |-> b.len + n, top |-> t, lines |-> <<>>]
    BY <1>1, <2>1, <2>2 DEF Grow
  <2>4. b.len + n \in 0 .. KSMALLBUFFER - 1
    BY <1>1, <1>2
  <2> QED
    BY <2>3, <2>4 DEF Text
<1>3. ASSUME NEW n \in 0 .. kMaxNumericSize - 1, NEW z \in 0 .. 1, HasRoom(b)
      PROVE  Grow(b, n, z, <<>>) \in Text
  <2>1. b.len + n + z <= KSMALLBUFFER /\ b.len + n < KSMALLBUFFER /\ n \in Nat
    BY <1>1, <1>3, NumbersFit DEF HasRoom, avail
  <2> QED
    BY <1>2, <2>1
<1>4. CASE op.kind = "string" /\ op.v \in Nat
  <2>1. Insert(b, op) = IF RoomFor(b, op.v) THEN Grow(b, op.v, 0, <<>>) ELSE b
    BY <1>4 DEF Insert, Append_
  <2>2. ASSUME RoomFor(b, op.v) PROVE Grow(b, op.v, 0, <<>>) \in Text
    <3>1. b.len + op.v + 0 <= KSMALLBUFFER /\ b.len + op.v < KSMALLBUFFER /\ 0 \in 0 .. 1
      BY <1>1, <1>4, <2>2 DEF RoomFor, avail
    <3>2. PICK n \in Nat : n = op.v
      BY <1>4
    <3> QED
      BY <1>2, <3>1, <3>2
  <2> QED
    BY <2>1, <2>2
<1>5. CASE op.kind = "number" /\ op.v \in Numbers \cup {1}
  <2>1. PICK n : n = TextLen(convert(op.v))
    OBVIOUS
  <2>2. n \in 0 .. kMaxNumericSize - 1 /\ 1 \in 0 .. 1
    BY <1>5, <2>1, NumbersFit
  <2>3. Insert(b, op) = IF HasRoom(b) THEN Grow(b, n, 1, <<>>) ELSE b
    BY <1>5, <2>1 DEF Insert, formatInteger
  <2> QED
    BY <1>3, <2>2, <2>3
<1>6. CASE op.kind = "pointer" /\ op.v \in Numbers \cap Nat
  <2>1. PICK n : n = Len(Digits(op.v, 16)) + 2
    OBVIOUS
  <2>2. n \in 0 .. kMaxNumericSize - 1 /\ 0 \in 0 .. 1
    BY <1>6, <2>1, NumbersFit
  <2>3. Insert(b, op) = IF HasRoom(b) THEN Grow(b, n, 0, <<>>) ELSE b
    BY <1>6, <2>1 DEF Insert, formatPointer
  <2> QED
    BY <1>3, <2>2, <2>3
<1>7. CASE op.kind = "double" /\ op.v \in Doubles
  <2>1. PICK n : n = op.v
    OBVIOUS
  <2>0. \A v \in Doubles : v \in 0 .. kMaxNumericSize - 1
    BY NumbersFit, Zenon
  <2>2. n \in 0 .. kMaxNumericSize - 1 /\ 1 \in 0 .. 1
    BY <1>7, <2>0, <2>1
  <2>3. Insert(b, op) = IF HasRoom(b) THEN Grow(b, n, 1, <<>>) ELSE b
    BY <1>7, <2>1 DEF Insert, formatDouble
  <2> QED
    BY <1>3, <2>2, <2>3
<1>8. \/ op.kind = "string" /\ op.v \in Nat
      \/ op.kind = "number" /\ op.v \in Numbers \cup {1}
      \/ op.kind = "pointer" /\ op.v \in Numbers \cap Nat
      \/ op.kind = "double" /\ op.v \in Doubles
  <2>1. Strings \subseteq Nat
    BY NumbersFit
  <2>2. \/ \E v \in Strings \cup {1, 2} : op = Op("string", v)
        \/ \E v \in Numbers \cup {1} : op = Op("number", v)
        \/ \E v \in Numbers \cap Nat : op = Op("pointer", v)
        \/ \E v \in Doubles : op = Op("double", v)
    BY Zenon DEF AllOps, Ops
  <2>3. \A k, v : Op(k, v).kind = k /\ Op(k, v).v = v
    BY DEF Op
  <2>4. \A v \in Strings \cup {1, 2} : v \in Nat
    BY <2>1
  <2>5. CASE \E v \in Strings \cup {1, 2} : op = Op("string", v)
    BY <2>3, <2>4, <2>5
  <2>6. CASE \E v \in Numbers \cup {1} : op = Op("number", v)
    BY <2>3, <2>6
  <2>7. CASE \E v \in Numbers \cap Nat : op = Op("pointer", v)
    BY <2>3, <2>7
  <2>8. CASE \E v \in Doubles : op = Op("double", v)
    BY <2>3, <2>8
  <2> QED
    BY <2>2, <2>5, <2>6, <2>7, <2>8
<1> QED
  BY <1>4, <1>5, <1>6, <1>7, <1>8

\* A whole line fits into its LogStream, and so into an empty buffer of the log.
LEMMA LineFits ==
  ASSUME NEW S \in SUBSET Ops, NEW ops \in BoundedSeq(S, MaxInserts)
  PROVE  Line(ops).buffer \in Text
<1>1. ops \in Seq(AllOps)
  BY DEF BoundedSeq, SeqOf, AllOps
<1>2. formatTime \in Seq(AllOps) /\ Tail_ \in Seq(AllOps)
  <2>1. Op("string", 1) \in AllOps /\ Op("string", 2) \in AllOps /\ Op("number", 1) \in AllOps
    BY DEF AllOps
  <2> QED
    BY <2>1 DEF formatTime, Tail_
<1>3. PICK s \in Seq(AllOps) : s = formatTime \o ops \o Tail_
  <2>1. PICK p \in Seq(AllOps) : p = formatTime \o ops
    BY <1>1, <1>2, ConcatList
  <2>2. p \o Tail_ \in Seq(AllOps)
    BY <1>2, ConcatList
  <2> QED
    BY <2>1, <2>2
<1>4. EmptyBuffer \in Text
  BY DEF EmptyBuffer, Text
<1>5. FoldLeft(Insert, EmptyBuffer, s) \in Text
  BY <1>4, InsertFits, FoldKeeps
<1>6. Line(ops).buffer = FoldLeft(Insert, EmptyBuffer, s)
  BY <1>3 DEF Line
<1> QED
  BY <1>5, <1>6

-----------------------------------------------------------------------------
(***************************************************************************)
(* The steps of the front end, and those of the start and the stop.        *)
(***************************************************************************)
\* A Logging object makes its line.
LEMMA LogKeeps ==
  ASSUME LogInv, NEW f \in Fronts, Log(f)
  PROVE  LogInv'
<1>1. /\ UNCHANGED <<thread, caller, running, Current_Buffer, Next_Buffer, Buffers, lines, local, pc, i, count, file,
                    flushed, dropped, menu, once>>
      /\ at' = [at EXCEPT ![f] = "once"]
  BY DEF Log, logVars, front, back, out
<1>2. PICK ops \in BoundedSeq(menu, MaxInserts) : line' = [line EXCEPT ![f] = Line(ops)]
  BY DEF Log
<1>3. pc \in Places
  BY DEF LogInv, PlacesOK
<1>4. BuffersOK' /\ SparesOK' /\ CountOK' /\ InOrder'
  BY <1>1, <1>3, QuietBack DEF LogInv
<1>5. PlacesOK' /\ FlagsOK' /\ LatchOK' /\ StartOK'
  BY <1>1, <1>3, QuietStart DEF LogInv
<1>6. OutputOK'
  <2>1. PICK S \in SUBSET Ops : S = menu
    BY DEF LogInv, OutputOK
  <2>2. Line(ops).buffer \in Text /\ Range(Line(ops).ops) \subseteq Ops
    <3>1. Line(ops).buffer \in Text
      BY <1>2, <2>1, LineFits
    <3>2. Range(ops) \subseteq S
      BY <1>2, <2>1 DEF BoundedSeq, SeqOf, Range
    <3> QED
      BY <2>1, <3>1, <3>2 DEF Line
  <2>3. PICK x : x = Line(ops)
    OBVIOUS
  <2>4. DOMAIN line' = Fronts /\ \A g \in Fronts : line'[g].buffer \in Text /\ Range(line'[g].ops) \subseteq Ops
    BY <1>2, <2>2, <2>3 DEF LogInv, OutputOK
  <2> QED
    BY <1>1, <2>4 DEF LogInv, OutputOK
<1> QED
  BY <1>4, <1>5, <1>6 DEF LogInv

\* A thread is the first in pthread_once, or has called start there.
LEMMA OnceKeeps ==
  ASSUME LogInv, NEW f \in Fronts, Once(f) \/ OnceReturns(f)
  PROVE  LogInv'
<1>1. /\ UNCHANGED <<thread, caller, running, Current_Buffer, Next_Buffer, Buffers, lines, local, pc, i, count, file,
                    flushed, dropped, menu, line>>
      /\ (once = "init" /\ once' = "busy") \/ (once' = "done" /\ caller = "up")
      /\ at' = [at EXCEPT ![f] = "start"] \/ at' = [at EXCEPT ![f] = "once"]
  <2>1. CASE Once(f)
    BY <2>1 DEF Once, thread_once, logVars, front, back, out
  <2>2. CASE OnceReturns(f)
    BY <2>2 DEF OnceReturns, logVars, front, back, out
  <2> QED
    BY <2>1, <2>2
<1>3. pc \in Places
  BY DEF LogInv, PlacesOK
<1>4. BuffersOK' /\ SparesOK' /\ CountOK' /\ InOrder'
  BY <1>1, <1>3, QuietBack DEF LogInv
<1>5. PlacesOK' /\ FlagsOK' /\ LatchOK' /\ StartOK'
  BY <1>1, <1>3, QuietStart DEF LogInv
<1>6. OutputOK'
  BY <1>1 DEF LogInv, OutputOK
<1> QED
  BY <1>4, <1>5, <1>6 DEF LogInv

\* What the steps of the start and the stop have in common.
LEMMA StartStep ==
  ASSUME LogInv, UNCHANGED <<Current_Buffer, Next_Buffer, Buffers, lines, local, i, count, file, dropped, menu, outputs>>,
         flushed' = flushed \/ flushed' = Len(file),
         pc' = pc \/ (pc \in QuietPlaces /\ pc' \in QuietPlaces),
         caller \in {"up", "stopping", "down"} => caller' \in {"up", "stopping", "down"},
         PlacesOK', FlagsOK', LatchOK', StartOK'
  PROVE  LogInv'
<1>1. pc \in Places
  BY DEF LogInv, PlacesOK
<1>2. BuffersOK' /\ SparesOK' /\ CountOK' /\ InOrder'
  BY <1>1, QuietBack DEF LogInv
<1>3. OutputOK'
  BY QuietOutput DEF LogInv
<1> QED
  BY <1>2, <1>3 DEF LogInv

\* start, up to the latches.
LEMMA StartKeeps ==
  ASSUME LogInv, NEW f \in Fronts, OnceStart(f)
  PROVE  LogInv'
<1>1. /\ UNCHANGED <<Current_Buffer, Next_Buffer, Buffers, lines, local, pc, i, count, file, flushed, dropped, menu, outputs,
                    latch, join_, tid_>>
      /\ caller = "new" /\ caller' = "starting" /\ running' = TRUE
      /\ \/ start_' = TRUE /\ life' = "born"
         \/ start_' = start_ /\ life' = life
  BY DEF OnceStart, start, Create, back, out
<1>2. start_ = FALSE /\ life = "none"
  BY <1>1 DEF LogInv, StartOK, FlagsOK
<1>3. PlacesOK' /\ FlagsOK' /\ LatchOK'
  BY <1>1, <1>2 DEF LogInv, PlacesOK, FlagsOK, LatchOK, At, Callers
<1>4. StartOK'
  BY <1>1, <1>2 DEF LogInv, StartOK, FlagsOK, At
<1> QED
  BY <1>1, <1>3, <1>4, StartStep

\* The two latches.
LEMMA StartLatchesKeep ==
  ASSUME LogInv, StartLatches, UNCHANGED <<menu, outputs>>
  PROVE  LogInv'
<1>1. /\ UNCHANGED <<running, Current_Buffer, Next_Buffer, Buffers, lines, local, pc, i, count, file, flushed, dropped>>
      /\ UNCHANGED <<start_, join_, tid_, life>>
  BY DEF StartLatches, StartWaits, front, back, out, thread
<1>2. CASE caller = "starting" /\ start_ /\ StartWaits /\ UNCHANGED caller
  <2>1. WaitStep(ThreadL, Caller)
    BY <1>2 DEF StartWaits
  <2>2. /\ latch' \in [Latches -> LatchType] /\ LatchOK' /\ latch'[LogL] = latch[LogL]
        /\ At(ThreadL, Made)' = At(ThreadL, Made)
    BY <2>1, WaitKeeps DEF LogInv, PlacesOK
  <2>3. PlacesOK' /\ FlagsOK'
    BY <1>1, <1>2, <2>2 DEF LogInv, PlacesOK, FlagsOK
  <2>4. StartOK'
    BY <1>1, <1>2, <2>2 DEF LogInv, StartOK, At
  <2> QED
    BY <1>1, <1>2, <2>2, <2>3, <2>4, StartStep
<1>3. CASE caller = "starting" /\ Started /\ caller' = "waiting" /\ UNCHANGED thread
  <2>1. UNCHANGED latch
    BY <1>3 DEF thread
  <2>2. PlacesOK' /\ FlagsOK' /\ LatchOK'
    BY <1>1, <1>3, <2>1 DEF LogInv, PlacesOK, FlagsOK, LatchOK, At, Callers
  <2>3. StartOK'
    BY <1>1, <1>3, <2>1 DEF LogInv, StartOK, At, Started
  <2> QED
    BY <1>1, <1>3, <2>2, <2>3, StartStep
<1>4. CASE /\ caller = "waiting" /\ WaitStep(LogL, Caller)
           /\ caller' = IF At(LogL, Caller)' = "done" THEN "up" ELSE "waiting"
  <2>1. /\ latch' \in [Latches -> LatchType] /\ LatchOK' /\ latch'[ThreadL] = latch[ThreadL]
        /\ At(LogL, Made)' = At(LogL, Made)
    BY <1>4, WaitKeeps DEF LogInv, PlacesOK
  <2>2. PlacesOK' /\ FlagsOK'
    BY <1>1, <1>4, <2>1 DEF LogInv, PlacesOK, FlagsOK, Callers
  <2>3. StartOK'
    <3>1. PICK c : c = At(LogL, Caller)'
      OBVIOUS
    <3>2. caller' = (IF c = "done" THEN "up" ELSE "waiting") /\ caller = "waiting"
      BY <1>4, <3>1
    <3>3. At(ThreadL, Caller)' = At(ThreadL, Caller) /\ At(ThreadL, Made)' = At(ThreadL, Made)
      BY <2>1 DEF At
    <3> QED
      BY <1>1, <2>1, <3>1, <3>2, <3>3 DEF LogInv, StartOK
  <2> QED
    BY <1>1, <1>4, <2>1, <2>2, <2>3, StartStep
<1> QED
  BY <1>2, <1>3, <1>4 DEF StartLatches

\* A wait that ends without a notify.
LEMMA SpuriousKeeps ==
  ASSUME LogInv, Spurious, UNCHANGED <<menu, outputs>>
  PROVE  LogInv'
<1>1. UNCHANGED <<running, Current_Buffer, Next_Buffer, Buffers, lines, local, pc, i, count, file, flushed, dropped,
                  start_, join_, tid_, life, caller>>
  BY DEF Spurious, front, back, out
<1>2. PICK l \in Latches : SpuriousWakeup(l, Caller)
  BY DEF Spurious
<1>3. /\ latch' \in [Latches -> LatchType] /\ LatchOK'
      /\ \A m \in Latches : m # l => latch'[m] = latch[m]
      /\ At(l, Made)' = At(l, Made) /\ At(l, Caller) = "asleep"
  BY <1>2, WaitKeeps DEF LogInv, PlacesOK
<1>4. PlacesOK' /\ FlagsOK'
  BY <1>1, <1>3 DEF LogInv, PlacesOK, FlagsOK
<1>5. StartOK'
  <2>1. At(ThreadL, Made)' = At(ThreadL, Made) /\ At(LogL, Made)' = At(LogL, Made)
    BY <1>3 DEF At
  <2>2. At(ThreadL, Caller) = "done" => At(ThreadL, Caller)' = "done"
    BY <1>3 DEF At
  <2>3. At(LogL, Caller) \in {"out", "done"} => At(LogL, Caller)' = At(LogL, Caller)
    BY <1>3 DEF At
  <2> QED
    BY <1>1, <2>1, <2>2, <2>3 DEF LogInv, StartOK
<1> QED
  BY <1>1, <1>3, <1>4, <1>5, StartStep

\* run_in_thread.
LEMMA RunInThreadKeeps ==
  ASSUME LogInv, run_in_thread, UNCHANGED <<caller, front, back>>, UNCHANGED <<menu, outputs>>
  PROVE  LogInv'
<1>1. UNCHANGED <<running, Current_Buffer, Next_Buffer, Buffers, lines, local, pc, i, count, file, flushed, dropped,
                  start_, join_, caller>>
  BY DEF run_in_thread, front, back, out
<1>2. CASE life = "born" /\ life' = "tid" /\ tid_' = TRUE /\ UNCHANGED latch
  <2>1. PlacesOK' /\ FlagsOK' /\ LatchOK'
    BY <1>1, <1>2 DEF LogInv, PlacesOK, FlagsOK, LatchOK, At
  <2>2. StartOK'
    BY <1>1, <1>2 DEF LogInv, StartOK, At
  <2> QED
    BY <1>1, <2>1, <2>2, StartStep
<1>3. CASE /\ life = "tid" /\ CountdownStep(ThreadL, Made)
           /\ life' = (IF At(ThreadL, Made)' = "done" THEN "func" ELSE "tid") /\ UNCHANGED tid_
  <2>1. /\ latch' \in [Latches -> LatchType] /\ LatchOK' /\ latch'[LogL] = latch[LogL]
        /\ \/ At(ThreadL, Made) = "out" /\ At(ThreadL, Made)' = "unlock"
           \/ At(ThreadL, Made) = "unlock" /\ At(ThreadL, Made)' = "done"
        /\ At(ThreadL, Caller)' = At(ThreadL, Caller) \/ (At(ThreadL, Caller) = "asleep" /\ At(ThreadL, Caller)' = "awake")
    BY <1>3, CountdownKeeps DEF LogInv, PlacesOK
  <2>2. PlacesOK' /\ FlagsOK'
    BY <1>1, <1>3, <2>1 DEF LogInv, PlacesOK, FlagsOK
  <2>3. StartOK'
    <3>1. At(LogL, Made)' = At(LogL, Made) /\ At(LogL, Caller)' = At(LogL, Caller)
      BY <2>1 DEF At
    <3> QED
      BY <1>1, <1>3, <2>1, <3>1 DEF LogInv, StartOK
  <2> QED
    BY <1>1, <2>1, <2>2, <2>3, StartStep
<1> QED
  BY <1>2, <1>3 DEF run_in_thread

\* The log thread counts L_ down.
LEMMA BeginKeeps ==
  ASSUME LogInv, Begin, UNCHANGED <<menu, outputs>>
  PROVE  LogInv'
<1>1. /\ UNCHANGED <<running, Current_Buffer, Next_Buffer, Buffers, lines, local, i, count, file, flushed, dropped,
                    start_, join_, tid_, life, caller>>
      /\ pc = "new" /\ life = "func" /\ CountdownStep(LogL, Made)
      /\ pc' = IF At(LogL, Made)' = "done" THEN "test" ELSE "new"
  BY DEF Begin, front, out
<1>2. /\ latch' \in [Latches -> LatchType] /\ LatchOK' /\ latch'[ThreadL] = latch[ThreadL]
      /\ At(LogL, Made)' \in {"unlock", "done"}
      /\ At(LogL, Caller)' = At(LogL, Caller) \/ (At(LogL, Caller) = "asleep" /\ At(LogL, Caller)' = "awake")
  BY <1>1, CountdownKeeps DEF LogInv, PlacesOK
<1>3. PlacesOK' /\ FlagsOK'
  BY <1>1, <1>2 DEF LogInv, PlacesOK, FlagsOK, Places
<1>4. StartOK'
  <2>1. At(ThreadL, Made)' = At(ThreadL, Made) /\ At(ThreadL, Caller)' = At(ThreadL, Caller)
    BY <1>2 DEF At
  <2> QED
    BY <1>1, <1>2, <2>1 DEF LogInv, StartOK
<1>5. pc \in QuietPlaces /\ pc' \in QuietPlaces
  BY <1>1 DEF QuietPlaces
<1> QED
  BY <1>1, <1>2, <1>3, <1>4, <1>5, StartStep

\* stop, the return of its join, and the last step of the log thread.
LEMMA StopKeeps ==
  ASSUME LogInv, stop \/ Joined \/ End, UNCHANGED <<menu, outputs>>
  PROVE  LogInv'
<1>1. CASE stop \/ Joined
  <2>1. /\ UNCHANGED <<Current_Buffer, Next_Buffer, Buffers, lines, local, pc, i, count, file, flushed, dropped,
                      latch, start_, tid_, life>>
        /\ \/ caller = "up" /\ caller' = "stopping" /\ running' = FALSE /\ join_' = TRUE
           \/ caller = "stopping" /\ caller' = "down" /\ life = "end" /\ running' = running /\ join_' = join_
    BY <1>1 DEF stop, Joined, join, front, back, out, thread
  <2>2. PlacesOK' /\ FlagsOK' /\ LatchOK'
    BY <2>1 DEF LogInv, PlacesOK, FlagsOK, LatchOK, At, Callers
  <2>3. StartOK'
    BY <2>1 DEF LogInv, StartOK, FlagsOK, At
  <2> QED
    BY <2>1, <2>2, <2>3, StartStep
<1>2. CASE End
  <2>1. /\ UNCHANGED <<running, Current_Buffer, Next_Buffer, Buffers, lines, local, i, count, file, dropped,
                      latch, start_, join_, tid_, caller>>
        /\ pc = "end" /\ pc' = "done" /\ life = "func" /\ life' = "end" /\ flushed' = Len(file)
    BY <1>2 DEF End, FuncReturns, front
  <2>2. PlacesOK' /\ FlagsOK' /\ LatchOK'
    BY <2>1 DEF LogInv, PlacesOK, FlagsOK, LatchOK, At, Places
  <2>3. StartOK'
    BY <2>1 DEF LogInv, StartOK, At
  <2>4. pc \in QuietPlaces /\ pc' \in QuietPlaces
    BY <2>1 DEF QuietPlaces
  <2> QED
    BY <2>1, <2>2, <2>3, <2>4, StartStep
<1> QED
  BY <1>1, <1>2

-----------------------------------------------------------------------------
(***************************************************************************)
(* The steps that move lines along.                                        *)
(***************************************************************************)
\* Steps of the pipeline leave the start and the stop alone.
LEMMA PipeStep ==
  ASSUME LogInv, UNCHANGED <<thread, caller, running, menu, outputs, lines>>, pc' \in Places \ {"new", "done"},
         pc \notin {"new", "done"}, BuffersOK', SparesOK', CountOK', InOrder'
  PROVE  LogInv'
<1>1. PlacesOK' /\ FlagsOK' /\ LatchOK' /\ StartOK'
  BY QuietStart DEF LogInv
<1>2. OutputOK'
  BY QuietOutput DEF LogInv
<1> QED
  BY <1>1, <1>2 DEF LogInv

\* A line that finds room is in the buffer.
LEMMA AppendBuffer ==
  ASSUME NEW b \in Buffer, NEW n \in Nat, RoomFor(b, n), NEW m \in 1 .. MaxLines
  PROVE  Append_(b, n, <<m>>) \in Buffer /\ Append_(b, n, <<m>>).lines = b.lines \o <<m>>
<1>1. b.len \in 0 .. KSMALLBUFFER /\ b.top \in 0 .. KSMALLBUFFER /\ b.lines \in Seq(1 .. MaxLines)
      /\ KSMALLBUFFER \in Nat
  BY DEF Buffer
<1>2. b.len + n \in 0 .. KSMALLBUFFER
  BY <1>1 DEF RoomFor, avail
<1>3. PICK k \in 0 .. KSMALLBUFFER : k = b.len + n
  BY <1>2
<1>4. PICK t \in 0 .. KSMALLBUFFER : t = Max({b.top, k})
  BY <1>1, TopIn
<1>5. PICK ls \in Seq(1 .. MaxLines) : ls = b.lines \o <<m>>
  <2>1. PICK q \in Seq(1 .. MaxLines) : q = b.lines
    BY <1>1
  <2>2. <<m>> \in Seq(1 .. MaxLines)
    OBVIOUS
  <2>3. q \o <<m>> \in Seq(1 .. MaxLines)
    BY <2>2, ConcatList
  <2> QED
    BY <2>1, <2>3
<1>6. b.len + n + 0 = k
  BY <1>1, <1>3
<1>7. Append_(b, n, <<m>>) = [len |-> k, top |-> t, lines |-> ls]
  BY <1>3, <1>4, <1>5, <1>6 DEF Append_, Grow
<1>8. [len |-> k, top |-> t, lines |-> ls] \in Buffer
  BY <1>3, <1>4, <1>5 DEF Buffer
<1>9. [len |-> k, top |-> t, lines |-> ls].lines = ls
  OBVIOUS
<1> QED
  BY <1>5, <1>7, <1>8, <1>9

\* append.
LEMMA AppendKeeps ==
  ASSUME LogInv, NEW f \in Fronts, AppendLine(f)
  PROVE  LogInv'
<1>1. PICK n : n = line[f].buffer.len
  OBVIOUS
<1>2. /\ running /\ lines < MaxLines /\ lines' = lines + 1 /\ once = "done"
      /\ UNCHANGED <<running, thread, caller, local, pc, i, count, file, flushed, dropped, menu, once>>
      /\ at' = [at EXCEPT ![f] = "idle"] /\ line' = [line EXCEPT ![f] = NoLine]
      /\ IF RoomFor(Current_Buffer, n)
         THEN /\ Current_Buffer' = Append_(Current_Buffer, n, <<lines + 1>>)
              /\ UNCHANGED <<Buffers, Next_Buffer>>
         ELSE /\ Buffers' = Append(Buffers, Current_Buffer)
              /\ Current_Buffer' =
                   Append_(IF Next_Buffer # Null THEN Next_Buffer ELSE EmptyBuffer, n, <<lines + 1>>)
              /\ Next_Buffer' = Null
  BY <1>1 DEF AppendLine, append, back, out
<1>3. /\ n \in 0 .. KSMALLBUFFER - 1 /\ n \in Nat /\ lines \in Nat /\ lines + 1 \in 1 .. MaxLines
      /\ dropped \subseteq 1 .. lines /\ pc \in Places
  <2>1. line[f].buffer \in Text
    BY DEF LogInv, OutputOK
  <2>2. n \in 0 .. KSMALLBUFFER - 1
    BY <1>1, <2>1 DEF Text
  <2> QED
    BY <1>2, <2>2 DEF LogInv, CountOK, PlacesOK
<1>4. PICK m \in 1 .. MaxLines : m = lines + 1
  BY <1>3
<1>5. PICK F, W, B, C : F = file /\ W = Lines(Unwritten) /\ B = Lines(Buffers) /\ C = Current_Buffer.lines
  OBVIOUS
<1>6. /\ F \in Seq(Nat) /\ W \in Seq(Nat) /\ B \in Seq(Nat) /\ C \in Seq(Nat)
      /\ Range(Pipeline) = (1 .. lines) \ dropped /\ Up(Pipeline) /\ Pipeline = Pipe(F, W, B, C)
  BY <1>3, <1>5, PipeParts DEF LogInv, Pipeline, Pipe
<1>7. PICK x \in Seq(Nat) : x = <<m>>
  <2>1. <<m>> \in Seq(Nat)
    OBVIOUS
  <2> QED
    BY <2>1
<1>8. Unwritten' = Unwritten
  BY <1>2 DEF Unwritten, local
<1>9. PipeLaw(F, W, B, C, x)
  BY <1>6, <1>7, PipeLaws
<1>10. BuffersOK' /\ SparesOK' /\ Pipeline' = Pipe(F, W, B, C) \o x
  <2>1. CASE RoomFor(Current_Buffer, n)
    <3>1. Current_Buffer \in Buffer
      BY DEF LogInv, BuffersOK
    <3>2. Current_Buffer' = Append_(Current_Buffer, n, <<m>>)
      BY <1>2, <1>4, <2>1
    <3>3. Current_Buffer' \in Buffer /\ Current_Buffer'.lines = C \o x
      BY <1>3, <1>5, <1>7, <2>1, <3>1, <3>2, AppendBuffer
    <3>4. BuffersOK' /\ SparesOK'
      BY <1>2, <2>1, <3>3 DEF LogInv, BuffersOK, SparesOK, NumNull, local
    <3>5. Pipeline' = Pipe(F, W, B, C \o x)
      BY <1>2, <1>5, <1>8, <2>1, <3>3 DEF Pipeline, Lines, Pipe
    <3>6. Pipe(F, W, B, C \o x) = Pipe(F, W, B, C) \o x
      BY <1>9 DEF PipeLaw
    <3> QED
      BY <3>4, <3>5, <3>6
  <2>2. CASE ~RoomFor(Current_Buffer, n)
    <3>1. EmptyBuffer \in Buffer /\ RoomFor(EmptyBuffer, n) /\ EmptyBuffer.lines = <<>>
      BY <1>3 DEF EmptyBuffer, Buffer, RoomFor, avail
    <3>2. Current_Buffer' = Append_(EmptyBuffer, n, <<m>>)
      <4>1. (IF Next_Buffer # Null THEN Next_Buffer ELSE EmptyBuffer) = EmptyBuffer
        BY DEF LogInv, BuffersOK
      <4> QED
        BY <1>2, <1>4, <2>2, <4>1
    <3>3. PICK e : e = EmptyBuffer
      OBVIOUS
    <3>4. Current_Buffer' \in Buffer /\ Current_Buffer'.lines = <<>> \o <<m>>
      BY <1>3, <3>1, <3>2, <3>3, AppendBuffer
    <3>5. <<>> \o <<m>> = <<m>>
      OBVIOUS
    <3>6. Buffers \in Seq(Buffer) /\ Current_Buffer \in Buffer
      BY DEF LogInv, BuffersOK
    <3>7. Buffers' \in Seq(Buffer) /\ Buffers' # <<>> /\ Buffers' = Buffers \o <<Current_Buffer>>
      BY <1>2, <2>2, <3>6, AppendIs
    <3>8. BuffersOK' /\ SparesOK'
      BY <1>2, <2>2, <3>4, <3>7 DEF LogInv, BuffersOK, SparesOK, NumNull, local
    <3>9. Lines(Buffers)' = B \o C
      <4>1. <<Current_Buffer>> \in Seq(Buffer)
        BY <3>6
      <4>2. Lines(Buffers \o <<Current_Buffer>>) = Lines(Buffers) \o Lines(<<Current_Buffer>>)
        BY <3>6, <4>1, LinesConcat
      <4>3. Lines(<<Current_Buffer>>) = Current_Buffer.lines
        BY <3>6, LinesOne
      <4>4. Lines(Buffers)' = Lines(Buffers \o <<Current_Buffer>>)
        BY <3>7 DEF Lines
      <4> QED
        BY <1>5, <4>2, <4>3, <4>4
    <3>10. Pipeline' = Pipe(F, W, B \o C, x)
      <4>1. Lines(Unwritten)' = W /\ file' = F /\ Current_Buffer'.lines = x
        BY <1>2, <1>5, <1>7, <1>8, <3>4, <3>5 DEF Lines
      <4> QED
        BY <3>9, <4>1 DEF Pipeline, Pipe
    <3>11. Pipe(F, W, B \o C, x) = Pipe(F, W, B, C) \o x
      BY <1>9 DEF PipeLaw
    <3> QED
      BY <3>8, <3>10, <3>11
  <2> QED
    BY <2>1, <2>2
<1>11. CountOK'
  <2>1. lines' \in 0 .. MaxLines /\ dropped \subseteq 1 .. lines'
    BY <1>2, <1>3
  <2> QED
    BY <1>2, <2>1 DEF LogInv, CountOK, local
<1>12. InOrder'
  <2>1. PICK p \in Seq(Nat) : p = Pipe(F, W, B, C)
    BY <1>9 DEF PipeLaw
  <2>2. Up(p) /\ \A y \in Range(p) : y < m
    BY <1>3, <1>4, <1>6, <2>1
  <2>3. m \in Nat
    OBVIOUS
  <2>4. Up(p \o <<m>>) /\ Range(p \o <<m>>) = Range(p) \cup {m}
    BY <2>2, <2>3, UpMore
  <2>5. Pipeline' = p \o <<m>>
    BY <1>7, <1>10, <2>1
  <2>6. (1 .. lines') \ dropped' = ((1 .. lines) \ dropped) \cup {m}
    BY <1>2, <1>3, <1>4
  <2> QED
    BY <1>6, <2>1, <2>4, <2>5, <2>6 DEF InOrder, Up
<1>13. PlacesOK' /\ FlagsOK' /\ LatchOK' /\ StartOK'
  BY <1>2, <1>3, QuietStart DEF LogInv
<1>14. OutputOK'
  <2>1. PICK e : e = NoLine
    OBVIOUS
  <2>2. e.buffer \in Text /\ Range(e.ops) \subseteq Ops
    BY <2>1 DEF NoLine, EmptyBuffer, Text, Range
  <2>3. DOMAIN line' = Fronts /\ \A g \in Fronts : line'[g].buffer \in Text /\ Range(line'[g].ops) \subseteq Ops
    BY <1>2, <2>1, <2>2 DEF LogInv, OutputOK
  <2> QED
    BY <1>2, <2>3 DEF LogInv, OutputOK
<1> QED
  BY <1>10, <1>11, <1>12, <1>13, <1>14 DEF LogInv

\* The back end takes the buffers.
LEMMA ExchangeKeeps ==
  ASSUME LogInv, Exchange, pc \in {"enter", "wait"}, UNCHANGED <<menu, outputs>>
  PROVE  LogInv'
<1>1. /\ Current_Buffer' = newBuffer1 /\ newBuffer1' = Null
      /\ Buffer_To_Write' = Append(Buffers, Current_Buffer) /\ Buffers' = Buffer_To_Write
      /\ IF Next_Buffer = Null THEN Next_Buffer' = newBuffer2 /\ newBuffer2' = Null
         ELSE UNCHANGED <<Next_Buffer, newBuffer2>>
      /\ pc' = "cut" /\ UNCHANGED <<running, lines, i, count, file, flushed, dropped, thread, caller>>
  BY DEF Exchange, out
<1>2. /\ newBuffer1 = EmptyBuffer /\ newBuffer2 = EmptyBuffer /\ Buffer_To_Write = <<>>
      /\ Next_Buffer = Null => Buffers # <<>>
  BY DEF LogInv, SparesOK
<1>3. Buffers \in Seq(Buffer) /\ Current_Buffer \in Buffer /\ Next_Buffer \in {EmptyBuffer, Null} /\ pc \in Places
  BY DEF LogInv, BuffersOK, PlacesOK
<1>4. /\ Buffer_To_Write' \in Seq(Buffer) /\ Buffer_To_Write' # <<>> /\ Len(Buffer_To_Write') = Len(Buffers) + 1
      /\ Buffer_To_Write' = Buffers \o <<Current_Buffer>>
  BY <1>1, <1>3, AppendIs
<1>5. EmptyBuffer \in Buffer /\ EmptyBuffer.lines = <<>>
  BY DEF EmptyBuffer, Buffer
<1>6. BuffersOK'
  <2>1. Current_Buffer' \in Buffer /\ Buffers' \in Seq(Buffer) /\ file' \in Seq(1 .. MaxLines)
    BY <1>1, <1>2, <1>5 DEF LogInv, BuffersOK
  <2> QED
    BY <1>1, <1>2, <1>3, <1>4, <2>1 DEF BuffersOK
<1>7. SparesOK'
  <2>1. Len(Buffers) \in Nat /\ (Buffers # <<>> => Len(Buffers) >= 1)
    BY <1>3
  <2>2. NumNull' = (IF Next_Buffer = Null THEN 2 ELSE 1) /\ Next_Buffer' = EmptyBuffer
    BY <1>1, <1>2, <1>3 DEF NumNull
  <2>3. Len(Buffer_To_Write') >= NumNull'
    BY <1>2, <1>4, <2>1, <2>2
  <2> QED
    BY <1>1, <1>4, <2>2, <2>3 DEF SparesOK
<1>8. CountOK'
  BY <1>1 DEF LogInv, CountOK
<1>9. InOrder'
  <2>1. PICK F, W, B, C : F = file /\ W = Lines(Unwritten) /\ B = Lines(Buffers) /\ C = Current_Buffer.lines
    OBVIOUS
  <2>2. /\ F \in Seq(Nat) /\ W \in Seq(Nat) /\ B \in Seq(Nat) /\ C \in Seq(Nat)
        /\ Range(Pipeline) = (1 .. lines) \ dropped /\ Up(Pipeline) /\ Pipeline = Pipe(F, W, B, C)
    BY <1>3, <2>1, PipeParts DEF LogInv, Pipeline, Pipe
  <2>3. W = <<>>
    BY <1>2, <2>1, LinesNone DEF Unwritten
  <2>4. Lines(Unwritten)' = B \o C
    <3>1. <<Current_Buffer>> \in Seq(Buffer)
      BY <1>3
    <3>2. Lines(Buffers \o <<Current_Buffer>>) = Lines(Buffers) \o Lines(<<Current_Buffer>>)
      BY <1>3, <3>1, LinesConcat
    <3>3. Lines(<<Current_Buffer>>) = Current_Buffer.lines
      BY <1>3, LinesOne
    <3>4. Unwritten' = Buffers \o <<Current_Buffer>>
      BY <1>1, <1>4 DEF Unwritten
    <3>5. Lines(Unwritten)' = Lines(Buffers \o <<Current_Buffer>>)
      BY <3>4 DEF Lines
    <3> QED
      BY <2>1, <3>2, <3>3, <3>5
  <2>5. Lines(Buffers)' = <<>> /\ Current_Buffer'.lines = <<>> /\ file' = F
    <3>1. Lines(Buffers)' = Lines(<<>>)
      BY <1>1, <1>2 DEF Lines
    <3> QED
      BY <1>1, <1>2, <1>5, <2>1, <3>1, LinesNone
  <2>6. Pipeline' = Pipe(F, B \o C, <<>>, <<>>)
    BY <2>4, <2>5 DEF Pipeline, Pipe
  <2>7. PipeLaw(F, W, B, C, C)
    BY <2>2, PipeLaws
  <2>8. Pipeline' = Pipeline
    BY <2>2, <2>3, <2>6, <2>7 DEF PipeLaw
  <2> QED
    BY <1>1, <2>2, <2>8 DEF InOrder, Up
<1> QED
  BY <1>1, <1>6, <1>7, <1>8, <1>9, PipeStep DEF Places

\* The test of running_, and the entry of the critical section.
LEMMA EnterKeeps ==
  ASSUME LogInv, TestRunning \/ Enter \/ WaitSomeSecond, UNCHANGED <<menu, outputs>>
  PROVE  LogInv'
<1>1. ASSUME UNCHANGED <<thread, caller, running, Current_Buffer, Next_Buffer, Buffers, lines, local, i, count, file,
                        flushed, dropped>>,
             pc \in {"test", "enter"}, pc' \in {"enter", "end", "wait"}
      PROVE  LogInv'
  <2>1. pc \in Places /\ pc' \in Places /\ pc \in QuietPlaces /\ pc' \in QuietPlaces
    BY <1>1 DEF Places, QuietPlaces
  <2>2. BuffersOK' /\ SparesOK' /\ CountOK' /\ InOrder'
    BY <1>1, <2>1, QuietBack DEF LogInv
  <2>3. pc' \in Places \ {"new", "done"} /\ pc \notin {"new", "done"}
    BY <1>1, <2>1
  <2> QED
    BY <1>1, <2>2, <2>3, PipeStep
<1>2. CASE TestRunning
  BY <1>1, <1>2 DEF TestRunning, front, out
<1>3. CASE Enter
  <2>1. CASE Buffers = <<>>
    BY <1>1, <1>3, <2>1 DEF Enter, front, out
  <2>2. CASE Buffers # <<>>
    BY <1>3, <2>2, ExchangeKeeps DEF Enter
  <2> QED
    BY <2>1, <2>2
<1>4. CASE WaitSomeSecond
  BY <1>4, ExchangeKeeps DEF WaitSomeSecond
<1> QED
  BY <1>2, <1>3, <1>4

\* Buffers are erased if there are too many of them.
LEMMA CutKeeps ==
  ASSUME LogInv, Cut, UNCHANGED <<menu, outputs>>
  PROVE  LogInv'
<1>1. /\ pc = "cut" /\ pc' = "write" /\ i' = 1
      /\ UNCHANGED <<running, Current_Buffer, Next_Buffer, Buffers, lines, newBuffer1, newBuffer2, count, file, flushed,
                    thread, caller>>
  BY DEF Cut, front
<1>2. PICK b \in Seq(Buffer) : b = Buffer_To_Write
  BY DEF LogInv, BuffersOK
<1>3. NumNull' = NumNull /\ NumNull \in 0 .. 2 /\ Len(b) \in Nat /\ Len(b) >= NumNull /\ b # <<>> /\ pc \in Places
  <2>1. Len(b) >= NumNull /\ b # <<>> /\ pc \in Places
    BY <1>1, <1>2 DEF LogInv, SparesOK, PlacesOK
  <2> QED
    BY <1>1, <1>2, <2>1 DEF NumNull
<1>4. PICK F, W, B, C : F = file /\ W = Lines(Unwritten) /\ B = Lines(Buffers) /\ C = Current_Buffer.lines
  OBVIOUS
<1>5. /\ F \in Seq(Nat) /\ W \in Seq(Nat) /\ B \in Seq(Nat) /\ C \in Seq(Nat)
      /\ Range(Pipeline) = (1 .. lines) \ dropped /\ Up(Pipeline) /\ Pipeline = Pipe(F, W, B, C)
  BY <1>3, <1>4, PipeParts DEF LogInv, Pipeline, Pipe
<1>6. W = Lines(b)
  BY <1>1, <1>2, <1>4 DEF Unwritten
<1>7. Lines(Buffers)' = B /\ Current_Buffer'.lines = C /\ file' = F
  BY <1>1, <1>4 DEF Lines
<1>8. ASSUME Buffer_To_Write' \in Seq(Buffer), Len(Buffer_To_Write') >= NumNull, Buffer_To_Write' # <<>>,
             dropped' \subseteq 1 .. lines, InOrder'
      PROVE  LogInv'
  <2>1. BuffersOK'
    BY <1>1, <1>8 DEF LogInv, BuffersOK
  <2>2. SparesOK'
    BY <1>1, <1>3, <1>8 DEF LogInv, SparesOK
  <2>3. CountOK'
    <3>1. Len(Buffer_To_Write') \in Nat
      BY <1>8
    <3> QED
      BY <1>1, <1>8, <3>1 DEF LogInv, CountOK
  <2>4. pc' \in Places \ {"new", "done"} /\ pc \notin {"new", "done"}
    BY <1>1 DEF Places
  <2> QED
    BY <1>1, <1>8, <2>1, <2>2, <2>3, <2>4, PipeStep
<1>9. Unwritten' = SubSeq(Buffer_To_Write', 1, Len(Buffer_To_Write'))
  BY <1>1 DEF Unwritten
<1>10. CASE Len(b) > MaxBuffers
  <2>1. /\ Buffer_To_Write' = SubSeq(b, 1, 2)
        /\ dropped' = dropped \cup Range(Lines(SubSeq(b, 3, Len(b))))
    BY <1>2, <1>10 DEF Cut
  <2>2. PICK k \in 0 .. Len(b) : k = 2
    BY <1>3, <1>10
  <2>3. /\ SubSeq(b, 1, k) \in Seq(Buffer) /\ SubSeq(b, k + 1, Len(b)) \in Seq(Buffer)
        /\ b = SubSeq(b, 1, k) \o SubSeq(b, k + 1, Len(b)) /\ Len(SubSeq(b, 1, k)) = k
    BY SplitList
  <2>4. PICK p \in Seq(Buffer), q \in Seq(Buffer) : p = SubSeq(b, 1, 2) /\ q = SubSeq(b, 3, Len(b))
    <3>1. k + 1 = 3
      BY <2>2
    <3> QED
      BY <2>2, <2>3, <3>1
  <2>5. b = p \o q /\ Len(p) = 2
    <3>1. k + 1 = 3
      BY <2>2
    <3> QED
      BY <2>2, <2>3, <2>4, <3>1
  <2>6. W = Lines(p) \o Lines(q)
    BY <1>6, <2>5, LinesConcat
  <2>7. PICK P \in Seq(Nat), D \in Seq(Nat) : P = Lines(p) /\ D = Lines(q)
    <3>1. Lines(p) \in Seq(LineNos) /\ Lines(q) \in Seq(LineNos)
      BY LinesType
    <3>2. \A s \in Seq(LineNos) : s \in Seq(Nat)
      BY DEF LineNos
    <3> QED
      BY <3>1, <3>2
  <2>8. PipeLaw(F, P, B, C, D)
    BY <1>5, PipeLaws
  <2>9. PICK X \in Seq(Nat), Y \in Seq(Nat) : X = F \o P /\ Y = B \o C
    BY <1>5, ConcatList
  <2>10. Pipeline = X \o D \o Y /\ Pipe(F, P, B, C) = X \o Y
    BY <1>5, <2>6, <2>7, <2>8, <2>9 DEF PipeLaw
  <2>11. Up(X \o Y) /\ Range(D) \subseteq Range(Pipeline) /\ Range(X \o Y) = Range(Pipeline) \ Range(D)
    BY <1>5, <2>10, UpDrop
  <2>12. Pipeline' = X \o Y
    <3>1. Unwritten' = p
      <4>1. SubSeq(p, 1, Len(p)) = p
        BY <2>5, SplitList
      <4> QED
        BY <1>9, <2>1, <2>4, <4>1
    <3>2. Lines(Unwritten)' = P
      BY <2>7, <3>1 DEF Lines
    <3> QED
      BY <1>7, <2>10, <3>2 DEF Pipeline, Pipe
  <2>13. dropped' = dropped \cup Range(D)
    BY <2>1, <2>4, <2>7
  <2>14. dropped' \subseteq 1 .. lines
    BY <1>5, <2>11, <2>13 DEF LogInv, CountOK
  <2>15. InOrder'
    <3>1. Range(X \o Y) = (1 .. lines') \ dropped'
      BY <1>1, <1>5, <2>11, <2>13
    <3> QED
      BY <2>11, <2>12, <3>1 DEF InOrder, Up
  <2>16. p # <<>>
    <3> SUFFICES ASSUME p = <<>> PROVE FALSE
      OBVIOUS
    <3>1. Len(p) = 0
      OBVIOUS
    <3> QED
      BY <2>5, <3>1
  <2> QED
    BY <1>3, <1>8, <2>1, <2>4, <2>5, <2>14, <2>15, <2>16
<1>11. CASE ~(Len(b) > MaxBuffers)
  <2>1. Buffer_To_Write' = b /\ dropped' = dropped
    BY <1>2, <1>11 DEF Cut
  <2>2. Unwritten' = b
    <3>1. SubSeq(b, 1, Len(b)) = b
      <4>1. 0 \in 0 .. Len(b)
        BY <1>3
      <4> QED
        BY <4>1, SplitList
    <3> QED
      BY <1>9, <2>1, <3>1
  <2>3. Lines(Unwritten)' = W
    BY <1>6, <2>2 DEF Lines
  <2>4. Pipeline' = Pipeline
    BY <1>5, <1>7, <2>3 DEF Pipeline, Pipe
  <2>5. InOrder'
    BY <1>1, <2>1, <2>4 DEF LogInv, InOrder
  <2> QED
    BY <1>3, <1>8, <2>1, <2>5 DEF LogInv, CountOK
<1> QED
  BY <1>10, <1>11

\* A buffer is handed to LogFile::append.
LEMMA WriteKeeps ==
  ASSUME LogInv, Write, UNCHANGED <<menu, outputs>>
  PROVE  LogInv'
<1>1. /\ pc = "write" /\ i <= Len(Buffer_To_Write) /\ count' = count + 1 /\ i' = i + 1
      /\ file' = file \o Buffer_To_Write[i].lines
      /\ pc' = IF count' >= Every_n_flush THEN "self" ELSE "write"
      /\ UNCHANGED <<running, Current_Buffer, Next_Buffer, Buffers, lines, newBuffer1, newBuffer2, Buffer_To_Write,
                    flushed, dropped, thread, caller>>
  BY DEF Write, front, local
<1>2. PICK b \in Seq(Buffer) : b = Buffer_To_Write
  BY DEF LogInv, BuffersOK
<1>3. PICK k \in 1 .. Len(b) : k = i
  BY <1>1, <1>2 DEF LogInv, CountOK
<1>4. /\ SubSeq(b, k, Len(b)) = <<b[k]>> \o SubSeq(b, k + 1, Len(b))
      /\ SubSeq(b, k + 1, Len(b)) \in Seq(Buffer) /\ <<b[k]>> \in Seq(Buffer) /\ b[k] \in Buffer
  BY FromList
<1>5. PICK q \in Seq(Buffer), y \in Buffer, r \in Seq(Buffer) : q = SubSeq(b, k + 1, Len(b)) /\ y = b[k] /\ r = <<y>>
  BY <1>4
<1>6. PICK F, W, B, C : F = file /\ W = Lines(Unwritten) /\ B = Lines(Buffers) /\ C = Current_Buffer.lines
  OBVIOUS
<1>7. pc \in Places
  BY <1>1 DEF Places
<1>8. /\ F \in Seq(Nat) /\ W \in Seq(Nat) /\ B \in Seq(Nat) /\ C \in Seq(Nat)
      /\ Range(Pipeline) = (1 .. lines) \ dropped /\ Up(Pipeline) /\ Pipeline = Pipe(F, W, B, C)
  BY <1>6, <1>7, PipeParts DEF LogInv, Pipeline, Pipe
<1>9. y.lines \in Seq(LineNos) /\ Lines(q) \in Seq(LineNos) /\ file \in Seq(LineNos)
  <2>1. y.lines \in Seq(LineNos)
    BY DEF Buffer, LineNos
  <2>2. Lines(q) \in Seq(LineNos)
    BY LinesType
  <2> QED
    BY <2>1, <2>2 DEF LogInv, BuffersOK, LineNos
<1>10. PICK x \in Seq(Nat), V \in Seq(Nat) : x = y.lines /\ V = Lines(q)
  <2>1. \A s \in Seq(LineNos) : s \in Seq(Nat)
    BY DEF LineNos
  <2> QED
    BY <1>9, <2>1
<1>11. file' = F \o x
  BY <1>1, <1>2, <1>3, <1>5, <1>6, <1>10
<1>12. W = x \o V
  <2>1. Unwritten = r \o q
    BY <1>1, <1>2, <1>3, <1>4, <1>5 DEF Unwritten
  <2>2. Lines(r \o q) = Lines(r) \o Lines(q)
    BY LinesConcat
  <2>3. Lines(r) = x
    BY <1>5, <1>10, LinesOne
  <2> QED
    BY <1>6, <1>10, <2>1, <2>2, <2>3
<1>13. Lines(Unwritten)' = V
  <2>1. pc' \in {"write", "self"}
    BY <1>1
  <2>2. Unwritten' = q
    BY <1>1, <1>2, <1>3, <1>5, <2>1 DEF Unwritten
  <2> QED
    BY <1>10, <2>2 DEF Lines
<1>14. Pipeline' = Pipeline
  <2>1. Lines(Buffers)' = B /\ Current_Buffer'.lines = C
    BY <1>1, <1>6 DEF Lines
  <2>2. Pipeline' = Pipe(F \o x, V, B, C)
    BY <1>11, <1>13, <2>1 DEF Pipeline, Pipe
  <2>3. PipeLaw(F, V, B, C, x)
    BY <1>8, PipeLaws
  <2> QED
    BY <1>8, <1>12, <2>2, <2>3 DEF PipeLaw
<1>15. InOrder'
  BY <1>1, <1>14 DEF LogInv, InOrder
<1>16. file' \in Seq(LineNos) /\ Len(file') >= Len(file)
  <2>1. PICK g \in Seq(LineNos), z \in Seq(LineNos) : g = file /\ z = y.lines
    BY <1>9
  <2>2. g \o z \in Seq(LineNos) /\ Len(g \o z) = Len(g) + Len(z)
    BY ConcatList
  <2>3. Len(g) \in Nat /\ Len(z) \in Nat
    OBVIOUS
  <2>4. file' = g \o z
    BY <1>6, <1>10, <1>11, <2>1
  <2> QED
    BY <2>1, <2>2, <2>3, <2>4
<1>17. BuffersOK'
  BY <1>1, <1>16 DEF LogInv, BuffersOK, LineNos
<1>18. SparesOK'
  BY <1>1 DEF LogInv, SparesOK, NumNull
<1>19. CountOK'
  <2>1. count \in 0 .. Every_n_flush /\ count # Every_n_flush /\ flushed \in 0 .. Len(file)
    BY <1>1 DEF LogInv, CountOK
  <2>2. flushed' \in 0 .. Len(file')
    <3>1. Len(file) \in Nat /\ Len(file') \in Nat
      BY <1>9, <1>16
    <3> QED
      BY <1>1, <1>16, <2>1, <3>1
  <2>3. i' \in Nat \ {0} /\ i' <= Len(Buffer_To_Write') + 1
    BY <1>1, <1>2, <1>3
  <2> QED
    BY <1>1, <2>1, <2>2, <2>3 DEF LogInv, CountOK
<1>20. pc' \in Places \ {"new", "done"} /\ pc \notin {"new", "done"}
  BY <1>1 DEF Places
<1> QED
  BY <1>1, <1>15, <1>17, <1>18, <1>19, <1>20, PipeStep

\* The spare buffers are taken back.
LEMMA RefillKeeps ==
  ASSUME LogInv, Refill, UNCHANGED <<menu, outputs>>
  PROVE  LogInv'
<1>1. /\ pc = "write" /\ i > Len(Buffer_To_Write) /\ pc' = "test" /\ flushed' = Len(file) /\ Buffer_To_Write' = <<>>
      /\ newBuffer1' = (IF newBuffer1 = Null THEN EmptyBuffer ELSE newBuffer1)
      /\ newBuffer2' = (IF newBuffer2 = Null THEN EmptyBuffer ELSE newBuffer2)
      /\ UNCHANGED <<running, Current_Buffer, Next_Buffer, Buffers, lines, i, count, file, dropped, thread, caller>>
  BY DEF Refill, front
<1>2. newBuffer1' = EmptyBuffer /\ newBuffer2' = EmptyBuffer
  BY <1>1 DEF LogInv, BuffersOK
<1>3. BuffersOK'
  BY <1>1, <1>2 DEF LogInv, BuffersOK
<1>4. SparesOK'
  BY <1>1, <1>2 DEF LogInv, SparesOK
<1>5. CountOK'
  <2>1. Len(file) \in Nat
    BY DEF LogInv, BuffersOK
  <2> QED
    BY <1>1, <2>1 DEF LogInv, CountOK
<1>6. InOrder'
  <2>1. PICK b \in Seq(Buffer) : b = Buffer_To_Write
    BY DEF LogInv, BuffersOK
  <2>2. i = Len(b) + 1 /\ Len(b) \in Nat
    BY <1>1, <2>1 DEF LogInv, CountOK
  <2>3. SubSeq(b, Len(b) + 1, Len(b)) = <<>>
    OBVIOUS
  <2>4. Unwritten = <<>>
    BY <1>1, <2>1, <2>2, <2>3 DEF Unwritten
  <2>5. Unwritten' = <<>>
    BY <1>1 DEF Unwritten
  <2>6. Pipeline' = Pipeline
    BY <1>1, <2>4, <2>5 DEF Pipeline, Lines
  <2> QED
    BY <1>1, <2>6 DEF LogInv, InOrder
<1>7. pc' \in Places \ {"new", "done"} /\ pc \notin {"new", "done"}
  BY <1>1 DEF Places
<1> QED
  BY <1>1, <1>3, <1>4, <1>5, <1>6, <1>7, PipeStep

-----------------------------------------------------------------------------
(***************************************************************************)
(* convert.  The value of a list of digits: FoldLeft with one operator,    *)
(* and so the last of the values on the way.                               *)
(***************************************************************************)
DecFolded(s, f, m) ==
  [t \in SUBSET (1 .. m) |-> IF t = {} THEN 0 ELSE 10 * f[t \ {Max(t)}] + s[Max(t)]]

\* The function by which DecimalValue is defined exists.
LEMMA DecFoldExists ==
  ASSUME NEW s, NEW m \in Nat
  PROVE  \E f : f = DecFolded(s, f, m)
<1> DEFINE S == {k \in Nat : \E f : f = DecFolded(s, f, k)}
<1>1. 0 \in S
  <2> DEFINE f == [t \in SUBSET (1 .. 0) |-> 0]
  <2>1. \A t \in SUBSET (1 .. 0) : t = {}
    OBVIOUS
  <2>2. f = DecFolded(s, f, 0)
    BY <2>1 DEF DecFolded
  <2> QED
    BY <2>2
<1>2. ASSUME NEW k \in Nat, k \in S PROVE k + 1 \in S
  <2>1. PICK f : f = DecFolded(s, f, k)
    BY <1>2
  <2> DEFINE g == [t \in SUBSET (1 .. k + 1) |->
                     IF k + 1 \in t THEN 10 * f[t \ {k + 1}] + s[k + 1] ELSE f[t]]
             h(t) == IF t = {} THEN 0 ELSE 10 * g[t \ {Max(t)}] + s[Max(t)]
  <2>2. ASSUME NEW t \in SUBSET (1 .. k + 1) PROVE g[t] = h(t)
    <3>1. CASE k + 1 \in t
      <4>1. t \subseteq Int /\ \A y \in t : y <= k + 1
        OBVIOUS
      <4>2. Max(t) = k + 1 /\ t # {}
        BY <3>1, <4>1, MaxIs
      <4>3. t \ {k + 1} \in SUBSET (1 .. k + 1) /\ k + 1 \notin t \ {k + 1}
        OBVIOUS
      <4>4. g[t \ {k + 1}] = f[t \ {k + 1}]
        BY <4>3
      <4>5. g[t] = 10 * f[t \ {k + 1}] + s[k + 1]
        BY <3>1
      <4> QED
        BY <4>2, <4>4, <4>5
    <3>2. CASE k + 1 \notin t
      <4>1. t \in SUBSET (1 .. k) /\ g[t] = f[t]
        BY <3>2
      <4>2. f[t] = IF t = {} THEN 0 ELSE 10 * f[t \ {Max(t)}] + s[Max(t)]
        BY <2>1, <4>1 DEF DecFolded
      <4>3. t \ {Max(t)} \in SUBSET (1 .. k + 1) /\ k + 1 \notin t \ {Max(t)}
        BY <3>2
      <4>4. g[t \ {Max(t)}] = f[t \ {Max(t)}]
        BY <4>3
      <4> QED
        BY <4>1, <4>2, <4>4
    <3> QED
      BY <3>1, <3>2
  <2>3. g = [t \in SUBSET (1 .. k + 1) |-> g[t]]
    OBVIOUS
  <2>4. g = DecFolded(s, g, k + 1)
    <3> HIDE DEF g
    <3> QED
      BY <2>2, <2>3 DEF DecFolded
  <2> HIDE DEF g
  <2> QED
    BY <2>4
<1> HIDE DEF S
<1>3. Nat \subseteq S
  BY <1>1, <1>2, NatSetInduction
<1> QED
  BY <1>3 DEF S

\* The values on the way.
Values(s, w) == w[0] = 0 /\ \A k \in 0 .. Len(s) - 1 : w[k + 1] = 10 * w[k] + s[k + 1]

\* DecimalValue is the last of them.
LEMMA DecimalLast ==
  ASSUME NEW s \in Seq(Nat)
  PROVE  \E w : Values(s, w) /\ DecimalValue(s) = w[Len(s)]
<1> DEFINE n == Len(s)
           h == CHOOSE f : f = DecFolded(s, f, n)
           w == [k \in 0 .. n |-> h[1 .. k]]
<1>1. n \in Nat /\ DOMAIN s = 1 .. n
  OBVIOUS
<1>2. h = DecFolded(s, h, n)
  BY <1>1, DecFoldExists
<1>3. DecimalValue(s) = h[1 .. n]
  BY <1>1 DEF DecimalValue, FoldLeft, MapThenFoldSet, DecFolded
<1> HIDE DEF h, n
<1>4. \A t \in SUBSET (1 .. n) : h[t] = IF t = {} THEN 0 ELSE 10 * h[t \ {Max(t)}] + s[Max(t)]
  BY <1>2 DEF DecFolded
<1>5. \A k \in 0 .. n : w[k] = h[1 .. k]
  OBVIOUS
<1> HIDE DEF w
<1>6. w[0] = 0
  <2>1. {} \in SUBSET (1 .. n) /\ 1 .. 0 = {} /\ 0 \in 0 .. n
    BY <1>1
  <2> QED
    BY <1>4, <1>5, <2>1
<1>7. ASSUME NEW k \in 0 .. n - 1 PROVE w[k + 1] = 10 * w[k] + s[k + 1]
  <2>1. PICK t : t = 1 .. k + 1
    OBVIOUS
  <2>2. t \ {k + 1} = 1 .. k
    BY <2>1
  <2>3. t \in SUBSET (1 .. n) /\ k + 1 \in t
    BY <1>1, <2>1
  <2>4. t \subseteq Int /\ \A y \in t : y <= k + 1
    BY <2>1
  <2>5. t # {}
    BY <2>3
  <2>6. Max(t) = k + 1
    BY <2>3, <2>4, MaxIs
  <2>7. h[t] = 10 * h[1 .. k] + s[k + 1]
    BY <1>4, <2>2, <2>3, <2>5, <2>6
  <2>8. k \in 0 .. n /\ k + 1 \in 0 .. n
    BY <1>1
  <2> QED
    BY <1>5, <2>1, <2>7, <2>8
<1>8. n \in 0 .. n
  BY <1>1
<1> QED
  BY <1>3, <1>5, <1>6, <1>7, <1>8 DEF Values, n

\* One digit more.
LEMMA DecimalAppend ==
  ASSUME NEW s \in Seq(Nat), NEW d \in Nat
  PROVE  DecimalValue(s \o <<d>>) = 10 * DecimalValue(s) + d
<1>1. PICK q \in Seq(Nat) : q = s \o <<d>>
  <2>1. <<d>> \in Seq(Nat)
    OBVIOUS
  <2> QED
    BY <2>1, ConcatList
<1>2. /\ Len(s) \in Nat /\ Len(q) = Len(s) + 1 /\ q[Len(s) + 1] = d
      /\ \A k \in 1 .. Len(s) : q[k] = s[k]
  BY <1>1
<1>3. PICK w : Values(s, w) /\ DecimalValue(s) = w[Len(s)]
  BY DecimalLast
<1>4. PICK x : Values(q, x) /\ DecimalValue(q) = x[Len(q)]
  BY <1>1, DecimalLast
<1> DEFINE S == {k \in Nat : k <= Len(s) => x[k] = w[k]}
<1>5. 0 \in S
  BY <1>3, <1>4 DEF Values
<1>6. ASSUME NEW k \in Nat, k \in S PROVE k + 1 \in S
  <2> SUFFICES ASSUME k + 1 <= Len(s) PROVE x[k + 1] = w[k + 1]
    OBVIOUS
  <2>1. k \in 0 .. Len(s) - 1 /\ k \in 0 .. Len(q) - 1 /\ k <= Len(s) /\ q[k + 1] = s[k + 1]
    BY <1>2
  <2>2. x[k] = w[k]
    BY <1>6, <2>1
  <2>3. x[k + 1] = 10 * x[k] + q[k + 1]
    BY <1>4, <2>1 DEF Values
  <2>4. w[k + 1] = 10 * w[k] + s[k + 1]
    BY <1>3, <2>1 DEF Values
  <2> QED
    BY <2>1, <2>2, <2>3, <2>4
<1> HIDE DEF S
<1>7. Nat \subseteq S
  BY <1>5, <1>6, NatSetInduction
<1>8. x[Len(s)] = w[Len(s)]
  BY <1>2, <1>7 DEF S
<1>9. Len(s) \in 0 .. Len(q) - 1
  BY <1>2
<1>10. x[Len(s) + 1] = 10 * x[Len(s)] + q[Len(s) + 1]
  BY <1>4, <1>9 DEF Values
<1> QED
  BY <1>1, <1>2, <1>3, <1>4, <1>8, <1>10

\* No digits, and one.
LEMMA DecimalOne ==
  ASSUME NEW d \in Nat
  PROVE  DecimalValue(<<d>>) = d
<1>1. <<>> \in Seq(Nat) /\ Len(<<>>) = 0
  OBVIOUS
<1>2. PICK w : Values(<<>>, w) /\ DecimalValue(<<>>) = w[Len(<<>>)]
  BY <1>1, DecimalLast
<1>3. DecimalValue(<<>>) = 0
  BY <1>1, <1>2 DEF Values
<1>4. PICK e \in Seq(Nat) : e = <<>>
  BY <1>1
<1>5. DecimalValue(e \o <<d>>) = 10 * DecimalValue(e) + d
  BY DecimalAppend
<1>6. <<>> \o <<d>> = <<d>>
  OBVIOUS
<1> QED
  BY <1>3, <1>4, <1>5, <1>6

(***************************************************************************)
(* The digits ds, last one first, are those of v.                          *)
(***************************************************************************)
Decimal(ds, v) ==
  /\ ds \in Seq(0 .. 9) /\ Len(ds) > 0
  /\ DecimalValue(Reverse(ds)) = v
  /\ ds[Len(ds)] = 0 => v = 0 /\ ds = <<0>>

\* A number of one digit.
LEMMA DecimalDigit ==
  ASSUME NEW d \in 0 .. 9
  PROVE  Decimal(<<d>>, d)
<1>1. <<d>> \in Seq(0 .. 9) /\ Len(<<d>>) = 1 /\ <<d>>[1] = d
  OBVIOUS
<1>2. Reverse(<<d>>) = <<d>>
  BY DEF Reverse
<1>3. DecimalValue(<<d>>) = d
  BY DecimalOne
<1>4. d = 0 => <<d>> = <<0>>
  OBVIOUS
<1> QED
  BY <1>1, <1>2, <1>3, <1>4 DEF Decimal

\* A number of several digits.
LEMMA DecimalMore ==
  ASSUME NEW v \in Nat \ {0}, NEW ds, Decimal(ds, v), NEW d \in 0 .. 9
  PROVE  Decimal(<<d>> \o ds, 10 * v + d)
<1>1. ds \in Seq(0 .. 9) /\ Len(ds) \in Nat \ {0} /\ DecimalValue(Reverse(ds)) = v /\ ds[Len(ds)] # 0
  BY DEF Decimal
<1>2. PICK q : q = <<d>> \o ds
  OBVIOUS
<1>3. /\ q \in Seq(0 .. 9) /\ Len(q) = Len(ds) + 1 /\ q[1] = d
      /\ \A k \in 1 .. Len(ds) : q[k + 1] = ds[k]
  BY <1>1, <1>2
<1>4. PICK r : r = Reverse(ds)
  OBVIOUS
<1>5. r \in Seq(Nat) /\ Len(r) = Len(ds) /\ \A k \in 1 .. Len(ds) : r[k] = ds[(Len(ds) - k) + 1]
  <2>1. r = [k \in 1 .. Len(ds) |-> ds[(Len(ds) - k) + 1]]
    BY <1>4 DEF Reverse
  <2>2. \A k \in 1 .. Len(ds) : ds[(Len(ds) - k) + 1] \in Nat
    BY <1>1
  <2> QED
    BY <1>1, <2>1, <2>2
<1>6. Reverse(q) = r \o <<d>>
  <2>1. Reverse(q) = [k \in 1 .. Len(ds) + 1 |-> q[(Len(ds) + 1 - k) + 1]]
    BY <1>3 DEF Reverse
  <2>2. PICK x \in Seq(Nat) : x = r \o <<d>>
    <3>1. <<d>> \in Seq(Nat)
      OBVIOUS
    <3> QED
      BY <1>5, <3>1, ConcatList
  <2>3. /\ Len(x) = Len(ds) + 1 /\ x[Len(ds) + 1] = d
        /\ \A k \in 1 .. Len(ds) : x[k] = r[k]
    <3>1. r \in Seq(Nat) /\ Len(r) \in Nat
      BY <1>5
    <3>2. /\ Len(r \o <<d>>) = Len(r) + 1 /\ (r \o <<d>>)[Len(r) + 1] = d
          /\ \A k \in 1 .. Len(r) : (r \o <<d>>)[k] = r[k]
      BY <3>1
    <3> QED
      BY <1>5, <2>2, <3>2
  <2>4. x = [k \in 1 .. Len(ds) + 1 |-> x[k]]
    <3>1. x \in Seq(Nat)
      BY <2>2
    <3>2. DOMAIN x = 1 .. Len(ds) + 1
      BY <2>3, <3>1
    <3>3. x = [k \in DOMAIN x |-> x[k]]
      BY <3>1
    <3> QED
      BY <3>2, <3>3
  <2>5. ASSUME NEW k \in 1 .. Len(ds) + 1 PROVE x[k] = q[(Len(ds) + 1 - k) + 1]
    <3>1. CASE k = Len(ds) + 1
      <4>1. (Len(ds) + 1 - k) + 1 = 1
        BY <1>1, <3>1
      <4> QED
        BY <1>3, <2>3, <3>1, <4>1
    <3>2. CASE k # Len(ds) + 1
      <4>1. k \in 1 .. Len(ds)
        BY <1>1, <3>2
      <4>2. PICK j \in 1 .. Len(ds) : j = (Len(ds) - k) + 1
        <5>1. (Len(ds) - k) + 1 \in 1 .. Len(ds)
          BY <1>1, <4>1
        <5> QED
          BY <5>1
      <4>3. (Len(ds) + 1 - k) + 1 = j + 1
        BY <1>1, <4>1, <4>2
      <4>4. q[j + 1] = ds[j] /\ x[k] = r[k] /\ r[k] = ds[j]
        BY <1>3, <1>5, <2>3, <4>1, <4>2
      <4> QED
        BY <4>3, <4>4
    <3> QED
      BY <3>1, <3>2
  <2> QED
    BY <2>1, <2>2, <2>4, <2>5
<1>7. DecimalValue(Reverse(q)) = 10 * v + d
  BY <1>1, <1>4, <1>5, <1>6, DecimalAppend
<1>8. q[Len(q)] = ds[Len(ds)] /\ Len(q) > 0
  BY <1>1, <1>3
<1> QED
  BY <1>1, <1>2, <1>3, <1>7, <1>8 DEF Decimal

(***************************************************************************)
(* The digits of an integer: that of i and those of i / 10, also for a     *)
(* negative one, whose quotient and remainder C++ rounds towards zero.     *)
(***************************************************************************)
Lsd(j) == IF Rem(j, 10) < 0 THEN -Rem(j, 10) ELSE Rem(j, 10)

Size(j) == IF j < 0 THEN -j ELSE j

\* Division by ten of any integer.
LEMMA TenFold ==
  ASSUME NEW j \in Ints
  PROVE  /\ Quot(j, 10) \in Ints /\ Lsd(j) \in 0 .. 9 /\ Size(j) \in Nat
         /\ Size(Quot(j, 10)) \in Nat /\ Size(j) = 10 * Size(Quot(j, 10)) + Lsd(j)
         /\ Quot(j, 10) # 0 => Size(Quot(j, 10)) # 0 /\ Size(Quot(j, 10)) < Size(j)
<1>1. j \in Int /\ IntHalf \in Nat /\ -IntHalf <= j /\ j <= IntHalf - 1
  BY NumbersFit DEF Ints
<1>2. CASE j < 0
  <2>1. PICK m \in Nat : m = -j
    BY <1>1, <1>2
  <2>2. m = 10 * (m \div 10) + (m % 10) /\ m % 10 \in 0 .. 9 /\ m \div 10 \in Nat
    OBVIOUS
  <2>3. PICK q \in Nat, e \in 0 .. 9 : q = m \div 10 /\ e = m % 10
    BY <2>2
  <2>4. Quot(j, 10) = -q /\ Rem(j, 10) = -e /\ m = 10 * q + e /\ q \in Nat /\ e \in 0 .. 9
    BY <1>2, <2>1, <2>2, <2>3 DEF Quot, Rem
  <2>5. Size(j) = m /\ m > 0
    BY <1>1, <1>2, <2>1 DEF Size
  <2>6. Lsd(j) = e
    BY <2>4 DEF Lsd
  <2>7. Size(Quot(j, 10)) = q
    BY <2>4 DEF Size
  <2>8. Quot(j, 10) \in Ints
    BY <1>1, <1>2, <2>1, <2>4 DEF Ints
  <2> QED
    BY <2>1, <2>4, <2>5, <2>6, <2>7, <2>8
<1>3. CASE j >= 0
  <2>1. j \in Nat
    BY <1>1, <1>3
  <2>2. j = 10 * (j \div 10) + (j % 10) /\ j % 10 \in 0 .. 9 /\ j \div 10 \in Nat
    BY <2>1
  <2>3. Quot(j, 10) = j \div 10 /\ Rem(j, 10) = j % 10
    BY <2>1 DEF Quot, Rem
  <2>4. Size(j) = j /\ Size(Quot(j, 10)) = j \div 10 /\ Lsd(j) = j % 10
    BY <2>1, <2>2, <2>3 DEF Size, Lsd
  <2>5. Quot(j, 10) \in Ints
    BY <1>1, <2>1, <2>2, <2>3 DEF Ints
  <2> QED
    BY <2>1, <2>2, <2>3, <2>4, <2>5
<1> QED
  BY <1>1, <1>2, <1>3

DigitStep(f, j) == IF MoreDigits(Quot(j, 10)) THEN <<Lsd(j)>> \o f[Quot(j, 10)] ELSE <<Lsd(j)>>

\* The loop of convert ends: the function by which Digits is defined exists.
LEMMA DigitsExist == \E f : f = [j \in Ints |-> DigitStep(f, j)]
<1> DEFINE P(f, k) == f = [j \in Ints |-> f[j]] /\ \A j \in Ints : Size(j) <= k => f[j] = DigitStep(f, j)
           S == {k \in Nat : \E f : P(f, k)}
<1>1. 0 \in S
  <2> DEFINE f == [j \in Ints |-> <<Lsd(j)>>]
  <2>1. ASSUME NEW j \in Ints, Size(j) <= 0 PROVE f[j] = DigitStep(f, j)
    <3>1. ~MoreDigits(Quot(j, 10))
      BY <2>1, TenFold DEF MoreDigits
    <3> QED
      BY <3>1 DEF DigitStep
  <2>2. f = [j \in Ints |-> f[j]]
    OBVIOUS
  <2> HIDE DEF f
  <2>3. P(f, 0)
    BY <2>1, <2>2
  <2> QED
    BY <2>3
<1>2. ASSUME NEW k \in Nat, k \in S PROVE k + 1 \in S
  <2>1. PICK f : P(f, k)
    BY <1>2
  <2> DEFINE g == [j \in Ints |-> IF Size(j) <= k THEN f[j] ELSE DigitStep(f, j)]
  <2>2. ASSUME NEW j \in Ints, Size(j) <= k + 1 PROVE g[j] = DigitStep(g, j)
    <3>1. g[j] = DigitStep(f, j)
      BY <2>1
    <3>2. CASE ~MoreDigits(Quot(j, 10))
      BY <3>1, <3>2 DEF DigitStep
    <3>3. CASE MoreDigits(Quot(j, 10))
      <4>1. Quot(j, 10) \in Ints /\ Size(Quot(j, 10)) <= k
        BY <2>2, <3>3, TenFold DEF MoreDigits
      <4>2. g[Quot(j, 10)] = f[Quot(j, 10)]
        BY <4>1
      <4> HIDE DEF g
      <4> QED
        BY <3>1, <4>2 DEF DigitStep
    <3> QED
      BY <3>2, <3>3
  <2>3. g = [j \in Ints |-> g[j]]
    OBVIOUS
  <2> HIDE DEF g
  <2>4. P(g, k + 1)
    BY <2>2, <2>3
  <2> QED
    BY <2>4
<1> HIDE DEF S
<1>3. Nat \subseteq S
  BY <1>1, <1>2, NatSetInduction
<1>4. IntHalf \in S
  BY <1>3, NumbersFit
<1>5. PICK f : P(f, IntHalf)
  BY <1>4 DEF S
<1>6. \A j \in Ints : Size(j) <= IntHalf
  BY NumbersFit DEF Ints, Size
<1>7. f = [j \in Ints |-> DigitStep(f, j)]
  BY <1>5, <1>6
<1> QED
  BY <1>7

\* Every integer that is logged, the least one too, is written with its own digits.
LEMMA DigitsAreRight ==
  ASSUME NEW v \in Ints
  PROVE  Decimal(Digits(v, 10), Size(v))
<1> DEFINE r == CHOOSE f : f = [j \in Ints |-> DigitStep(f, j)]
<1>1. r = [j \in Ints |-> DigitStep(r, j)]
  BY DigitsExist
<1>2. Digits(v, 10) = r[v]
  BY DEF Digits, DigitStep, Lsd
<1> HIDE DEF r
<1>3. \A j \in Ints : r[j] = DigitStep(r, j)
  BY <1>1
<1> DEFINE S == {k \in Nat : \A j \in Ints : Size(j) <= k => Decimal(r[j], Size(j))}
<1>4. ASSUME NEW j \in Ints, ~MoreDigits(Quot(j, 10)) PROVE Decimal(r[j], Size(j))
  <2>1. r[j] = <<Lsd(j)>>
    BY <1>3, <1>4 DEF DigitStep
  <2>2. Size(Quot(j, 10)) = 0
    BY <1>4 DEF MoreDigits, Size
  <2>3. Lsd(j) \in 0 .. 9 /\ Size(j) = Lsd(j)
    BY <2>2, TenFold
  <2> QED
    BY <2>1, <2>3, DecimalDigit
<1>5. 0 \in S
  <2> SUFFICES ASSUME NEW j \in Ints, Size(j) <= 0 PROVE Decimal(r[j], Size(j))
    OBVIOUS
  <2>1. ~MoreDigits(Quot(j, 10))
    BY TenFold DEF MoreDigits
  <2> QED
    BY <1>4, <2>1
<1>6. ASSUME NEW k \in Nat, k \in S PROVE k + 1 \in S
  <2> SUFFICES ASSUME NEW j \in Ints, Size(j) <= k + 1 PROVE Decimal(r[j], Size(j))
    OBVIOUS
  <2>1. CASE ~MoreDigits(Quot(j, 10))
    BY <1>4, <2>1
  <2>2. CASE MoreDigits(Quot(j, 10))
    <3>1. PICK q \in Ints, m \in Nat \ {0}, d \in 0 .. 9 : q = Quot(j, 10) /\ m = Size(q) /\ d = Lsd(j)
      BY <2>2, TenFold DEF MoreDigits
    <3>2. Size(j) = 10 * m + d /\ m <= k
      BY <2>2, <3>1, TenFold DEF MoreDigits
    <3>3. Decimal(r[q], m)
      BY <1>6, <3>1, <3>2
    <3>4. r[j] = <<d>> \o r[q]
      BY <1>3, <2>2, <3>1 DEF DigitStep
    <3>5. m \in Nat \ {0} /\ d \in 0 .. 9
      BY <3>1
    <3>6. Decimal(<<d>> \o r[q], 10 * m + d)
      BY <3>3, <3>5, DecimalMore
    <3> QED
      BY <3>2, <3>4, <3>6
  <2> QED
    BY <2>1, <2>2
<1> HIDE DEF S
<1>7. Nat \subseteq S
  BY <1>5, <1>6, NatSetInduction
<1>8. Size(v) \in Nat
  BY TenFold
<1> QED
  BY <1>2, <1>7, <1>8 DEF S

-----------------------------------------------------------------------------
(***************************************************************************)
(* The theorems.                                                           *)
(***************************************************************************)
\* The log before it is made.
LEMMA LogInvInit == Init => LogInv
<1> SUFFICES ASSUME Init PROVE LogInv
  OBVIOUS
<1>1. /\ latch = [l \in Latches |-> NewLatch] /\ start_ = FALSE /\ join_ = FALSE /\ tid_ = FALSE /\ life = "none"
      /\ caller = "new" /\ running = FALSE
      /\ Current_Buffer = EmptyBuffer /\ Next_Buffer = EmptyBuffer /\ Buffers = <<>>
      /\ newBuffer1 = EmptyBuffer /\ newBuffer2 = EmptyBuffer /\ Buffer_To_Write = <<>>
      /\ pc = "new" /\ i = 1 /\ count = 0
      /\ file = <<>> /\ flushed = 0 /\ lines = 0 /\ dropped = {}
      /\ once = "init" /\ at = [f \in Fronts |-> "idle"] /\ line = [f \in Fronts |-> NoLine]
  BY DEF Init, LogInit, ThreadInit, LatchInit
<1>2. NewLatch \in LatchType /\ OneOK(NewLatch) /\ \A t \in LatchUsers : NewLatch.at[t] = "out"
  BY DEF NewLatch, LatchType, LatchPlaces, OneOK
<1>3. \A l \in Latches : latch[l] = NewLatch
  BY <1>1
<1>4. PlacesOK
  BY <1>1, <1>2 DEF PlacesOK, Callers, Places
<1>5. FlagsOK
  BY <1>1 DEF FlagsOK
<1>6. LatchOK
  BY <1>2, <1>3 DEF LatchOK, OneOK, At
<1>7. StartOK
  <2>1. At(ThreadL, Made) = "out" /\ At(LogL, Made) = "out" /\ At(LogL, Caller) = "out"
    BY <1>2, <1>3 DEF At
  <2> QED
    BY <1>1, <2>1 DEF StartOK
<1>8. EmptyBuffer \in Buffer /\ EmptyBuffer \in Text /\ EmptyBuffer.lines = <<>>
  BY DEF EmptyBuffer, Buffer, Text
<1>9. BuffersOK
  BY <1>1, <1>8 DEF BuffersOK
<1>10. SparesOK
  BY <1>1 DEF SparesOK
<1>11. CountOK
  BY <1>1 DEF CountOK
<1>12. InOrder
  <2>1. Pipeline = <<>>
    <3>1. Unwritten = <<>> /\ Lines(<<>>) = <<>>
      BY <1>1, LinesNone DEF Unwritten
    <3>2. <<>> \o <<>> = <<>>
      OBVIOUS
    <3> QED
      BY <1>1, <1>8, <3>1, <3>2 DEF Pipeline
  <2>2. Range(<<>>) = {} /\ DOMAIN <<>> = {} /\ 1 .. 0 = {}
    BY DEF Range
  <2> QED
    BY <1>1, <2>1, <2>2 DEF InOrder
<1>13. OutputOK
  <2>1. menu \subseteq Ops
    BY DEF Init, kSubset
  <2>2. Range(NoLine.ops) \subseteq Ops /\ NoLine.buffer \in Text
    BY <1>8 DEF NoLine, Range
  <2> QED
    BY <1>1, <2>1, <2>2 DEF OutputOK
<1> QED
  BY <1>4, <1>5, <1>6, <1>7, <1>9, <1>10, <1>11, <1>12, <1>13 DEF LogInv

\* Steps that change nothing.
LEMMA LogInvStutters == LogInv /\ UNCHANGED vars => LogInv'
<1> SUFFICES ASSUME LogInv, UNCHANGED vars PROVE LogInv'
  OBVIOUS
<1>1. UNCHANGED <<thread, caller, running, Current_Buffer, Next_Buffer, Buffers, lines, local, pc, i, count, file,
                  flushed, dropped, menu, outputs>>
  BY DEF vars, logVars, front, back, out
<1>2. PlacesOK' /\ FlagsOK' /\ LatchOK' /\ StartOK'
  BY <1>1, QuietStart DEF LogInv, PlacesOK
<1> QED
  BY <1>1, <1>2, StartStep

\* Every step keeps the invariant.
LEMMA LogInvSteps == LogInv /\ [Next]_vars => LogInv'
<1> SUFFICES ASSUME LogInv, [Next]_vars PROVE LogInv'
  OBVIOUS
<1>1. ASSUME NEW f \in Fronts, Log(f) \/ FrontStep(f) PROVE LogInv'
  BY <1>1, LogKeeps, OnceKeeps, StartKeeps, AppendKeeps DEF FrontStep
<1>2. CASE CallerStep /\ UNCHANGED <<menu, outputs>>
  BY <1>2, StartLatchesKeep, StopKeeps DEF CallerStep
<1>3. CASE MadeThread /\ UNCHANGED <<menu, outputs>>
  <2>1. CASE thread_func
    BY <1>3, <2>1, BeginKeeps, EnterKeeps, CutKeeps, WriteKeeps, RefillKeeps, StopKeeps DEF thread_func
  <2>2. CASE run_in_thread /\ UNCHANGED <<caller, front, back>>
    BY <1>3, <2>2, RunInThreadKeeps
  <2> QED
    BY <1>3, <2>1, <2>2 DEF MadeThread
<1>4. CASE Spurious /\ UNCHANGED <<menu, outputs>>
  BY <1>4, SpuriousKeeps
<1>5. CASE stop /\ UNCHANGED <<menu, outputs>>
  BY <1>5, StopKeeps
<1>6. CASE UNCHANGED vars
  BY <1>6, LogInvStutters
<1> QED
  BY <1>1, <1>2, <1>3, <1>4, <1>5, <1>6 DEF Next

\* Every state the log can be in satisfies the invariant.
LEMMA LogInvHolds == Spec => []LogInv
<1>1. Init => LogInv
  BY LogInvInit
<1>2. LogInv /\ [Next]_vars => LogInv'
  BY LogInvSteps
<1> QED
  BY <1>1, <1>2, PTL DEF Spec

(***************************************************************************)
(* The asserts of thread_func_, of Thread, of the latches and of their     *)
(* destructors hold, for any number of threads, lines, buffers and         *)
(* spurious wakeups.                                                       *)
(***************************************************************************)
THEOREM LogIsConsistent == Spec => []LogConsistent
<1>1. LogInv => LogConsistent
  <2> SUFFICES ASSUME LogInv PROVE LogConsistent
    OBVIOUS
  <2>1. LogTypeOK
    <3>1. ThreadTypeOK /\ caller \in Callers /\ pc \in Places /\ running \in BOOLEAN
      BY DEF LogInv, PlacesOK, FlagsOK, ThreadTypeOK
    <3>2. /\ Current_Buffer \in Buffer /\ Range(Buffers) \subseteq Buffer /\ Range(Buffer_To_Write) \subseteq Buffer
          /\ Range(file) \subseteq 1 .. MaxLines
      BY DEF LogInv, BuffersOK, Range
    <3>3. {Next_Buffer, newBuffer1, newBuffer2} \subseteq {EmptyBuffer, Null}
      BY DEF LogInv, BuffersOK
    <3>4. /\ i \in Nat \ {0} /\ count \in 0 .. Every_n_flush /\ flushed \in 0 .. Len(file)
          /\ lines \in 0 .. MaxLines /\ dropped \subseteq 1 .. MaxLines
      BY DEF LogInv, CountOK
    <3> QED
      BY <3>1, <3>2, <3>3, <3>4 DEF LogTypeOK
  <2>2. TypeOK
    BY <2>1 DEF TypeOK, LogInv, OutputOK
  <2>3. Asserts
    <3>1. pc \in {"test", "enter", "wait"} => NumNull = 0 /\ Buffer_To_Write = <<>>
      BY DEF LogInv, SparesOK, NumNull
    <3> QED
      BY <3>1 DEF Asserts, LogInv, SparesOK
  <2>4. StartAsserts
    <3>1. caller \notin {"new", "starting"} /\ start_ => tid_
      <4> SUFFICES ASSUME caller \notin {"new", "starting"}, start_ PROVE tid_
        OBVIOUS
      <4>1. At(ThreadL, Caller) = "done"
        BY DEF LogInv, StartOK
      <4>2. At(ThreadL, Made) # "out"
        BY <4>1 DEF LogInv, LatchOK
      <4> QED
        BY <4>2 DEF LogInv, StartOK, PlacesOK
    <3>2. \A l \in Latches : At(l, Caller) = "test" /\ MustWait(l) => latch[l].isLock
      BY DEF LogInv, LatchOK, MustWait
    <3>3. life = "func" /\ At(LogL, Made) = "out" => running
      <4> SUFFICES ASSUME life = "func", At(LogL, Made) = "out" PROVE running
        OBVIOUS
      <4>1. At(LogL, Caller) # "done"
        BY DEF LogInv, LatchOK
      <4>2. caller \notin {"up", "stopping", "down"} /\ start_
        BY <4>1 DEF LogInv, StartOK
      <4> QED
        BY <4>2 DEF LogInv, StartOK, PlacesOK, Callers
    <3>4. caller \in {"stopping", "down"} => start_
      <4> SUFFICES ASSUME caller \in {"stopping", "down"} PROVE start_
        OBVIOUS
      <4>1. At(LogL, Caller) = "done"
        BY DEF LogInv, StartOK
      <4>2. At(LogL, Made) # "out"
        BY <4>1 DEF LogInv, LatchOK
      <4> QED
        BY <4>2 DEF LogInv, StartOK
    <3>5. caller = "down" => \A l \in Latches : ~latch[l].isLock /\ \A t \in LatchUsers : At(l, t) = "done"
      <4> SUFFICES ASSUME caller = "down"
                   PROVE  \A l \in Latches : ~latch[l].isLock /\ \A t \in LatchUsers : At(l, t) = "done"
        OBVIOUS
      <4>1. start_ /\ life = "end" /\ At(LogL, Caller) = "done"
        BY <3>4 DEF LogInv, StartOK
      <4>2. At(ThreadL, Caller) = "done" /\ At(ThreadL, Made) = "done" /\ At(LogL, Made) = "done"
        BY <4>1 DEF LogInv, StartOK
      <4>3. \A l \in Latches : At(l, Caller) = "done" /\ At(l, Made) = "done"
        BY <4>1, <4>2
      <4> QED
        BY <4>3 DEF LogInv, LatchOK
    <3> QED
      BY <3>1, <3>2, <3>3, <3>4, <3>5 DEF StartAsserts
  <2> QED
    BY <2>2, <2>3, <2>4 DEF LogConsistent
<1> QED
  BY <1>1, LogInvHolds, PTL

(***************************************************************************)
(* Lines reach the file in the order in which append took them, each once, *)
(* and none is missing but those erased when too many buffers piled up.    *)
(***************************************************************************)
THEOREM LogKeepsOrder == Spec => []InOrder
<1>1. LogInv => InOrder
  BY DEF LogInv
<1> QED
  BY <1>1, LogInvHolds, PTL

(***************************************************************************)
(* No LogStream writes past its buffer or fills it: whatever is logged in  *)
(* a line, and however often, the line fits into an empty buffer of the    *)
(* log.                                                                    *)
(***************************************************************************)
THEOREM LinesStayInBounds == Spec => []InBounds
<1>1. LogInv => InBounds
  <2> SUFFICES ASSUME LogInv, NEW f \in Fronts
               PROVE  line[f].buffer.top <= KSMALLBUFFER /\ line[f].buffer.len < KSMALLBUFFER
    BY DEF InBounds
  <2>1. line[f].buffer \in Text
    BY DEF LogInv, OutputOK
  <2> QED
    BY <2>1 DEF Text
<1> QED
  BY <1>1, LogInvHolds, PTL

(***************************************************************************)
(* Nobody appends to a log whose start has not returned, whichever thread  *)
(* comes first to pthread_once.                                            *)
(***************************************************************************)
THEOREM LogStartsOnce == Spec => []OnceStarted
<1>1. LogInv => OnceStarted
  BY DEF LogInv, OutputOK, OnceStarted
<1> QED
  BY <1>1, LogInvHolds, PTL

(***************************************************************************)
(* convert writes the decimal representation of every integer, the least   *)
(* one included, without leading zeroes.                                   *)
(***************************************************************************)
THEOREM ConvertIsRight == Spec => []ConvertRight
<1>1. LogInv => ConvertRight
  <2> SUFFICES ASSUME LogInv, NEW f \in Fronts, NEW op \in Range(line[f].ops), op.kind = "number"
               PROVE  LET t == convert(op.v)  v == DecimalValue(t.digits) IN
                        /\ op.v = IF t.neg THEN -v ELSE v
                        /\ Range(t.digits) \subseteq 0 .. 9
                        /\ Head(t.digits) = 0 => t.digits = <<0>> /\ ~t.neg
    BY DEF ConvertRight
  <2>1. op \in Ops
    BY DEF LogInv, OutputOK
  <2>2. op.v \in Ints
    <3>1. op.v \in Numbers
      BY <2>1 DEF Ops, Op
    <3>2. Numbers \subseteq Ints
      BY NumbersFit
    <3> QED
      BY <3>1, <3>2
  <2>3. PICK n \in Ints : n = op.v
    BY <2>2
  <2>4. PICK ds : ds = Digits(n, 10)
    OBVIOUS
  <2>5. Decimal(ds, Size(n))
    BY <2>4, DigitsAreRight
  <2>6. convert(op.v).neg = (n < 0) /\ convert(op.v).digits = Reverse(ds)
    BY <2>3, <2>4 DEF convert
  <2>7. n = IF n < 0 THEN -Size(n) ELSE Size(n)
    BY NumbersFit DEF Ints, Size
  <2>8. ds \in Seq(0 .. 9) /\ Len(ds) \in Nat \ {0} /\ DecimalValue(Reverse(ds)) = Size(n)
        /\ (ds[Len(ds)] = 0 => Size(n) = 0 /\ ds = <<0>>)
    BY <2>5 DEF Decimal
  <2>9. Range(Reverse(ds)) \subseteq 0 .. 9 /\ Head(Reverse(ds)) = ds[Len(ds)]
    <3>1. Reverse(ds) = [k \in 1 .. Len(ds) |-> ds[(Len(ds) - k) + 1]]
      BY DEF Reverse
    <3>2. \A k \in 1 .. Len(ds) : ds[(Len(ds) - k) + 1] \in 0 .. 9
      BY <2>8
    <3>3. Range(Reverse(ds)) \subseteq 0 .. 9
      BY <3>1, <3>2 DEF Range
    <3>4. Reverse(ds)[1] = ds[Len(ds)]
      <4>1. (Len(ds) - 1) + 1 = Len(ds) /\ 1 \in 1 .. Len(ds)
        BY <2>8
      <4> QED
        BY <3>1, <4>1
    <3>5. Head(Reverse(ds)) = Reverse(ds)[1]
      OBVIOUS
    <3> QED
      BY <3>3, <3>4, <3>5
  <2>10. Head(Reverse(ds)) = 0 => Reverse(ds) = <<0>> /\ ~(n < 0)
    <3> SUFFICES ASSUME Head(Reverse(ds)) = 0 PROVE Reverse(ds) = <<0>> /\ ~(n < 0)
      OBVIOUS
    <3>1. Size(n) = 0 /\ ds = <<0>>
      BY <2>8, <2>9
    <3>2. Reverse(<<0>>) = <<0>>
      BY DEF Reverse
    <3>3. ~(n < 0)
      BY <3>1, NumbersFit DEF Size, Ints
    <3> QED
      BY <3>1, <3>2, <3>3
  <2> QED
    BY <2>3, <2>6, <2>7, <2>8, <2>9, <2>10
<1> QED
  BY <1>1, LogInvHolds, PTL

-----------------------------------------------------------------------------
=============================================================================
