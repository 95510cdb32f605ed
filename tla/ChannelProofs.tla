---------------------------- MODULE ChannelProofs ----------------------------
(***************************************************************************)
(* For every set of coroutines, every capacity and every set of values: a  *)
(* channel loses no coroutine and no wakeup, and is a bounded FIFO buffer. *)
(***************************************************************************)
EXTENDS Channel, FiniteSetTheorems, SequenceTheorems, TLAPS

-----------------------------------------------------------------------------
(***************************************************************************)
(* Lists: what Append, Tail and concatenation hold.                        *)
(***************************************************************************)
LEMMA InAppend ==
  ASSUME NEW S, NEW q \in Seq(S), NEW c \in S
  PROVE  /\ \A d : In(Append(q, c), d) <=> In(q, d) \/ d = c
         /\ IsInjective(q) /\ ~In(q, c) => IsInjective(Append(q, c))
<1>1. /\ DOMAIN q = 1 .. Len(q) /\ Len(q) \in Nat
      /\ DOMAIN Append(q, c) = 1 .. Len(q) + 1
      /\ Append(q, c)[Len(q) + 1] = c
      /\ \A j \in 1 .. Len(q) : Append(q, c)[j] = q[j]
  OBVIOUS
<1>2. ASSUME NEW d PROVE In(Append(q, c), d) <=> In(q, d) \/ d = c
  BY <1>1 DEF In
<1>3. ASSUME IsInjective(q), ~In(q, c) PROVE IsInjective(Append(q, c))
  BY <1>1, <1>3 DEF In, IsInjective
<1> QED
  BY <1>2, <1>3

\* Tail removes the head, and only it, from a list without repetitions.
LEMMA InTail ==
  ASSUME NEW S, NEW q \in Seq(S), q # <<>>
  PROVE  /\ In(q, Head(q)) /\ Head(q) \in S /\ Tail(q) \in Seq(S)
         /\ IsInjective(q) => /\ \A d : In(Tail(q), d) <=> In(q, d) /\ d # Head(q)
                              /\ IsInjective(Tail(q))
<1>1. /\ DOMAIN q = 1 .. Len(q) /\ Len(q) \in Nat \ {0}
      /\ DOMAIN Tail(q) = 1 .. Len(q) - 1
      /\ \A j \in 1 .. Len(q) - 1 : Tail(q)[j] = q[j + 1]
      /\ Head(q) = q[1]
  OBVIOUS
<1>2. In(q, Head(q)) /\ Head(q) \in S /\ Tail(q) \in Seq(S)
  BY <1>1 DEF In
<1>3. ASSUME IsInjective(q), NEW d PROVE In(Tail(q), d) <=> In(q, d) /\ d # Head(q)
  <2>1. ASSUME In(Tail(q), d) PROVE In(q, d) /\ d # Head(q)
    <3>1. PICK j \in 1 .. Len(q) - 1 : q[j + 1] = d
      BY <1>1, <2>1 DEF In
    <3> QED
      BY <1>1, <1>3, <3>1 DEF In, IsInjective
  <2>2. ASSUME In(q, d), d # Head(q) PROVE In(Tail(q), d)
    <3>1. PICK j \in 1 .. Len(q) : q[j] = d
      BY <1>1, <2>2 DEF In
    <3>2. j - 1 \in 1 .. Len(q) - 1 /\ Tail(q)[j - 1] = d
      BY <1>1, <2>2, <3>1
    <3> QED
      BY <1>1, <3>2 DEF In
  <2> QED
    BY <2>1, <2>2
<1>4. ASSUME IsInjective(q) PROVE IsInjective(Tail(q))
  BY <1>1, <1>4 DEF IsInjective
<1> QED
  BY <1>2, <1>3, <1>4

\* A concatenation holds what its parts hold, as close makes of the three lists.
LEMMA InConcat ==
  ASSUME NEW S, NEW p \in Seq(S), NEW q \in Seq(S)
  PROVE  /\ p \o q \in Seq(S)
         /\ \A d : In(p \o q, d) <=> In(p, d) \/ In(q, d)
         /\ IsInjective(p) /\ IsInjective(q) /\ (\A d \in S : ~(In(p, d) /\ In(q, d)))
              => IsInjective(p \o q)
<1>1. /\ DOMAIN p = 1 .. Len(p) /\ Len(p) \in Nat
      /\ DOMAIN q = 1 .. Len(q) /\ Len(q) \in Nat
      /\ DOMAIN (p \o q) = 1 .. Len(p) + Len(q)
      /\ \A j \in 1 .. Len(p) : (p \o q)[j] = p[j]
      /\ \A j \in Len(p) + 1 .. Len(p) + Len(q) : (p \o q)[j] = q[j - Len(p)]
      /\ p \o q \in Seq(S)
  OBVIOUS
<1>2. ASSUME NEW d PROVE In(p \o q, d) <=> In(p, d) \/ In(q, d)
  <2>1. ASSUME In(q, d) PROVE In(p \o q, d)
    <3>1. PICK j \in 1 .. Len(q) : q[j] = d
      BY <1>1, <2>1 DEF In
    <3>2. /\ j + Len(p) \in Len(p) + 1 .. Len(p) + Len(q)
          /\ (j + Len(p)) - Len(p) = j
      BY <1>1
    <3>3. (p \o q)[j + Len(p)] = d
      BY <1>1, <3>1, <3>2
    <3>4. j + Len(p) \in DOMAIN (p \o q)
      BY <1>1, <3>2
    <3> QED
      BY <3>3, <3>4 DEF In
  <2>2. ASSUME In(p, d) PROVE In(p \o q, d)
    BY <1>1, <2>2 DEF In
  <2>3. ASSUME In(p \o q, d) PROVE In(p, d) \/ In(q, d)
    <3>1. PICK j \in 1 .. Len(p) + Len(q) : (p \o q)[j] = d
      BY <1>1, <2>3 DEF In
    <3>2. CASE j <= Len(p)
      BY <1>1, <3>1, <3>2 DEF In
    <3>3. CASE j > Len(p)
      <4>1. j - Len(p) \in 1 .. Len(q) /\ q[j - Len(p)] = d
        BY <1>1, <3>1, <3>3
      <4> QED
        BY <1>1, <4>1 DEF In
    <3> QED
      BY <1>1, <3>2, <3>3
  <2> QED
    BY <2>1, <2>2, <2>3
<1>3. ASSUME IsInjective(p), IsInjective(q), \A d \in S : ~(In(p, d) /\ In(q, d))
      PROVE  IsInjective(p \o q)
  <2> SUFFICES ASSUME NEW j \in 1 .. Len(p) + Len(q), NEW k \in 1 .. Len(p) + Len(q),
                      (p \o q)[j] = (p \o q)[k], j < k
               PROVE  FALSE
    BY <1>1 DEF IsInjective
  <2>1. CASE k <= Len(p)
    BY <1>1, <1>3, <2>1 DEF IsInjective
  <2>2. CASE j > Len(p)
    <3>1. /\ j - Len(p) \in 1 .. Len(q) /\ k - Len(p) \in 1 .. Len(q)
          /\ q[j - Len(p)] = q[k - Len(p)]
      BY <1>1, <2>2
    <3>2. j - Len(p) = k - Len(p)
      BY <1>1, <1>3, <3>1 DEF IsInjective
    <3> QED
      BY <1>1, <3>2
  <2>3. CASE j <= Len(p) /\ k > Len(p)
    <3>1. j \in 1 .. Len(p) /\ k - Len(p) \in 1 .. Len(q) /\ p[j] = q[k - Len(p)]
      BY <1>1, <2>3
    <3>2. p[j] \in S /\ In(p, p[j]) /\ In(q, p[j])
      BY <1>1, <3>1 DEF In
    <3> QED
      BY <1>3, <3>2
  <2> QED
    BY <1>1, <2>1, <2>2, <2>3
<1> QED
  BY <1>1, <1>2, <1>3

-----------------------------------------------------------------------------
(***************************************************************************)
(* Moving one coroutine into a list, out of it, or past it.                *)
(***************************************************************************)
LEMMA HoldsIn ==
  ASSUME NEW q \in Seq(Co), NEW s \in [Co -> States], NEW S, Holds(q, s, S),
         NEW c \in Co, NEW x \in States, s[c] \notin S, x \in S
  PROVE  /\ Holds(Append(q, c), [s EXCEPT ![c] = x], S)
         /\ Holds(<<c>> \o q, [s EXCEPT ![c] = x], S)
         /\ Append(q, c) \in Seq(Co) /\ <<c>> \o q \in Seq(Co)
<1>1. ~In(q, c) /\ IsInjective(q)
  BY DEF Holds
<1>2. Holds(Append(q, c), [s EXCEPT ![c] = x], S)
  BY <1>1, InAppend DEF Holds
<1>3. <<c>> \in Seq(Co) /\ IsInjective(<<c>>) /\ \A d : In(<<c>>, d) <=> d = c
  BY DEF In, IsInjective
<1>4. IsInjective(<<c>> \o q) /\ \A d : In(<<c>> \o q, d) <=> d = c \/ In(q, d)
  <2> DEFINE p == <<c>>
  <2>1. p \in Seq(Co) /\ \A d : In(p, d) <=> d = c
    BY <1>3
  <2>2. IsInjective(p) /\ \A d \in Co : ~(In(p, d) /\ In(q, d))
    BY <1>1, <1>3
  <2> HIDE DEF p
  <2>3. /\ \A d : In(p \o q, d) <=> In(p, d) \/ In(q, d)
        /\ IsInjective(p \o q)
    BY <1>1, <2>1, <2>2, InConcat
  <2>4. IsInjective(p \o q) /\ \A d : In(p \o q, d) <=> d = c \/ In(q, d)
    BY <2>1, <2>3
  <2> QED
    BY <2>4 DEF p
<1>5. Holds(<<c>> \o q, [s EXCEPT ![c] = x], S)
  BY <1>4 DEF Holds
<1> QED
  BY <1>2, <1>5

\* The head of a list leaves it when its state leaves the states of the list.
LEMMA HoldsOut ==
  ASSUME NEW q \in Seq(Co), NEW s \in [Co -> States], NEW S, Holds(q, s, S),
         q # <<>>, NEW x \in States, x \notin S
  PROVE  /\ Head(q) \in Co /\ s[Head(q)] \in S /\ Tail(q) \in Seq(Co)
         /\ Holds(Tail(q), [s EXCEPT ![Head(q)] = x], S)
<1>1. /\ Head(q) \in Co /\ In(q, Head(q)) /\ Tail(q) \in Seq(Co) /\ IsInjective(Tail(q))
      /\ \A d : In(Tail(q), d) <=> In(q, d) /\ d # Head(q)
  BY InTail DEF Holds
<1> QED
  BY <1>1 DEF Holds

\* A list is not affected by state changes that do not concern it.
LEMMA HoldsStay ==
  ASSUME NEW q, NEW s \in [Co -> States], NEW S, Holds(q, s, S),
         NEW c \in Co, NEW x \in States, s[c] \in S <=> x \in S
  PROVE  Holds(q, [s EXCEPT ![c] = x], S)
  BY DEF Holds

(***************************************************************************)
(* Counting the coroutines in a state when one of them changes.            *)
(***************************************************************************)
LEMMA NumNat ==
  ASSUME NEW s, NEW x
  PROVE  IsFiniteSet({d \in Co : s[d] = x}) /\ NumIn(s, x) \in Nat
<1>1. IsFiniteSet({d \in Co : s[d] = x})
  BY ChannelAssumption, FS_Subset
<1> QED
  BY <1>1, FS_CardinalityType DEF NumIn

\* Counting the coroutines in a state: the number stays,
LEMMA NumSame ==
  ASSUME NEW s \in [Co -> States], NEW c \in Co,
         NEW x \in States, NEW y \in States, s[c] # x, y # x
  PROVE  NumIn([s EXCEPT ![c] = y], x) = NumIn(s, x)
<1>1. {d \in Co : [s EXCEPT ![c] = y][d] = x} = {d \in Co : s[d] = x}
  OBVIOUS
<1> QED
  BY <1>1 DEF NumIn

\* it grows by one when one coroutine enters the state,
LEMMA NumUp ==
  ASSUME NEW s \in [Co -> States], NEW c \in Co, NEW x \in States, s[c] # x
  PROVE  NumIn([s EXCEPT ![c] = x], x) = NumIn(s, x) + 1
<1> DEFINE A == {d \in Co : s[d] = x}
           B == {d \in Co : [s EXCEPT ![c] = x][d] = x}
<1>1. B = A \cup {c} /\ c \notin A
  OBVIOUS
<1>2. Cardinality(B) = Cardinality(A) + 1
  <2>1. IsFiniteSet(A)
    BY NumNat
  <2> QED
    BY <1>1, <2>1, FS_AddElement
<1> QED
  BY <1>2 DEF NumIn

\* and shrinks by one when one coroutine leaves it.
LEMMA NumDown ==
  ASSUME NEW s \in [Co -> States], NEW c \in Co,
         NEW x \in States, NEW y \in States, s[c] = x, y # x
  PROVE  NumIn([s EXCEPT ![c] = y], x) = NumIn(s, x) - 1
<1> DEFINE A == {d \in Co : s[d] = x}
           B == {d \in Co : [s EXCEPT ![c] = y][d] = x}
<1>1. B = A \ {c} /\ c \in A
  OBVIOUS
<1>2. Cardinality(B) = Cardinality(A) - 1
  <2>1. IsFiniteSet(A)
    BY NumNat
  <2> QED
    BY <1>1, <2>1, FS_RemoveElement
<1> QED
  BY <1>2 DEF NumIn

-----------------------------------------------------------------------------
(***************************************************************************)
(* The inductive invariant.  Located says who is where, without which no   *)
(* count of signalled coroutines can be kept; the others are inductive     *)
(* together with it.                                                       *)
(***************************************************************************)
At(e, f, a, k, s) ==
  /\ Holds(e, s, {"get"})
  /\ Holds(f, s, {"put"})
  /\ Holds(a, s, Ready)
  /\ Holds(k, s, {"run"})

PendingFor(d, s) ==
  /\ ret[d] = Pending <=> s[d] \in Blocked
  /\ arg[d] # None <=> s[d] \in {"put", "putready"}

Inv == TypeOK /\ Located /\ SizeOK /\ NoLostWakeup /\ YieldFlag /\ PendingOK

(***************************************************************************)
(* co_cond_signal in the middle of an operation.                           *)
(***************************************************************************)
LEMMA SignalEmptyStep ==
  ASSUME TypeOK, NEW a \in Seq(Co), NEW s \in [Co -> States], NEW k,
         At(empty, full, a, k, s), SignalEmpty(a, s)
  PROVE  /\ empty' \in Seq(Co) /\ active' \in Seq(Co) /\ st' \in [Co -> States]
         /\ At(empty', full, active', k, st')
         /\ NumIn(st', "putready") = NumIn(s, "putready")
         /\ empty' # <<>> => NumIn(st', "getready") = NumIn(s, "getready") + 1
         /\ \A d \in Co : st'[d] = s[d] \/ (s[d] = "get" /\ st'[d] = "getready")
<1> USE DEF At, Ready, States
<1>1. CASE empty = <<>>
  BY <1>1 DEF SignalEmpty, TypeOK
<1>2. CASE empty # <<>>
  <2> DEFINE h == Head(empty)
  <2>1. /\ empty' = Tail(empty) /\ active' = Append(a, h)
        /\ st' = [s EXCEPT ![h] = "getready"]
    BY <1>2 DEF SignalEmpty
  <2>2. /\ h \in Co /\ s[h] = "get" /\ Tail(empty) \in Seq(Co)
        /\ Holds(empty', st', {"get"})
    <3>1. empty \in Seq(Co) /\ Holds(empty, s, {"get"})
      BY DEF TypeOK
    <3>2. "getready" \in States /\ "getready" \notin {"get"}
      OBVIOUS
    <3> HIDE DEF States
    <3>3. /\ h \in Co /\ s[h] \in {"get"} /\ Tail(empty) \in Seq(Co)
          /\ Holds(Tail(empty), [s EXCEPT ![h] = "getready"], {"get"})
      BY <1>2, <3>1, <3>2, HoldsOut
    <3> QED
      BY <2>1, <3>3
  <2> HIDE DEF h
  <2>3. Holds(active', st', Ready) /\ active' \in Seq(Co)
    BY <2>1, <2>2, HoldsIn
  <2>4. Holds(full, st', {"put"}) /\ Holds(k, st', {"run"})
    BY <2>1, <2>2, HoldsStay
  <2>5. /\ NumIn(st', "putready") = NumIn(s, "putready")
        /\ NumIn(st', "getready") = NumIn(s, "getready") + 1
    <3>1. NumIn(st', "putready") = NumIn(s, "putready")
      BY <2>1, <2>2, NumSame
    <3>2. NumIn(st', "getready") = NumIn(s, "getready") + 1
      BY <2>1, <2>2, NumUp
    <3> QED
      BY <3>1, <3>2
  <2> QED
    BY <2>1, <2>2, <2>3, <2>4, <2>5
<1> QED
  BY <1>1, <1>2

\* The same for a signal to the putters.
LEMMA SignalFullStep ==
  ASSUME TypeOK, NEW a \in Seq(Co), NEW s \in [Co -> States], NEW k,
         At(empty, full, a, k, s), SignalFull(a, s)
  PROVE  /\ full' \in Seq(Co) /\ active' \in Seq(Co) /\ st' \in [Co -> States]
         /\ At(empty, full', active', k, st')
         /\ NumIn(st', "getready") = NumIn(s, "getready")
         /\ full' # <<>> => NumIn(st', "putready") = NumIn(s, "putready") + 1
         /\ \A d \in Co : st'[d] = s[d] \/ (s[d] = "put" /\ st'[d] = "putready")
<1> USE DEF At, Ready, States
<1>1. CASE full = <<>>
  BY <1>1 DEF SignalFull, TypeOK
<1>2. CASE full # <<>>
  <2> DEFINE h == Head(full)
  <2>1. /\ full' = Tail(full) /\ active' = Append(a, h)
        /\ st' = [s EXCEPT ![h] = "putready"]
    BY <1>2 DEF SignalFull
  <2>2. /\ h \in Co /\ s[h] = "put" /\ Tail(full) \in Seq(Co)
        /\ Holds(full', st', {"put"})
    <3>1. full \in Seq(Co) /\ Holds(full, s, {"put"})
      BY DEF TypeOK
    <3>2. "putready" \in States /\ "putready" \notin {"put"}
      OBVIOUS
    <3> HIDE DEF States
    <3>3. /\ h \in Co /\ s[h] \in {"put"} /\ Tail(full) \in Seq(Co)
          /\ Holds(Tail(full), [s EXCEPT ![h] = "putready"], {"put"})
      BY <1>2, <3>1, <3>2, HoldsOut
    <3> QED
      BY <2>1, <3>3
  <2> HIDE DEF h
  <2>3. Holds(active', st', Ready) /\ active' \in Seq(Co)
    BY <2>1, <2>2, HoldsIn
  <2>4. Holds(empty, st', {"get"}) /\ Holds(k, st', {"run"})
    BY <2>1, <2>2, HoldsStay
  <2>5. /\ NumIn(st', "getready") = NumIn(s, "getready")
        /\ NumIn(st', "putready") = NumIn(s, "putready") + 1
    <3>1. NumIn(st', "getready") = NumIn(s, "getready")
      BY <2>1, <2>2, NumSame
    <3>2. NumIn(st', "putready") = NumIn(s, "putready") + 1
      BY <2>1, <2>2, NumUp
    <3> QED
      BY <3>1, <3>2
  <2> QED
    BY <2>1, <2>2, <2>3, <2>4, <2>5
<1> QED
  BY <1>1, <1>2

(***************************************************************************)
(* The successful end of a put and of a get, from the point where the      *)
(* coroutine is on the call stack again: s counts it out of the signalled  *)
(* coroutines if it was one.                                               *)
(***************************************************************************)
LEMMA PutReturnInv ==
  ASSUME TypeOK, SizeOK, ~close, size # Cap,
         NEW a \in Seq(Co), NEW s \in [Co -> States], NEW k \in Seq(Co),
         NEW c \in Co, NEW v \in Values, s[c] = "run",
         At(empty, full, a, k, s),
         empty # <<>> => size <= NumIn(s, "getready"),
         full # <<>> => Cap <= size + 1 + NumIn(s, "putready"),
         \A d \in Co \ {c} : PendingFor(d, s),
         PutReturn(c, v, a, s), stack' = k, phase' = phase
  PROVE  Inv'
<1> USE ChannelAssumption
<1>1. /\ empty' \in Seq(Co) /\ active' \in Seq(Co) /\ st' \in [Co -> States]
      /\ At(empty', full, active', k, st')
      /\ NumIn(st', "putready") = NumIn(s, "putready")
      /\ empty' # <<>> => NumIn(st', "getready") = NumIn(s, "getready") + 1
      /\ \A d \in Co : st'[d] = s[d] \/ (s[d] = "get" /\ st'[d] = "getready")
  BY SignalEmptyStep DEF PutReturn
<1>2. empty' # <<>> => empty # <<>>
  BY DEF PutReturn, SignalEmpty
<1>3. /\ is_yield' = FALSE /\ queue' = Append(queue, v) /\ size' = size + 1
      /\ ret' = [ret EXCEPT ![c] = v] /\ arg' = [arg EXCEPT ![c] = None]
      /\ close' = close /\ full' = full
  BY DEF PutReturn, Return
<1>4. TypeOK'
  <2>1. queue' \in Seq(Values) /\ size' \in Nat
    BY <1>3 DEF TypeOK
  <2>2. is_yield' \in BOOLEAN /\ close' \in BOOLEAN
    BY <1>3 DEF TypeOK
  <2>3. arg' \in [Co -> Values \cup {None}] /\ ret' \in [Co -> Results]
    BY <1>3 DEF TypeOK, Results
  <2> QED
    BY <1>1, <1>3, <2>1, <2>2, <2>3 DEF TypeOK
<1>5. Located'
  BY <1>1, <1>3 DEF Located, At
<1>6. SizeOK'
  BY <1>3 DEF SizeOK, TypeOK
<1>7. NoLostWakeup'
  <2>1. NumIn(s, "putready") \in Nat /\ NumIn(s, "getready") \in Nat
    BY NumNat
  <2> QED
    BY <1>1, <1>2, <1>3, <2>1 DEF NoLostWakeup, TypeOK
<1>8. YieldFlag'
  BY <1>3 DEF YieldFlag
<1>9. PendingOK'
  <2> SUFFICES ASSUME NEW d \in Co PROVE PendingFor(d, st)'
    BY DEF PendingOK, PendingFor
  <2>1. CASE d = c
    BY <1>1, <1>3, <2>1 DEF PendingFor, TypeOK, Blocked
  <2>2. CASE d # c
    <3>1. PendingFor(d, s)
      BY <2>2
    <3> QED
      BY <1>1, <1>3, <2>2, <3>1 DEF PendingFor, TypeOK, Blocked
  <2> QED
    BY <2>1, <2>2
<1> QED
  BY <1>4, <1>5, <1>6, <1>7, <1>8, <1>9 DEF Inv

\* The same for the end of a get.
LEMMA GetReturnInv ==
  ASSUME TypeOK, SizeOK, ~close, size # 0,
         NEW a \in Seq(Co), NEW s \in [Co -> States], NEW k \in Seq(Co),
         NEW c \in Co, s[c] = "run",
         At(empty, full, a, k, s),
         empty # <<>> => size <= 1 + NumIn(s, "getready"),
         full # <<>> => Cap <= size + NumIn(s, "putready"),
         \A d \in Co \ {c} : PendingFor(d, s),
         GetReturn(c, a, s), stack' = k, phase' = phase
  PROVE  Inv'
<1> USE ChannelAssumption
<1>1. /\ full' \in Seq(Co) /\ active' \in Seq(Co) /\ st' \in [Co -> States]
      /\ At(empty, full', active', k, st')
      /\ NumIn(st', "getready") = NumIn(s, "getready")
      /\ full' # <<>> => NumIn(st', "putready") = NumIn(s, "putready") + 1
      /\ \A d \in Co : st'[d] = s[d] \/ (s[d] = "put" /\ st'[d] = "putready")
  BY SignalFullStep DEF GetReturn
<1>2. full' # <<>> => full # <<>>
  BY DEF GetReturn, SignalFull
<1>3. /\ is_yield' = FALSE /\ queue' = Tail(queue) /\ size' = size - 1
      /\ ret' = [ret EXCEPT ![c] = Head(queue)] /\ arg' = [arg EXCEPT ![c] = None]
      /\ close' = close /\ empty' = empty
  BY DEF GetReturn, Return
<1>4. queue # <<>> /\ Head(queue) \in Values /\ Tail(queue) \in Seq(Values)
      /\ Len(Tail(queue)) = Len(queue) - 1
  BY DEF SizeOK, TypeOK
<1>5. TypeOK'
  <2>1. queue' \in Seq(Values) /\ size' \in Nat
    BY <1>3, <1>4 DEF TypeOK
  <2>2. is_yield' \in BOOLEAN /\ close' \in BOOLEAN
    BY <1>3 DEF TypeOK
  <2>3. arg' \in [Co -> Values \cup {None}] /\ ret' \in [Co -> Results]
    BY <1>3, <1>4 DEF TypeOK, Results
  <2> QED
    BY <1>1, <1>3, <2>1, <2>2, <2>3 DEF TypeOK
<1>6. Located'
  BY <1>1, <1>3 DEF Located, At
<1>7. SizeOK'
  BY <1>3, <1>4 DEF SizeOK, TypeOK
<1>8. NoLostWakeup'
  <2>1. NumIn(s, "putready") \in Nat /\ NumIn(s, "getready") \in Nat
    BY NumNat
  <2> QED
    BY <1>1, <1>2, <1>3, <2>1 DEF NoLostWakeup, TypeOK
<1>9. YieldFlag'
  BY <1>3 DEF YieldFlag
<1>10. PendingOK'
  <2> SUFFICES ASSUME NEW d \in Co PROVE PendingFor(d, st)'
    BY DEF PendingOK, PendingFor
  <2>1. CASE d = c
    BY <1>1, <1>3, <1>4, <2>1 DEF PendingFor, TypeOK, Blocked
  <2>2. CASE d # c
    <3>1. PendingFor(d, s)
      BY <2>2
    <3> QED
      BY <1>1, <1>3, <2>2, <3>1 DEF PendingFor, TypeOK, Blocked
  <2> QED
    BY <2>1, <2>2
<1> QED
  BY <1>5, <1>6, <1>7, <1>8, <1>9, <1>10 DEF Inv

(***************************************************************************)
(* co_cond_wait, by a running coroutine or again by one that was signalled *)
(* and found the channel full (empty) once more.                           *)
(***************************************************************************)
LEMMA WaitFullInv ==
  ASSUME Inv, ~close, size = Cap, NEW c \in Co, st[c] \in {"run", "putready"},
         WaitFull(c), phase' = phase,
         active' \in Seq(Co), stack' \in Seq(Co),
         Holds(active', st', Ready), Holds(stack', st', {"run"}),
         arg' \in [Co -> Values \cup {None}], ret' \in [Co -> Results],
         arg'[c] \in Values, ret'[c] = Pending,
         \A d \in Co \ {c} : arg'[d] = arg[d] /\ ret'[d] = ret[d]
  PROVE  Inv'
<1> USE ChannelAssumption
<1>1. /\ is_yield' = TRUE /\ full' = Append(full, c)
      /\ st' = [st EXCEPT ![c] = "put"]
      /\ queue' = queue /\ size' = size /\ close' = close /\ empty' = empty
  BY DEF WaitFull
<1>2. st \in [Co -> States] /\ full \in Seq(Co) /\ st' \in [Co -> States] /\ "put" \in States
  BY <1>1 DEF Inv, TypeOK, States
<1>3. Holds(full', st', {"put"}) /\ full' \in Seq(Co)
  <2>1. Holds(full, st, {"put"}) /\ st[c] \notin {"put"} /\ "put" \in {"put"}
    BY DEF Inv, Located
  <2> QED
    BY <1>1, <1>2, <2>1, HoldsIn
<1>4. Holds(empty', st', {"get"})
  <2>1. Holds(empty, st, {"get"}) /\ (st[c] \in {"get"} <=> "put" \in {"get"})
    BY DEF Inv, Located
  <2> QED
    BY <1>1, <1>2, <2>1, HoldsStay
<1>5. TypeOK'
  <2>1. is_yield' \in BOOLEAN /\ close' \in BOOLEAN
    BY <1>1 DEF Inv, TypeOK
  <2> QED
    BY <1>1, <1>2, <1>3, <2>1 DEF Inv, TypeOK
<1>6. Located'
  BY <1>3, <1>4 DEF Located
<1>7. SizeOK'
  BY <1>1 DEF Inv, SizeOK
<1>8. NoLostWakeup'
  <2>1. NumIn(st', "getready") = NumIn(st, "getready")
    <3>1. st[c] # "getready" /\ "put" # "getready"
      OBVIOUS
    <3>2. NumIn([st EXCEPT ![c] = "put"], "getready") = NumIn(st, "getready")
      BY <1>2, <3>1, NumSame DEF States
    <3> QED
      BY <1>1, <3>2
  <2>2. NumIn(st', "putready") \in Nat
    BY NumNat
  <2> QED
    BY <1>1, <2>1, <2>2 DEF Inv, NoLostWakeup, TypeOK
<1>9. YieldFlag'
  BY <1>1, <1>2 DEF YieldFlag, Blocked
<1>10. PendingOK'
  BY <1>1, <1>2 DEF Inv, PendingOK, Blocked
<1> QED
  BY <1>5, <1>6, <1>7, <1>8, <1>9, <1>10 DEF Inv

\* The same for a getter that waits.
LEMMA WaitEmptyInv ==
  ASSUME Inv, ~close, size = 0, NEW c \in Co, st[c] \in {"run", "getready"},
         WaitEmpty(c), phase' = phase, arg' = arg, arg[c] = None,
         active' \in Seq(Co), stack' \in Seq(Co),
         Holds(active', st', Ready), Holds(stack', st', {"run"}),
         ret' \in [Co -> Results], ret'[c] = Pending,
         \A d \in Co \ {c} : ret'[d] = ret[d]
  PROVE  Inv'
<1> USE ChannelAssumption
<1>1. /\ is_yield' = TRUE /\ empty' = Append(empty, c)
      /\ st' = [st EXCEPT ![c] = "get"]
      /\ queue' = queue /\ size' = size /\ close' = close /\ full' = full
  BY DEF WaitEmpty
<1>2. st \in [Co -> States] /\ empty \in Seq(Co) /\ st' \in [Co -> States] /\ "get" \in States
  BY <1>1 DEF Inv, TypeOK, States
<1>3. Holds(empty', st', {"get"}) /\ empty' \in Seq(Co)
  <2>1. Holds(empty, st, {"get"}) /\ st[c] \notin {"get"} /\ "get" \in {"get"}
    BY DEF Inv, Located
  <2> QED
    BY <1>1, <1>2, <2>1, HoldsIn
<1>4. Holds(full', st', {"put"})
  <2>1. Holds(full, st, {"put"}) /\ (st[c] \in {"put"} <=> "get" \in {"put"})
    BY DEF Inv, Located
  <2> QED
    BY <1>1, <1>2, <2>1, HoldsStay
<1>5. TypeOK'
  <2>1. is_yield' \in BOOLEAN /\ close' \in BOOLEAN
    BY <1>1 DEF Inv, TypeOK
  <2> QED
    BY <1>1, <1>2, <1>3, <2>1 DEF Inv, TypeOK
<1>6. Located'
  BY <1>3, <1>4 DEF Located
<1>7. SizeOK'
  BY <1>1 DEF Inv, SizeOK
<1>8. NoLostWakeup'
  <2>1. NumIn(st', "putready") = NumIn(st, "putready")
    <3>1. st[c] # "putready" /\ "get" # "putready"
      OBVIOUS
    <3>2. NumIn([st EXCEPT ![c] = "get"], "putready") = NumIn(st, "putready")
      BY <1>2, <3>1, NumSame DEF States
    <3> QED
      BY <1>1, <3>2
  <2>2. NumIn(st', "getready") \in Nat
    BY NumNat
  <2> QED
    BY <1>1, <2>1, <2>2 DEF Inv, NoLostWakeup, TypeOK
<1>9. YieldFlag'
  BY <1>1, <1>2 DEF YieldFlag, Blocked
<1>10. PendingOK'
  BY <1>1, <1>2 DEF Inv, PendingOK, Blocked
<1> QED
  BY <1>5, <1>6, <1>7, <1>8, <1>9, <1>10 DEF Inv

(***************************************************************************)
(* An operation on a closed channel returns false.                         *)
(***************************************************************************)
LEMMA RefuseInv ==
  ASSUME Inv, close, NEW c \in Co, st[c] \notin {"get", "put"},
         Return(c, Closed), UNCHANGED <<chanVars, phase>>,
         st' = [st EXCEPT ![c] = "run"],
         active' \in Seq(Co), stack' \in Seq(Co),
         Holds(active', st', Ready), Holds(stack', st', {"run"})
  PROVE  Inv'
<1> USE ChannelAssumption
<1>1. UNCHANGED <<queue, size, is_yield, close, empty, full>>
  BY DEF chanVars
<1>2. st \in [Co -> States] /\ st' \in [Co -> States] /\ "run" \in States
  BY DEF Inv, TypeOK, States
<1>3. ret' = [ret EXCEPT ![c] = Closed] /\ arg' = [arg EXCEPT ![c] = None]
  BY DEF Return
<1>4. Holds(full', st', {"put"})
  <2>1. Holds(full, st, {"put"}) /\ (st[c] \in {"put"} <=> "run" \in {"put"})
    BY DEF Inv, Located
  <2> QED
    BY <1>1, <1>2, <2>1, HoldsStay
<1>5. Holds(empty', st', {"get"})
  <2>1. Holds(empty, st, {"get"}) /\ (st[c] \in {"get"} <=> "run" \in {"get"})
    BY DEF Inv, Located
  <2> QED
    BY <1>1, <1>2, <2>1, HoldsStay
<1>6. TypeOK'
  <2>1. arg' \in [Co -> Values \cup {None}] /\ ret' \in [Co -> Results]
    BY <1>3 DEF Inv, TypeOK, Results
  <2> QED
    BY <1>1, <1>2, <2>1 DEF Inv, TypeOK
<1>7. Located'
  BY <1>4, <1>5 DEF Located
<1>8. SizeOK' /\ NoLostWakeup' /\ YieldFlag'
  BY <1>1 DEF Inv, SizeOK, NoLostWakeup, YieldFlag
<1>9. PendingOK'
  BY <1>2, <1>3 DEF Inv, PendingOK, TypeOK, Blocked
<1> QED
  BY <1>6, <1>7, <1>8, <1>9 DEF Inv

(***************************************************************************)
(* A coroutine that is in no operation of the channel changes its state.   *)
(***************************************************************************)
LEMMA QuietInv ==
  ASSUME Inv, NEW c \in Co, NEW x \in States \ Blocked, st[c] \notin Blocked,
         st' = [st EXCEPT ![c] = x], UNCHANGED <<chanVars, arg, ret>>,
         active' \in Seq(Co), stack' \in Seq(Co), phase' \in Phases,
         Holds(active', st', Ready), Holds(stack', st', {"run"})
  PROVE  Inv'
<1>1. UNCHANGED <<queue, size, is_yield, close, empty, full>>
  BY DEF chanVars
<1>2. st \in [Co -> States] /\ st' \in [Co -> States]
  BY DEF Inv, TypeOK
<1>3. Holds(full', st', {"put"})
  <2>1. Holds(full, st, {"put"}) /\ (st[c] \in {"put"} <=> x \in {"put"})
    BY DEF Inv, Located, Blocked
  <2> QED
    BY <1>1, <1>2, <2>1, HoldsStay
<1>4. Holds(empty', st', {"get"})
  <2>1. Holds(empty, st, {"get"}) /\ (st[c] \in {"get"} <=> x \in {"get"})
    BY DEF Inv, Located, Blocked
  <2> QED
    BY <1>1, <1>2, <2>1, HoldsStay
<1>5. TypeOK'
  BY <1>1, <1>2 DEF Inv, TypeOK
<1>6. Located'
  BY <1>3, <1>4 DEF Located
<1>7. NoLostWakeup'
  <2>1. x # "getready" /\ st[c] # "getready" /\ x # "putready" /\ st[c] # "putready"
    BY DEF Blocked
  <2>2. NumIn(st', "getready") = NumIn(st, "getready")
    <3>1. {d \in Co : st'[d] = "getready"} = {d \in Co : st[d] = "getready"}
      BY <1>2, <2>1
    <3> QED
      BY <3>1 DEF NumIn
  <2>3. NumIn(st', "putready") = NumIn(st, "putready")
    <3>1. {d \in Co : st'[d] = "putready"} = {d \in Co : st[d] = "putready"}
      BY <1>2, <2>1
    <3> QED
      BY <3>1 DEF NumIn
  <2> QED
    BY <1>1, <2>2, <2>3 DEF Inv, NoLostWakeup
<1>8. SizeOK'
  BY <1>1 DEF Inv, SizeOK
<1>9. YieldFlag'
  BY <1>1, <1>2 DEF Inv, YieldFlag
<1>10. PendingOK'
  BY <1>2 DEF Inv, PendingOK, Blocked
<1> QED
  BY <1>5, <1>6, <1>7, <1>8, <1>9, <1>10 DEF Inv

-----------------------------------------------------------------------------
(***************************************************************************)
(* The coroutine on top of the call stack, and the one event_loop resumes. *)
(***************************************************************************)
LEMMA RunningFacts ==
  ASSUME Inv, NEW c \in Co, Running(c)
  PROVE  /\ st[c] = "run" /\ stack # <<>> /\ c = Head(stack) /\ Tail(stack) \in Seq(Co)
         /\ \A x \in States \ {"run"} : Holds(Tail(stack), [st EXCEPT ![c] = x], {"run"})
<1>1. stack \in Seq(Co) /\ st \in [Co -> States] /\ Holds(stack, st, {"run"})
  BY DEF Inv, TypeOK, Located
<1>2. stack # <<>> /\ c = Head(stack)
  BY DEF Running
<1>3. st[c] = "run" /\ Tail(stack) \in Seq(Co)
  BY <1>1, <1>2, InTail DEF Holds
<1>4. ASSUME NEW x \in States \ {"run"}
      PROVE  Holds(Tail(stack), [st EXCEPT ![c] = x], {"run"})
  <2>1. x \in States /\ x \notin {"run"}
    BY <1>4
  <2> QED
    BY <1>1, <1>2, <2>1, HoldsOut
<1> QED
  BY <1>2, <1>3, <1>4

\* What holds of the coroutine that the drain loop resumes.
LEMMA ResumesFacts ==
  ASSUME Inv, NEW c \in Co, Resumes(c)
  PROVE  /\ st[c] \in Ready /\ stack = <<>> /\ Tail(active) \in Seq(Co) /\ <<c>> \in Seq(Co)
         /\ \A x \in States \ Ready : Holds(Tail(active), [st EXCEPT ![c] = x], Ready)
         /\ Holds(<<c>>, [st EXCEPT ![c] = "run"], {"run"})
         /\ \A x \in States \ {"run"} : Holds(stack, [st EXCEPT ![c] = x], {"run"})
<1>1. /\ active \in Seq(Co) /\ stack \in Seq(Co) /\ st \in [Co -> States]
      /\ Holds(active, st, Ready) /\ Holds(stack, st, {"run"})
  BY DEF Inv, TypeOK, Located
<1>2. active # <<>> /\ c = Head(active) /\ stack = <<>>
  BY DEF Resumes
<1>3. st[c] \in Ready /\ Tail(active) \in Seq(Co)
  BY <1>1, <1>2, InTail DEF Holds
<1>4. ASSUME NEW x \in States \ Ready
      PROVE  Holds(Tail(active), [st EXCEPT ![c] = x], Ready)
  <2>1. x \in States /\ x \notin Ready
    BY <1>4
  <2> QED
    BY <1>1, <1>2, <2>1, HoldsOut
<1>5. Holds(<<c>>, [st EXCEPT ![c] = "run"], {"run"})
  <2>1. st[c] \notin {"run"} /\ "run" \in {"run"} /\ "run" \in States
    BY <1>3 DEF Ready, States
  <2>2. Holds(<<c>> \o stack, [st EXCEPT ![c] = "run"], {"run"})
    BY <1>1, <2>1, HoldsIn
  <2>3. <<c>> \o stack = <<c>>
    BY <1>2
  <2> QED
    BY <2>2, <2>3
<1>6. ASSUME NEW x \in States \ {"run"}
      PROVE  Holds(stack, [st EXCEPT ![c] = x], {"run"})
  <2>1. x \in States /\ (st[c] \in {"run"} <=> x \in {"run"})
    BY <1>3, <1>6 DEF Ready
  <2> QED
    BY <1>1, <2>1, HoldsStay
<1> QED
  BY <1>2, <1>3, <1>4, <1>5, <1>6

(***************************************************************************)
(* A state change that is not about the active list leaves it correct.     *)
(***************************************************************************)
LEMMA ActiveStays ==
  ASSUME Inv, NEW c \in Co, NEW x \in States \ Ready, st[c] \notin Ready
  PROVE  Holds(active, [st EXCEPT ![c] = x], Ready)
<1>1. Holds(active, st, Ready) /\ st \in [Co -> States] /\ x \in States
  BY DEF Inv, Located, TypeOK
<1>2. st[c] \in Ready <=> x \in Ready
  OBVIOUS
<1> QED
  BY <1>1, <1>2, HoldsStay

\* put by a running coroutine preserves the invariant,
LEMMA PutInv ==
  ASSUME Inv, NEW c \in Co, NEW v \in Values, Put(c, v)
  PROVE  Inv'
<1> USE ChannelAssumption
<1>1. /\ st[c] = "run" /\ Tail(stack) \in Seq(Co)
      /\ \A x \in States \ {"run"} : Holds(Tail(stack), [st EXCEPT ![c] = x], {"run"})
  BY RunningFacts DEF Put
<1>2. TypeOK /\ SizeOK /\ st \in [Co -> States] /\ active \in Seq(Co) /\ stack \in Seq(Co)
  BY DEF Inv, TypeOK
<1>3. CASE close
  <2>1. Return(c, Closed) /\ UNCHANGED <<chanVars, active, stack, st, phase>>
    BY <1>3 DEF Put
  <2>2. st' = [st EXCEPT ![c] = "run"]
    BY <1>1, <1>2, <2>1
  <2>3. Holds(active', st', Ready) /\ Holds(stack', st', {"run"})
    BY <2>1 DEF Inv, Located
  <2> QED
    BY <1>1, <1>2, <1>3, <2>1, <2>2, <2>3, RefuseInv
<1>4. CASE ~close /\ size # Cap
  <2>1. PutReturn(c, v, active, st) /\ stack' = stack /\ phase' = phase
    BY <1>4 DEF Put
  <2>2. At(empty, full, active, stack, st)
    BY DEF Inv, Located, At
  <2>3. /\ empty # <<>> => size <= NumIn(st, "getready")
        /\ full # <<>> => Cap <= size + 1 + NumIn(st, "putready")
    <3>1. NumIn(st, "putready") \in Nat
      BY NumNat
    <3> QED
      BY <1>2, <3>1 DEF Inv, NoLostWakeup, TypeOK
  <2>4. \A d \in Co \ {c} : PendingFor(d, st)
    BY DEF Inv, PendingOK, PendingFor
  <2> QED
    BY <1>1, <1>2, <1>4, <2>1, <2>2, <2>3, <2>4, PutReturnInv
<1>5. CASE ~close /\ size = Cap
  <2>1. /\ WaitFull(c) /\ stack' = Tail(stack) /\ active' = active /\ phase' = phase
        /\ ret' = [ret EXCEPT ![c] = Pending] /\ arg' = [arg EXCEPT ![c] = v]
    BY <1>5 DEF Put
  <2>2. st' = [st EXCEPT ![c] = "put"]
    BY <2>1 DEF WaitFull
  <2>3. Holds(active', st', Ready)
    BY <1>1, <2>1, <2>2, ActiveStays DEF Ready, States
  <2>4. Holds(stack', st', {"run"})
    BY <1>1, <2>1, <2>2 DEF States
  <2>5. /\ arg' \in [Co -> Values \cup {None}] /\ ret' \in [Co -> Results]
        /\ arg'[c] \in Values /\ ret'[c] = Pending
        /\ \A d \in Co \ {c} : arg'[d] = arg[d] /\ ret'[d] = ret[d]
    BY <1>2, <2>1 DEF TypeOK, Results
  <2> QED
    BY <1>1, <1>2, <1>5, <2>1, <2>3, <2>4, <2>5, WaitFullInv
<1> QED
  BY <1>3, <1>4, <1>5

\* so does get,
LEMMA GetInv ==
  ASSUME Inv, NEW c \in Co, Get(c)
  PROVE  Inv'
<1> USE ChannelAssumption
<1>1. /\ st[c] = "run" /\ Tail(stack) \in Seq(Co)
      /\ \A x \in States \ {"run"} : Holds(Tail(stack), [st EXCEPT ![c] = x], {"run"})
  BY RunningFacts DEF Get
<1>2. TypeOK /\ SizeOK /\ st \in [Co -> States] /\ active \in Seq(Co) /\ stack \in Seq(Co)
  BY DEF Inv, TypeOK
<1>3. CASE close
  <2>1. Return(c, Closed) /\ UNCHANGED <<chanVars, active, stack, st, phase>>
    BY <1>3 DEF Get
  <2>2. st' = [st EXCEPT ![c] = "run"]
    BY <1>1, <1>2, <2>1
  <2>3. Holds(active', st', Ready) /\ Holds(stack', st', {"run"})
    BY <2>1 DEF Inv, Located
  <2> QED
    BY <1>1, <1>2, <1>3, <2>1, <2>2, <2>3, RefuseInv
<1>4. CASE ~close /\ size # 0
  <2>1. GetReturn(c, active, st) /\ stack' = stack /\ phase' = phase
    BY <1>4 DEF Get
  <2>2. At(empty, full, active, stack, st)
    BY DEF Inv, Located, At
  <2>3. /\ empty # <<>> => size <= 1 + NumIn(st, "getready")
        /\ full # <<>> => Cap <= size + NumIn(st, "putready")
    <3>1. NumIn(st, "getready") \in Nat
      BY NumNat
    <3> QED
      BY <1>2, <3>1 DEF Inv, NoLostWakeup, TypeOK
  <2>4. \A d \in Co \ {c} : PendingFor(d, st)
    BY DEF Inv, PendingOK, PendingFor
  <2> QED
    BY <1>1, <1>2, <1>4, <2>1, <2>2, <2>3, <2>4, GetReturnInv
<1>5. CASE ~close /\ size = 0
  <2>1. /\ WaitEmpty(c) /\ stack' = Tail(stack) /\ active' = active /\ phase' = phase
        /\ ret' = [ret EXCEPT ![c] = Pending] /\ arg' = arg
    BY <1>5 DEF Get
  <2>2. st' = [st EXCEPT ![c] = "get"]
    BY <2>1 DEF WaitEmpty
  <2>3. Holds(active', st', Ready)
    BY <1>1, <2>1, <2>2, ActiveStays DEF Ready, States
  <2>4. Holds(stack', st', {"run"})
    BY <1>1, <2>1, <2>2 DEF States
  <2>5. /\ ret' \in [Co -> Results] /\ ret'[c] = Pending
        /\ \A d \in Co \ {c} : ret'[d] = ret[d]
    BY <1>2, <2>1 DEF TypeOK, Results
  <2>6. arg[c] = None
    BY <1>1 DEF Inv, PendingOK
  <2> QED
    BY <1>1, <1>2, <1>5, <2>1, <2>3, <2>4, <2>5, <2>6, WaitEmptyInv
<1> QED
  BY <1>3, <1>4, <1>5

\* the rest of a put after its wait,
LEMMA ResumePutInv ==
  ASSUME Inv, NEW c \in Co, ResumePut(c)
  PROVE  Inv'
<1> USE ChannelAssumption
<1> DEFINE s == [st EXCEPT ![c] = "run"]
<1>1. /\ st[c] = "putready" /\ stack = <<>> /\ Tail(active) \in Seq(Co) /\ <<c>> \in Seq(Co)
      /\ \A x \in States \ Ready : Holds(Tail(active), [st EXCEPT ![c] = x], Ready)
      /\ Holds(<<c>>, s, {"run"})
      /\ \A x \in States \ {"run"} : Holds(stack, [st EXCEPT ![c] = x], {"run"})
  BY ResumesFacts DEF ResumePut
<1>2. TypeOK /\ SizeOK /\ st \in [Co -> States] /\ s \in [Co -> States] /\ stack \in Seq(Co)
  BY DEF Inv, TypeOK, States
<1>3. Holds(Tail(active), s, Ready)
  BY <1>1 DEF Ready, States
<1>4. arg[c] \in Values /\ ret[c] = Pending
  BY <1>1, <1>2 DEF Inv, PendingOK, TypeOK, Blocked
<1>5. CASE close
  <2>1. /\ Return(c, Closed) /\ UNCHANGED <<chanVars, phase>>
        /\ active' = Tail(active) /\ stack' = <<c>> /\ st' = s
    BY <1>5 DEF ResumePut
  <2> QED
    BY <1>1, <1>3, <1>5, <2>1, RefuseInv
<1>6. CASE ~close /\ size # Cap
  <2>1. PutReturn(c, arg[c], Tail(active), s) /\ stack' = <<c>> /\ phase' = phase
    BY <1>6 DEF ResumePut
  <2>2. At(empty, full, Tail(active), <<c>>, s)
    <3>1. Holds(empty, s, {"get"}) /\ Holds(full, s, {"put"})
      BY <1>1, <1>2 DEF Inv, Located, Holds
    <3> QED
      BY <1>1, <1>3, <3>1 DEF At
  <2>3. /\ empty # <<>> => size <= NumIn(s, "getready")
        /\ full # <<>> => Cap <= size + 1 + NumIn(s, "putready")
    <3>1. NumIn(s, "getready") = NumIn(st, "getready")
      BY <1>1, <1>2, NumSame DEF States
    <3>2. NumIn(s, "putready") = NumIn(st, "putready") - 1
      BY <1>1, <1>2, NumDown DEF States
    <3>3. NumIn(st, "putready") \in Nat /\ NumIn(st, "getready") \in Nat
      BY NumNat
    <3> QED
      BY <1>2, <3>1, <3>2, <3>3 DEF Inv, NoLostWakeup, TypeOK
  <2>4. \A d \in Co \ {c} : PendingFor(d, s)
    BY <1>2 DEF Inv, PendingOK, PendingFor
  <2>5. s[c] = "run"
    BY <1>2
  <2> HIDE DEF s
  <2> QED
    BY <1>1, <1>2, <1>4, <1>6, <2>1, <2>2, <2>3, <2>4, <2>5, PutReturnInv
<1>7. CASE ~close /\ size = Cap
  <2>1. /\ WaitFull(c) /\ active' = Tail(active) /\ stack' = stack /\ phase' = phase
        /\ ret' = ret /\ arg' = arg
    BY <1>7 DEF ResumePut
  <2>2. st' = [st EXCEPT ![c] = "put"]
    BY <2>1 DEF WaitFull
  <2>3. Holds(active', st', Ready) /\ Holds(stack', st', {"run"})
    BY <1>1, <2>1, <2>2 DEF Ready, States
  <2>4. arg' \in [Co -> Values \cup {None}] /\ ret' \in [Co -> Results]
    BY <1>2, <2>1 DEF TypeOK
  <2> QED
    BY <1>1, <1>2, <1>4, <1>7, <2>1, <2>3, <2>4, WaitFullInv
<1> QED
  BY <1>5, <1>6, <1>7

\* and the rest of a get.
LEMMA ResumeGetInv ==
  ASSUME Inv, NEW c \in Co, ResumeGet(c)
  PROVE  Inv'
<1> USE ChannelAssumption
<1> DEFINE s == [st EXCEPT ![c] = "run"]
<1>1. /\ st[c] = "getready" /\ stack = <<>> /\ Tail(active) \in Seq(Co) /\ <<c>> \in Seq(Co)
      /\ \A x \in States \ Ready : Holds(Tail(active), [st EXCEPT ![c] = x], Ready)
      /\ Holds(<<c>>, s, {"run"})
      /\ \A x \in States \ {"run"} : Holds(stack, [st EXCEPT ![c] = x], {"run"})
  BY ResumesFacts DEF ResumeGet
<1>2. TypeOK /\ SizeOK /\ st \in [Co -> States] /\ s \in [Co -> States] /\ stack \in Seq(Co)
  BY DEF Inv, TypeOK, States
<1>3. Holds(Tail(active), s, Ready)
  BY <1>1 DEF Ready, States
<1>4. arg[c] = None /\ ret[c] = Pending
  BY <1>1, <1>2 DEF Inv, PendingOK, TypeOK, Blocked
<1>5. CASE close
  <2>1. /\ Return(c, Closed) /\ UNCHANGED <<chanVars, phase>>
        /\ active' = Tail(active) /\ stack' = <<c>> /\ st' = s
    BY <1>5 DEF ResumeGet
  <2> QED
    BY <1>1, <1>3, <1>5, <2>1, RefuseInv
<1>6. CASE ~close /\ size # 0
  <2>1. GetReturn(c, Tail(active), s) /\ stack' = <<c>> /\ phase' = phase
    BY <1>6 DEF ResumeGet
  <2>2. At(empty, full, Tail(active), <<c>>, s)
    <3>1. Holds(empty, s, {"get"}) /\ Holds(full, s, {"put"})
      BY <1>1, <1>2 DEF Inv, Located, Holds
    <3> QED
      BY <1>1, <1>3, <3>1 DEF At
  <2>3. /\ empty # <<>> => size <= 1 + NumIn(s, "getready")
        /\ full # <<>> => Cap <= size + NumIn(s, "putready")
    <3>1. NumIn(s, "putready") = NumIn(st, "putready")
      BY <1>1, <1>2, NumSame DEF States
    <3>2. NumIn(s, "getready") = NumIn(st, "getready") - 1
      BY <1>1, <1>2, NumDown DEF States
    <3>3. NumIn(st, "putready") \in Nat /\ NumIn(st, "getready") \in Nat
      BY NumNat
    <3> QED
      BY <1>2, <3>1, <3>2, <3>3 DEF Inv, NoLostWakeup, TypeOK
  <2>4. \A d \in Co \ {c} : PendingFor(d, s)
    BY <1>2 DEF Inv, PendingOK, PendingFor
  <2>5. s[c] = "run"
    BY <1>2
  <2> HIDE DEF s
  <2> QED
    BY <1>1, <1>2, <1>6, <2>1, <2>2, <2>3, <2>4, <2>5, GetReturnInv
<1>7. CASE ~close /\ size = 0
  <2>1. /\ WaitEmpty(c) /\ active' = Tail(active) /\ stack' = stack /\ phase' = phase
        /\ ret' = ret /\ arg' = arg
    BY <1>7 DEF ResumeGet
  <2>2. st' = [st EXCEPT ![c] = "get"]
    BY <2>1 DEF WaitEmpty
  <2>3. Holds(active', st', Ready) /\ Holds(stack', st', {"run"})
    BY <1>1, <2>1, <2>2 DEF Ready, States
  <2>4. ret' \in [Co -> Results]
    BY <1>2, <2>1 DEF TypeOK
  <2> QED
    BY <1>1, <1>2, <1>4, <1>7, <2>1, <2>3, <2>4, WaitEmptyInv
<1> QED
  BY <1>5, <1>6, <1>7

(***************************************************************************)
(* close: both deques go to the active list, the putters first.            *)
(***************************************************************************)
LEMMA CloseInv ==
  ASSUME Inv, NEW c \in Co, Close(c)
  PROVE  Inv'
<1> USE ChannelAssumption
<1>1. /\ close' = TRUE /\ active' = (active \o full) \o empty
      /\ full' = <<>> /\ empty' = <<>>
      /\ st' = [d \in Co |-> IF st[d] = "put" THEN "putready"
                             ELSE IF st[d] = "get" THEN "getready" ELSE st[d]]
      /\ UNCHANGED <<queue, size, is_yield, stack, phase, arg, ret>>
  BY DEF Close
<1>2. /\ active \in Seq(Co) /\ full \in Seq(Co) /\ empty \in Seq(Co) /\ st \in [Co -> States]
      /\ Holds(active, st, Ready) /\ Holds(full, st, {"put"}) /\ Holds(empty, st, {"get"})
      /\ Holds(stack, st, {"run"})
  BY DEF Inv, TypeOK, Located
<1>3. st' \in [Co -> States]
  BY <1>1, <1>2 DEF States
<1>4. Holds(active', st', Ready) /\ active' \in Seq(Co)
  <2> DEFINE p == active \o full
  <2>1. /\ p \in Seq(Co) /\ IsInjective(p)
        /\ \A d : In(p, d) <=> In(active, d) \/ In(full, d)
    <3>1. \A d \in Co : ~(In(active, d) /\ In(full, d))
      BY <1>2 DEF Holds, Ready
    <3> QED
      BY <1>2, <3>1, InConcat DEF Holds
  <2> HIDE DEF p
  <2>2. /\ p \o empty \in Seq(Co) /\ IsInjective(p \o empty)
        /\ \A d : In(p \o empty, d) <=> In(p, d) \/ In(empty, d)
    <3>1. \A d \in Co : ~(In(p, d) /\ In(empty, d))
      BY <1>2, <2>1 DEF Holds, Ready
    <3>2. IsInjective(empty)
      BY <1>2 DEF Holds
    <3> QED
      BY <1>2, <2>1, <3>1, <3>2, InConcat
  <2>3. active' = p \o empty
    BY <1>1 DEF p
  <2>4. ASSUME NEW d \in Co PROVE st'[d] \in Ready <=> In(active', d)
    <3>1. In(active', d) <=> In(active, d) \/ In(full, d) \/ In(empty, d)
      BY <2>1, <2>2, <2>3
    <3>2. In(active', d) <=> st[d] \in Ready \/ st[d] = "put" \/ st[d] = "get"
      BY <1>2, <3>1 DEF Holds
    <3> QED
      BY <1>1, <1>2, <3>2 DEF Ready
  <2> QED
    BY <2>2, <2>3, <2>4 DEF Holds
<1>5. Holds(full', st', {"put"}) /\ Holds(empty', st', {"get"})
  <2>1. IsInjective(<<>>) /\ \A d : ~In(<<>>, d)
    BY DEF IsInjective, In
  <2>2. \A d \in Co : st'[d] \notin {"put"} /\ st'[d] \notin {"get"}
    BY <1>1, <1>2
  <2> QED
    BY <1>1, <2>1, <2>2 DEF Holds
<1>6. Holds(stack', st', {"run"})
  BY <1>1, <1>2 DEF Holds
<1>7. TypeOK'
  <2>1. is_yield' \in BOOLEAN /\ close' \in BOOLEAN
    BY <1>1 DEF Inv, TypeOK
  <2>2. full' \in Seq(Co) /\ empty' \in Seq(Co)
    BY <1>1
  <2> QED
    BY <1>1, <1>3, <1>4, <2>1, <2>2 DEF Inv, TypeOK
<1>8. Located'
  BY <1>4, <1>5, <1>6 DEF Located
<1>9. SizeOK' /\ NoLostWakeup' /\ YieldFlag'
  BY <1>1 DEF Inv, SizeOK, NoLostWakeup, YieldFlag
<1>10. PendingOK'
  BY <1>1, <1>2 DEF Inv, PendingOK, Blocked
<1> QED
  BY <1>7, <1>8, <1>9, <1>10 DEF Inv

\* A new coroutine goes on top of the call stack.
LEMMA SpawnInv ==
  ASSUME Inv, NEW c \in Co, Spawn(c)
  PROVE  Inv'
<1>1. /\ st[c] = "new" /\ st' = [st EXCEPT ![c] = "run"] /\ stack' = <<c>> \o stack
      /\ UNCHANGED <<chanVars, active, phase, arg, ret>>
  BY DEF Spawn
<1>2. /\ st \in [Co -> States] /\ stack \in Seq(Co) /\ active \in Seq(Co)
      /\ phase \in Phases /\ Holds(stack, st, {"run"})
  BY DEF Inv, TypeOK, Located
<1>3. Holds(stack', st', {"run"}) /\ stack' \in Seq(Co)
  <2>1. st[c] \notin {"run"} /\ "run" \in {"run"} /\ "run" \in States
    BY <1>1 DEF States
  <2> QED
    BY <1>1, <1>2, <2>1, HoldsIn
<1>4. Holds(active', st', Ready)
  BY <1>1, ActiveStays DEF Ready, States
<1>5. "run" \in States \ Blocked /\ st[c] \notin Blocked
  BY <1>1 DEF States, Blocked
<1> QED
  BY <1>1, <1>2, <1>3, <1>4, <1>5, QuietInv

\* The running coroutine leaves the call stack, for sleep or for good.
LEMMA LeaveInv ==
  ASSUME Inv, NEW c \in Co, Sleep(c) \/ Finish(c)
  PROVE  Inv'
<1>1. PICK x \in {"sleep", "done"} :
        /\ Running(c) /\ st' = [st EXCEPT ![c] = x] /\ stack' = Tail(stack)
        /\ UNCHANGED <<chanVars, active, phase, arg, ret>>
  BY DEF Sleep, Finish
<1>2. x \in States \ Blocked /\ x \in States \ {"run"} /\ x \in States \ Ready
  BY DEF States, Blocked, Ready
<1>3. st[c] = "run" /\ Tail(stack) \in Seq(Co) /\ Holds(Tail(stack), [st EXCEPT ![c] = x], {"run"})
  BY <1>1, <1>2, RunningFacts
<1>4. Holds(active', st', Ready)
  BY <1>1, <1>2, <1>3, ActiveStays DEF Ready
<1>5. active \in Seq(Co) /\ phase \in Phases /\ st[c] \notin Blocked
  BY <1>3 DEF Inv, TypeOK, Blocked
<1> QED
  BY <1>1, <1>2, <1>3, <1>4, <1>5, QuietInv

\* An event puts a sleeping coroutine on the active list.
LEMMA WakeInv ==
  ASSUME Inv, NEW c \in Co, Wake(c)
  PROVE  Inv'
<1>1. /\ st[c] = "sleep" /\ st' = [st EXCEPT ![c] = "awake"] /\ active' = Append(active, c)
      /\ UNCHANGED <<chanVars, stack, phase, arg, ret>>
  BY DEF Wake
<1>2. /\ st \in [Co -> States] /\ stack \in Seq(Co) /\ active \in Seq(Co) /\ phase \in Phases
      /\ Holds(stack, st, {"run"}) /\ Holds(active, st, Ready)
  BY DEF Inv, TypeOK, Located
<1>3. Holds(active', st', Ready) /\ active' \in Seq(Co)
  <2>1. st[c] \notin Ready /\ "awake" \in Ready /\ "awake" \in States
    BY <1>1 DEF Ready, States
  <2> QED
    BY <1>1, <1>2, <2>1, HoldsIn
<1>4. Holds(stack', st', {"run"})
  BY <1>1, <1>2 DEF Holds
<1>5. "awake" \in States \ Blocked /\ st[c] \notin Blocked
  BY <1>1 DEF States, Blocked
<1> QED
  BY <1>1, <1>2, <1>3, <1>4, <1>5, QuietInv

\* The drain loop resumes a coroutine whose event came.
LEMMA ResumeAwakeInv ==
  ASSUME Inv, NEW c \in Co, ResumeAwake(c)
  PROVE  Inv'
<1>1. /\ Resumes(c) /\ st[c] = "awake" /\ active' = Tail(active) /\ stack' = <<c>>
      /\ st' = [st EXCEPT ![c] = "run"] /\ UNCHANGED <<chanVars, phase, arg, ret>>
  BY DEF ResumeAwake
<1>2. "run" \in States \ Ready /\ "run" \in States \ Blocked /\ st[c] \notin Blocked
  BY <1>1 DEF States, Ready, Blocked
<1>3. /\ Tail(active) \in Seq(Co) /\ <<c>> \in Seq(Co)
      /\ Holds(active', st', Ready) /\ Holds(stack', st', {"run"})
  BY <1>1, <1>2, ResumesFacts
<1>4. phase \in Phases
  BY DEF Inv, TypeOK
<1> QED
  BY <1>1, <1>2, <1>3, <1>4, QuietInv

\* The phases of the event loop leave the channel alone.
LEMMA LoopInv ==
  ASSUME Inv, BeginLoop \/ BeginDrain \/ EndDrain \/ UNCHANGED vars
  PROVE  Inv'
<1>1. UNCHANGED <<queue, size, is_yield, close, empty, full, active, stack, st, arg, ret>>
  BY DEF BeginLoop, BeginDrain, EndDrain, vars, chanVars
<1>2. phase' \in Phases
  BY DEF BeginLoop, BeginDrain, EndDrain, vars, Phases, Inv, TypeOK
<1>3. TypeOK'
  BY <1>1, <1>2 DEF Inv, TypeOK
<1>4. Located'
  BY <1>1 DEF Inv, Located
<1>5. SizeOK' /\ NoLostWakeup'
  BY <1>1 DEF Inv, SizeOK, NoLostWakeup
<1>6. YieldFlag' /\ PendingOK'
  BY <1>1 DEF Inv, YieldFlag, PendingOK
<1> QED
  BY <1>3, <1>4, <1>5, <1>6 DEF Inv

\* The empty channel satisfies the invariant.
LEMMA InitInv == Init => Inv
<1> SUFFICES ASSUME Init PROVE Inv
  OBVIOUS
<1> USE ChannelAssumption DEF Init
<1>1. TypeOK
  <2>1. st \in [Co -> States] /\ phase \in Phases
    BY DEF States, Phases
  <2>2. arg \in [Co -> Values \cup {None}] /\ ret \in [Co -> Results]
    BY DEF Results
  <2>3. is_yield \in BOOLEAN /\ close \in BOOLEAN
    OBVIOUS
  <2> QED
    BY <2>1, <2>2, <2>3 DEF TypeOK
<1>2. Located
  <2>1. IsInjective(<<>>) /\ \A d : ~In(<<>>, d)
    BY DEF IsInjective, In
  <2>2. \A d \in Co : st[d] \notin {"get"} /\ st[d] \notin {"put"} /\ st[d] \notin {"run"}
                      /\ st[d] \notin Ready
    BY DEF Ready
  <2> QED
    BY <2>1, <2>2 DEF Located, Holds
<1>3. SizeOK /\ NoLostWakeup /\ YieldFlag
  BY DEF SizeOK, NoLostWakeup, YieldFlag
<1>4. PendingOK
  BY DEF PendingOK, Blocked
<1> QED
  BY <1>1, <1>2, <1>3, <1>4 DEF Inv

\* Every step preserves the invariant.
LEMMA NextInv ==
  ASSUME Inv, [Next]_vars
  PROVE  Inv'
<1>1. ASSUME NEW c \in Co, CoStep(c) PROVE Inv'
  BY <1>1, PutInv, GetInv, CloseInv, SpawnInv, LeaveInv DEF CoStep
<1>2. ASSUME NEW c \in Co, Wake(c) PROVE Inv'
  BY <1>2, WakeInv
<1>3. ASSUME NEW c \in Co, Resume(c) PROVE Inv'
  BY <1>3, ResumeAwakeInv, ResumePutInv, ResumeGetInv DEF Resume
<1>4. CASE BeginLoop \/ BeginDrain \/ EndDrain \/ UNCHANGED vars
  BY <1>4, LoopInv
<1> QED
  BY <1>1, <1>2, <1>3, <1>4 DEF Next

-----------------------------------------------------------------------------
(***************************************************************************)
(* Whatever the coroutines do with the channel and in whatever order they  *)
(* run: every suspended coroutine is in exactly one list, no wakeup of     *)
(* co_cond_signal is lost, size_ counts the values and respects cap_, and  *)
(* isyield() names no waiter that is not there.                            *)
(***************************************************************************)
THEOREM ChannelSafety ==
  Spec => [](TypeOK /\ Located /\ SizeOK /\ NoLostWakeup /\ YieldFlag /\ PendingOK)
<1>1. Init => Inv
  BY InitInv
<1>2. Inv /\ [Next]_vars => Inv'
  BY NextInv
<1>3. Inv => TypeOK /\ Located /\ SizeOK /\ NoLostWakeup /\ YieldFlag /\ PendingOK
  BY DEF Inv
<1> QED
  BY <1>1, <1>2, <1>3, PTL DEF Spec

(***************************************************************************)
(* The channel is consistent: who waits is in one list, size_ counts the   *)
(* values, isyield() and the pending results tell the truth.               *)
(***************************************************************************)
THEOREM ChannelIsConsistent == Spec => []ChannelConsistent
<1>1. TypeOK /\ Located /\ SizeOK /\ NoLostWakeup /\ YieldFlag /\ PendingOK => ChannelConsistent
  BY DEF ChannelConsistent
<1> QED
  BY <1>1, ChannelSafety, PTL

(***************************************************************************)
(* The steps of the channel that are steps of the buffer; all others leave *)
(* the buffer alone.                                                       *)
(***************************************************************************)
LEMMA PutRefines ==
  ASSUME Inv, NEW c \in Co, NEW v \in Values, NEW a, NEW s, ~close, size # Cap,
         PutReturn(c, v, a, s), ret[c] = Pending => arg[c] = v
  PROVE  Fifo!Enqueue(c, v)
<1>1. Len(queue) < Cap
  BY ChannelAssumption DEF Inv, SizeOK, TypeOK
<1> QED
  BY <1>1 DEF PutReturn, Return, Fifo!Enqueue, Fifo!Return

\* A get that returns is a Dequeue.
LEMMA GetRefines ==
  ASSUME Inv, NEW c \in Co, NEW a, NEW s, ~close, size # 0,
         GetReturn(c, a, s), ret[c] = Pending => arg[c] = None
  PROVE  Fifo!Dequeue(c)
<1>1. queue # <<>>
  BY DEF Inv, SizeOK, TypeOK
<1> QED
  BY <1>1 DEF GetReturn, Return, Fifo!Dequeue, Fifo!Return

\* Every call by a running coroutine is a step of the FIFO or a stutter,
LEMMA CallRefines ==
  ASSUME Inv, NEW c \in Co, Get(c) \/ \E v \in Values : Put(c, v)
  PROVE  Fifo!Next
<1> USE ChannelAssumption
<1>1. Running(c)
  BY DEF Get, Put
<1>2. ret[c] # Pending
  <2>1. st[c] = "run"
    BY <1>1, RunningFacts
  <2> QED
    BY <2>1 DEF Inv, PendingOK, Blocked
<1>3. CASE close
  <2>1. Return(c, Closed) /\ UNCHANGED chanVars
    BY <1>3 DEF Get, Put
  <2>2. Fifo!Refuse(c)
    BY <1>3, <2>1 DEF Return, chanVars, Fifo!Refuse, Fifo!Return
  <2> QED
    BY <2>2 DEF Fifo!Next
<1>4. CASE ~close /\ Get(c)
  <2>1. CASE size # 0
    <3>1. Fifo!Dequeue(c)
      BY <1>2, <1>4, <2>1, GetRefines DEF Get
    <3> QED
      BY <3>1 DEF Fifo!Next
  <2>2. CASE size = 0
    <3>1. queue = <<>>
      BY <2>2, EmptySeq DEF Inv, SizeOK, TypeOK
    <3>2. Fifo!BlockGet(c)
      BY <1>2, <1>4, <2>2, <3>1 DEF Get, WaitEmpty, Fifo!BlockGet
    <3> QED
      BY <3>2 DEF Fifo!Next
  <2> QED
    BY <2>1, <2>2
<1>5. CASE ~close /\ \E v \in Values : Put(c, v)
  <2>1. PICK v \in Values : Put(c, v)
    BY <1>5
  <2>2. CASE size # Cap
    <3>1. Fifo!Enqueue(c, v)
      BY <1>2, <1>5, <2>1, <2>2, PutRefines DEF Put
    <3> QED
      BY <3>1 DEF Fifo!Next
  <2>3. CASE size = Cap
    <3>1. Len(queue) >= Cap
      BY <2>3 DEF Inv, SizeOK, TypeOK
    <3>2. Fifo!BlockPut(c, v)
      BY <1>2, <1>5, <2>1, <2>3, <3>1 DEF Put, WaitFull, Fifo!BlockPut
    <3> QED
      BY <3>2 DEF Fifo!Next
  <2> QED
    BY <2>2, <2>3
<1> QED
  BY <1>3, <1>4, <1>5

\* and so is every resume.
LEMMA ResumeRefines ==
  ASSUME Inv, NEW c \in Co, ResumePut(c) \/ ResumeGet(c)
  PROVE  [Fifo!Next]_(Fifo!vars)
<1> USE ChannelAssumption
<1>1. CASE close
  <2>1. Return(c, Closed) /\ UNCHANGED chanVars
    BY <1>1 DEF ResumeGet, ResumePut
  <2>2. Fifo!Refuse(c)
    BY <1>1, <2>1 DEF Return, chanVars, Fifo!Refuse, Fifo!Return
  <2> QED
    BY <2>2 DEF Fifo!Next
<1>2. CASE ~close /\ ResumeGet(c)
  <2>1. arg[c] = None
    BY <1>2 DEF ResumeGet, Inv, PendingOK
  <2>2. CASE size # 0
    <3>1. Fifo!Dequeue(c)
      BY <1>2, <2>1, <2>2, GetRefines DEF ResumeGet
    <3> QED
      BY <3>1 DEF Fifo!Next
  <2>3. CASE size = 0
    BY <1>2, <2>3 DEF ResumeGet, WaitEmpty, Fifo!vars
  <2> QED
    BY <2>2, <2>3
<1>3. CASE ~close /\ ResumePut(c)
  <2>1. arg[c] \in Values
    BY <1>3 DEF ResumePut, Inv, PendingOK, TypeOK
  <2>2. CASE size # Cap
    <3>1. Fifo!Enqueue(c, arg[c])
      BY <1>3, <2>1, <2>2, PutRefines DEF ResumePut
    <3> QED
      BY <2>1, <3>1 DEF Fifo!Next
  <2>3. CASE size = Cap
    BY <1>3, <2>3 DEF ResumePut, WaitFull, Fifo!vars
  <2> QED
    BY <2>2, <2>3
<1> QED
  BY <1>1, <1>2, <1>3

\* Every step of the channel is a step of the FIFO or a stutter.
LEMMA NextRefines ==
  ASSUME Inv, [Next]_vars
  PROVE  [Fifo!Next]_(Fifo!vars)
<1>1. ASSUME NEW c \in Co, Get(c) \/ \E v \in Values : Put(c, v) PROVE Fifo!Next
  BY <1>1, CallRefines
<1>2. ASSUME NEW c \in Co, Close(c) PROVE Fifo!Next
  <2>1. Fifo!Close
    BY <1>2 DEF Close, Fifo!Close
  <2> QED
    BY <2>1 DEF Fifo!Next
<1>3. ASSUME NEW c \in Co, Spawn(c) \/ Sleep(c) \/ Finish(c) \/ Wake(c) \/ ResumeAwake(c)
      PROVE  UNCHANGED Fifo!vars
  BY <1>3 DEF Spawn, Sleep, Finish, Wake, ResumeAwake, chanVars, Fifo!vars
<1>4. ASSUME NEW c \in Co, ResumePut(c) \/ ResumeGet(c) PROVE [Fifo!Next]_(Fifo!vars)
  BY <1>4, ResumeRefines
<1>5. ASSUME BeginLoop \/ BeginDrain \/ EndDrain \/ UNCHANGED vars PROVE UNCHANGED Fifo!vars
  BY <1>5 DEF BeginLoop, BeginDrain, EndDrain, vars, chanVars, Fifo!vars
<1> QED
  BY <1>1, <1>2, <1>3, <1>4, <1>5 DEF Next, CoStep, Resume

(***************************************************************************)
(* A channel implements the bounded FIFO buffer: values come out once each *)
(* and in the order they went in, at most cap_ are held, an operation      *)
(* returns false only after close and blocks only where it has to, however *)
(* its waits, signals and barging are interleaved.                         *)
(***************************************************************************)
THEOREM ChannelRefinesFifo == Spec => RefinesFifo
<1>1. Init => Fifo!Init
  BY DEF Init, Fifo!Init
<1>2. Init => Inv
  BY InitInv
<1>3. Inv /\ [Next]_vars => Inv'
  BY NextInv
<1>4. Inv /\ [Next]_vars => [Fifo!Next]_(Fifo!vars)
  BY NextRefines
<1> QED
  BY <1>1, <1>2, <1>3, <1>4, PTL DEF Spec, RefinesFifo, Fifo!Spec

=============================================================================
