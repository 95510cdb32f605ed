-------------------------------- MODULE Lists --------------------------------
(***************************************************************************)
(* Facts about the operators on lists and sets that the modules are built  *)
(* from, for lists of any length: queues that are appended to and popped,  *)
(* lists that are joined, and, by induction, the concatenation of a list   *)
(* of lists and of the lists of a ring.                                    *)
(***************************************************************************)
EXTENDS Integers, SequencesExt, FiniteSetTheorems, TLAPS

-----------------------------------------------------------------------------
(***************************************************************************)
(* push_back: what a list holds with one element more at its end.          *)
(***************************************************************************)
LEMMA AppendList ==
  ASSUME NEW S, NEW q \in Seq(S), NEW c \in S
  PROVE  /\ Append(q, c) \in Seq(S) /\ Len(Append(q, c)) = Len(q) + 1
         /\ Range(Append(q, c)) = Range(q) \cup {c}
         /\ IsInjective(q) /\ c \notin Range(q) => IsInjective(Append(q, c))
<1>1. /\ DOMAIN q = 1 .. Len(q) /\ Len(q) \in Nat
      /\ DOMAIN Append(q, c) = 1 .. Len(q) + 1
      /\ Append(q, c)[Len(q) + 1] = c
      /\ \A j \in 1 .. Len(q) : Append(q, c)[j] = q[j]
      /\ Append(q, c) \in Seq(S) /\ Len(Append(q, c)) = Len(q) + 1
  OBVIOUS
<1>2. ASSUME NEW d PROVE d \in Range(Append(q, c)) <=> d \in Range(q) \/ d = c
  BY <1>1 DEF Range
<1>3. ASSUME IsInjective(q), c \notin Range(q) PROVE IsInjective(Append(q, c))
  BY <1>1, <1>3 DEF Range, IsInjective
<1> QED
  BY <1>1, <1>2, <1>3

\* front and pop_front: the head leaves the list, and nothing else does.
LEMMA PopList ==
  ASSUME NEW S, NEW q \in Seq(S), q # <<>>
  PROVE  /\ Head(q) \in S /\ Head(q) \in Range(q)
         /\ Tail(q) \in Seq(S) /\ Len(Tail(q)) = Len(q) - 1 /\ Len(q) > 0
         /\ Range(q) = Range(Tail(q)) \cup {Head(q)}
         /\ IsInjective(q) => IsInjective(Tail(q)) /\ Head(q) \notin Range(Tail(q))
<1>1. /\ DOMAIN q = 1 .. Len(q) /\ Len(q) \in Nat \ {0}
      /\ DOMAIN Tail(q) = 1 .. Len(q) - 1
      /\ \A j \in 1 .. Len(q) - 1 : Tail(q)[j] = q[j + 1]
      /\ Head(q) = q[1] /\ Head(q) \in S
      /\ Tail(q) \in Seq(S) /\ Len(Tail(q)) = Len(q) - 1
  OBVIOUS
<1>2. ASSUME NEW d PROVE d \in Range(q) <=> d \in Range(Tail(q)) \/ d = Head(q)
  <2>1. ASSUME d \in Range(q), d # Head(q) PROVE d \in Range(Tail(q))
    <3>1. PICK j \in 1 .. Len(q) : q[j] = d
      BY <1>1, <2>1 DEF Range
    <3>2. j - 1 \in 1 .. Len(q) - 1 /\ Tail(q)[j - 1] = d
      BY <1>1, <2>1, <3>1
    <3> QED
      BY <1>1, <3>2 DEF Range
  <2>2. ASSUME d \in Range(Tail(q)) PROVE d \in Range(q)
    BY <1>1, <2>2 DEF Range
  <2>3. Head(q) \in Range(q)
    BY <1>1 DEF Range
  <2> QED
    BY <2>1, <2>2, <2>3
<1>3. ASSUME IsInjective(q) PROVE IsInjective(Tail(q)) /\ Head(q) \notin Range(Tail(q))
  BY <1>1, <1>3 DEF IsInjective, Range
<1> QED
  BY <1>1, <1>2, <1>3

\* joinlink: a list behind another one.
LEMMA ConcatList ==
  ASSUME NEW S, NEW p \in Seq(S), NEW q \in Seq(S)
  PROVE  /\ p \o q \in Seq(S) /\ Len(p \o q) = Len(p) + Len(q)
         /\ Range(p \o q) = Range(p) \cup Range(q)
         /\ IsInjective(p) /\ IsInjective(q) /\ Range(p) \cap Range(q) = {} => IsInjective(p \o q)
<1>1. /\ DOMAIN p = 1 .. Len(p) /\ Len(p) \in Nat
      /\ DOMAIN q = 1 .. Len(q) /\ Len(q) \in Nat
      /\ DOMAIN (p \o q) = 1 .. Len(p) + Len(q)
      /\ \A j \in 1 .. Len(p) : (p \o q)[j] = p[j]
      /\ \A j \in Len(p) + 1 .. Len(p) + Len(q) : (p \o q)[j] = q[j - Len(p)]
      /\ p \o q \in Seq(S) /\ Len(p \o q) = Len(p) + Len(q)
  OBVIOUS
<1>2. ASSUME NEW d PROVE d \in Range(p \o q) <=> d \in Range(p) \/ d \in Range(q)
  <2>1. ASSUME d \in Range(q) PROVE d \in Range(p \o q)
    <3>1. PICK j \in 1 .. Len(q) : q[j] = d
      BY <1>1, <2>1 DEF Range
    <3>2. j + Len(p) \in Len(p) + 1 .. Len(p) + Len(q) /\ (j + Len(p)) - Len(p) = j
      BY <1>1
    <3>3. (p \o q)[j + Len(p)] = d
      BY <1>1, <3>1, <3>2
    <3>4. j + Len(p) \in DOMAIN (p \o q)
      BY <1>1, <3>2
    <3> QED
      BY <3>3, <3>4 DEF Range
  <2>2. ASSUME d \in Range(p) PROVE d \in Range(p \o q)
    BY <1>1, <2>2 DEF Range
  <2>3. ASSUME d \in Range(p \o q), d \notin Range(p) PROVE d \in Range(q)
    <3>1. PICK j \in 1 .. Len(p) + Len(q) : (p \o q)[j] = d
      BY <1>1, <2>3 DEF Range
    <3>2. ~(j <= Len(p))
      BY <1>1, <2>3, <3>1 DEF Range
    <3>3. j - Len(p) \in 1 .. Len(q) /\ q[j - Len(p)] = d
      BY <1>1, <3>1, <3>2
    <3> QED
      BY <1>1, <3>3 DEF Range
  <2> QED
    BY <2>1, <2>2, <2>3
<1>3. ASSUME IsInjective(p), IsInjective(q), Range(p) \cap Range(q) = {}
      PROVE  IsInjective(p \o q)
  <2> SUFFICES ASSUME NEW j \in 1 .. Len(p) + Len(q), NEW k \in 1 .. Len(p) + Len(q),
                      (p \o q)[j] = (p \o q)[k], j < k
               PROVE  FALSE
    BY <1>1 DEF IsInjective
  <2>1. CASE k <= Len(p)
    BY <1>1, <1>3, <2>1 DEF IsInjective
  <2>2. CASE j > Len(p)
    <3>1. /\ j - Len(p) \in 1 .. Len(q) /\ k - Len(p) \in 1 .. Len(q)
          /\ q[j - Len(p)] = q[k - Len(p)]
      BY <1>1, <2>2
    <3>2. j - Len(p) = k - Len(p)
      BY <1>1, <1>3, <3>1 DEF IsInjective
    <3> QED
      BY <1>1, <3>2
  <2>3. CASE j <= Len(p) /\ k > Len(p)
    <3>1. j \in 1 .. Len(p) /\ k - Len(p) \in 1 .. Len(q) /\ p[j] = q[k - Len(p)]
      BY <1>1, <2>3
    <3>2. p[j] \in Range(p) /\ p[j] \in Range(q)
      BY <1>1, <3>1 DEF Range
    <3> QED
      BY <1>3, <3>2
  <2> QED
    BY <1>1, <2>1, <2>2, <2>3
<1> QED
  BY <1>1, <1>2, <1>3

\* A stack with one element more on top.
LEMMA PushList ==
  ASSUME NEW S, NEW q \in Seq(S), NEW c \in S
  PROVE  /\ <<c>> \o q \in Seq(S) /\ <<c>> \o q # <<>>
         /\ Range(<<c>> \o q) = Range(q) \cup {c}
         /\ IsInjective(q) /\ c \notin Range(q) => IsInjective(<<c>> \o q)
<1>1. <<c>> \in Seq(S) /\ Len(<<c>>) = 1 /\ DOMAIN <<c>> = {1} /\ <<c>>[1] = c
  OBVIOUS
<1>2. Range(<<c>>) = {c} /\ IsInjective(<<c>>)
  BY <1>1 DEF Range, IsInjective
<1>3. <<c>> \o q # <<>>
  <2>1. Len(<<c>> \o q) = 1 + Len(q) /\ Len(q) \in Nat /\ Len(<<>>) = 0
    OBVIOUS
  <2> QED
    BY <2>1
<1> DEFINE p == <<c>>
<1> HIDE DEF p
<1>4. p \in Seq(S) /\ Range(p) = {c} /\ IsInjective(p)
  BY <1>1, <1>2 DEF p
<1>5. /\ p \o q \in Seq(S) /\ Range(p \o q) = Range(p) \cup Range(q)
      /\ IsInjective(p) /\ IsInjective(q) /\ Range(p) \cap Range(q) = {} => IsInjective(p \o q)
  BY <1>4, ConcatList
<1> QED
  BY <1>3, <1>4, <1>5 DEF p

\* A list of two elements.
LEMMA ListOfTwo ==
  ASSUME NEW S, NEW p \in Seq(S), Len(p) = 2
  PROVE  p = <<p[1], p[2]>>
  OBVIOUS

\* One element on top of another.
LEMMA PairList ==
  ASSUME NEW S, NEW a \in S, NEW b \in S
  PROVE  <<a>> \o <<b>> = <<a, b>>
<1>1. <<a>> \in Seq(S) /\ <<b>> \in Seq(S)
  OBVIOUS
<1>2. PICK p, q : p = <<a>> /\ q = <<b>>
  OBVIOUS
<1>3. p \in Seq(S) /\ q \in Seq(S) /\ Len(p) = 1 /\ Len(q) = 1 /\ p[1] = a /\ q[1] = b
  BY <1>1, <1>2
<1>4. p \in Seq(S) /\ q \in Seq(S)
  BY <1>3
<1>5. p \o q \in Seq(S) /\ Len(p \o q) = 2
  <2>1. p \o q \in Seq(S) /\ Len(p \o q) = Len(p) + Len(q)
    BY <1>4, ConcatList
  <2> QED
    BY <1>3, <2>1
<1>6. (p \o q)[1] = a
  BY <1>3
<1>7. (p \o q)[2] = b
  <2>1. \A j \in Len(p) + 1 .. Len(p) + Len(q) : (p \o q)[j] = q[j - Len(p)]
    BY <1>4
  <2>2. 2 \in Len(p) + 1 .. Len(p) + Len(q) /\ 2 - Len(p) = 1
    BY <1>3
  <2>3. (p \o q)[2] = q[2 - Len(p)]
    BY <2>1, <2>2, Zenon
  <2> QED
    BY <1>3, <2>2, <2>3
<1>8. p \o q = <<(p \o q)[1], (p \o q)[2]>>
  BY <1>5, ListOfTwo
<1> QED
  BY <1>2, <1>6, <1>7, <1>8

\* removeitem: one element leaves the list, wherever it is.
LEMMA RemoveList ==
  ASSUME NEW S, NEW q \in Seq(S), NEW i \in 1 .. Len(q), IsInjective(q)
  PROVE  /\ RemoveAt(q, i) \in Seq(S)
         /\ Range(RemoveAt(q, i)) = Range(q) \ {q[i]}
         /\ IsInjective(RemoveAt(q, i))
<1> DEFINE p == SubSeq(q, 1, i - 1)
           r == SubSeq(q, i + 1, Len(q))
<1>1. Len(q) \in Nat /\ DOMAIN q = 1 .. Len(q)
  OBVIOUS
<1>2. /\ p \in Seq(S) /\ DOMAIN p = 1 .. i - 1 /\ \A j \in 1 .. i - 1 : p[j] = q[j]
  OBVIOUS
<1>3. /\ r \in Seq(S) /\ DOMAIN r = 1 .. Len(q) - i /\ \A j \in 1 .. Len(q) - i : r[j] = q[j + i]
  OBVIOUS
<1>4. RemoveAt(q, i) = p \o r
  BY DEF RemoveAt
<1> HIDE DEF p, r
<1>5. \A j, k \in 1 .. Len(q) : q[j] = q[k] => j = k
  BY <1>1 DEF IsInjective
<1>6. \A j \in 1 .. Len(q) - i : j + i \in 1 .. Len(q) /\ j + i > i
  BY <1>1
<1>7. IsInjective(p)
  BY <1>1, <1>2, <1>5 DEF IsInjective
<1>8. IsInjective(r)
  <2> SUFFICES ASSUME NEW j \in 1 .. Len(q) - i, NEW k \in 1 .. Len(q) - i, r[j] = r[k] PROVE j = k
    BY <1>3 DEF IsInjective
  <2>1. q[j + i] = q[k + i]
    BY <1>3
  <2>2. j + i = k + i
    BY <1>5, <1>6, <2>1
  <2> QED
    BY <1>1, <2>2
<1>9. Range(p) \cap Range(r) = {}
  <2> SUFFICES ASSUME NEW j \in 1 .. i - 1, NEW k \in 1 .. Len(q) - i, p[j] = r[k] PROVE FALSE
    BY <1>2, <1>3 DEF Range
  <2>1. q[j] = q[k + i] /\ j \in 1 .. Len(q)
    BY <1>1, <1>2, <1>3
  <2>2. j = k + i
    BY <1>5, <1>6, <2>1
  <2> QED
    BY <1>1, <2>2
<1>10. ASSUME NEW d PROVE d \in Range(p) \cup Range(r) <=> d \in Range(q) /\ d # q[i]
  <2>1. ASSUME d \in Range(q), d # q[i] PROVE d \in Range(p) \cup Range(r)
    <3>1. PICK j \in 1 .. Len(q) : q[j] = d
      BY <1>1, <2>1 DEF Range
    <3>2. CASE j < i
      BY <1>1, <1>2, <3>1, <3>2 DEF Range
    <3>3. CASE j > i
      <4>1. j - i \in 1 .. Len(q) - i /\ r[j - i] = d
        BY <1>1, <1>3, <3>1, <3>3
      <4> QED
        BY <1>3, <4>1 DEF Range
    <3> QED
      BY <2>1, <3>1, <3>2, <3>3
  <2>2. ASSUME d \in Range(p) \cup Range(r) PROVE d \in Range(q) /\ d # q[i]
    <3>1. CASE d \in Range(p)
      <4>1. PICK j \in 1 .. i - 1 : d = p[j]
        BY <1>2, <3>1 DEF Range
      <4>2. d = q[j] /\ j \in 1 .. Len(q) /\ j # i
        BY <1>1, <1>2, <4>1
      <4> QED
        BY <1>1, <1>5, <4>2 DEF Range
    <3>2. CASE d \in Range(r)
      <4>1. PICK j \in 1 .. Len(q) - i : d = r[j]
        BY <1>3, <3>2 DEF Range
      <4>2. d = q[j + i] /\ j + i \in 1 .. Len(q) /\ j + i # i
        BY <1>1, <1>3, <1>6, <4>1
      <4> QED
        BY <1>1, <1>5, <4>2 DEF Range
    <3> QED
      BY <2>2, <3>1, <3>2
  <2> QED
    BY <2>1, <2>2
<1> QED
  BY <1>2, <1>3, <1>4, <1>7, <1>8, <1>9, <1>10, ConcatList

\* An element that a list holds once is at one place of it, any other at none.
LEMMA CountList ==
  ASSUME NEW S, NEW q \in Seq(S), IsInjective(q), NEW c
  PROVE  Cardinality({j \in DOMAIN q : q[j] = c}) = IF c \in Range(q) THEN 1 ELSE 0
<1> DEFINE P == {j \in DOMAIN q : q[j] = c}
<1>1. CASE c \in Range(q)
  <2>1. PICK j \in DOMAIN q : q[j] = c
    BY <1>1 DEF Range
  <2>2. P = {j}
    BY <2>1 DEF IsInjective
  <2> QED
    BY <1>1, <2>2, FS_Singleton
<1>2. CASE c \notin Range(q)
  <2>1. P = {}
    BY <1>2 DEF Range
  <2> QED
    BY <1>2, <2>1, FS_EmptySet
<1> QED
  BY <1>1, <1>2

\* A list without repetition is one of the orders of what it holds.
LEMMA OrderOfRange ==
  ASSUME NEW S, NEW q \in Seq(S), IsInjective(q)
  PROVE  q \in SetToSeqs(Range(q))
<1> DEFINE n == Len(q)
<1>1. n \in Nat /\ DOMAIN q = 1 .. n /\ q \in [1 .. n -> Range(q)]
  BY DEF Range
<1>2. q \in Bijection(1 .. n, Range(q))
  BY <1>1 DEF Bijection, Injection, Surjection, Range
<1>3. ExistsBijection(1 .. n, Range(q))
  BY <1>2 DEF ExistsBijection
<1> HIDE DEF n
<1>4. Cardinality(Range(q)) = n
  BY <1>1, <1>3, FS_CountingElements
<1> QED
  BY <1>1, <1>4 DEF SetToSeqs, IsInjective

-----------------------------------------------------------------------------
(***************************************************************************)
(* Induction over the natural numbers, for a set instead of a predicate:   *)
(* among the intervals 0 .. n of the numbers of a set there is a smallest, *)
(* since finite sets are well-founded under inclusion.                     *)
(***************************************************************************)
LEMMA LeastNumber ==
  ASSUME NEW S, S \subseteq Nat, S # {}
  PROVE  \E n \in S : \A m \in S : n <= m
<1> DEFINE R == StrictSubsetOrdering(Nat)
           T == {0 .. n : n \in S}
<1>1. IsWellFoundedOn(R, FiniteSubsetsOf(Nat))
  BY FS_StrictSubsetOrderingWellFounded
<1>2. T \subseteq FiniteSubsetsOf(Nat)
  <2>1. SUFFICES ASSUME NEW n \in S PROVE 0 .. n \in FiniteSubsetsOf(Nat)
    OBVIOUS
  <2>2. IsFiniteSet(0 .. n)
    BY FS_Interval
  <2>3. 0 .. n \subseteq Nat
    OBVIOUS
  <2> QED
    BY <2>2, <2>3 DEF FiniteSubsetsOf
<1>3. T # {}
  OBVIOUS
<1>4. \E x \in T : \A y \in T : ~ (<<y, x>> \in R)
  <2> HIDE DEF R, T
  <2> QED
    BY <1>1, <1>2, <1>3, WFMin
<1>5. PICK n \in S : \A y \in T : ~ (<<y, 0 .. n>> \in R)
  BY <1>4
<1>6. ASSUME NEW m \in S, m < n PROVE FALSE
  <2>1. 0 .. m \in T
    OBVIOUS
  <2>2. 0 .. m \subseteq 0 .. n /\ n \in 0 .. n /\ n \notin 0 .. m
    BY <1>6
  <2>3. <<0 .. m, 0 .. n>> \in R
    BY <2>2 DEF StrictSubsetOrdering
  <2> QED
    BY <1>5, <2>1, <2>3
<1> QED
  BY <1>6

\* A set that holds 0 and with n also n + 1 holds all natural numbers.
LEMMA NatSetInduction ==
  ASSUME NEW S, 0 \in S, \A n \in Nat : n \in S => n + 1 \in S
  PROVE  Nat \subseteq S
<1> SUFFICES ASSUME Nat \ S # {} PROVE FALSE
  OBVIOUS
<1>1. PICK n \in Nat \ S : \A m \in Nat \ S : n <= m
  BY LeastNumber
<1>2. n - 1 \in Nat /\ n - 1 \in S
  BY <1>1
<1> QED
  BY <1>1, <1>2

\* The smaller of two numbers.
LEMMA MinOfTwo ==
  ASSUME NEW a \in Int, NEW b \in Int
  PROVE  Min({a, b}) = IF a <= b THEN a ELSE b
<1> DEFINE m == IF a <= b THEN a ELSE b
<1>1. m \in {a, b} /\ \A y \in {a, b} : m <= y
  OBVIOUS
<1>2. \A x \in {a, b} : (\A y \in {a, b} : x <= y) => x = m
  OBVIOUS
<1> HIDE DEF m
<1>3. Min({a, b}) \in {a, b} /\ \A y \in {a, b} : Min({a, b}) <= y
  BY <1>1 DEF Min
<1> QED
  BY <1>2, <1>3 DEF m

\* The larger of two numbers.
LEMMA MaxOfTwo ==
  ASSUME NEW a \in Int, NEW b \in Int
  PROVE  Max({a, b}) \in {a, b} /\ Max({a, b}) >= a /\ Max({a, b}) >= b
<1> DEFINE m == IF a >= b THEN a ELSE b
<1>1. m \in {a, b} /\ \A y \in {a, b} : m >= y
  OBVIOUS
<1> HIDE DEF m
<1>2. Max({a, b}) \in {a, b} /\ \A y \in {a, b} : Max({a, b}) >= y
  BY <1>1 DEF Max
<1> QED
  BY <1>2

\* The least of a set of numbers is one of them.
LEMMA MinOfSome ==
  ASSUME NEW S, S \subseteq Nat, S # {}
  PROVE  Min(S) \in S
<1>1. \E n \in S : \A m \in S : n <= m
  BY LeastNumber
<1> QED
  BY <1>1 DEF Min

\* The orders of a finite set are lists of its elements.
LEMMA OrdersAreLists ==
  ASSUME NEW T, IsFiniteSet(T), NEW S \in SUBSET T, NEW q \in SetToSeqs(S)
  PROVE  q \in Seq(T) /\ Range(q) \subseteq S
<1>1. IsFiniteSet(S)
  BY FS_Subset
<1>2. Cardinality(S) \in Nat
  BY <1>1, FS_CardinalityType
<1>3. q \in [1 .. Cardinality(S) -> S]
  BY DEF SetToSeqs
<1>4. Range(q) \subseteq S
  BY <1>3 DEF Range
<1> QED
  BY <1>2, <1>3, <1>4

-----------------------------------------------------------------------------
(***************************************************************************)
(* FlattenSeq, the concatenation of a list of lists, is the last of the    *)
(* partial concatenations, each of which is the one before and the next    *)
(* list.                                                                   *)
(***************************************************************************)
Partial(ss, f) == [i \in 1 .. Len(ss) |-> IF i = 1 THEN ss[i] ELSE f[i - 1] \o ss[i]]

Joins(ss, f, m) == \A i \in 1 .. m : f[i] = IF i = 1 THEN ss[i] ELSE f[i - 1] \o ss[i]

\* There is such a list of partial concatenations, however many lists there are.
LEMMA JoinsExist ==
  ASSUME NEW ss, NEW m \in Nat
  PROVE  \E f : f = [i \in 1 .. m |-> f[i]] /\ Joins(ss, f, m)
<1> DEFINE S == {k \in Nat : \E f : f = [i \in 1 .. k |-> f[i]] /\ Joins(ss, f, k)}
<1>1. 0 \in S
  <2> DEFINE f == [i \in 1 .. 0 |-> 0]
  <2>1. f = [i \in 1 .. 0 |-> f[i]] /\ Joins(ss, f, 0)
    BY DEF Joins
  <2> QED
    BY <2>1
<1>2. ASSUME NEW k \in Nat, k \in S PROVE k + 1 \in S
  <2>1. PICK f : f = [i \in 1 .. k |-> f[i]] /\ Joins(ss, f, k)
    BY <1>2
  <2> DEFINE x == IF k + 1 = 1 THEN ss[k + 1] ELSE f[k] \o ss[k + 1]
             g == [i \in 1 .. k + 1 |-> IF i = k + 1 THEN x ELSE f[i]]
  <2> HIDE DEF x
  <2>2. g = [i \in 1 .. k + 1 |-> g[i]]
    OBVIOUS
  <2>3. \A i \in 1 .. k : g[i] = f[i]
    OBVIOUS
  <2>4. g[k + 1] = x
    OBVIOUS
  <2>5. ASSUME NEW i \in 1 .. k + 1 PROVE g[i] = IF i = 1 THEN ss[i] ELSE g[i - 1] \o ss[i]
    <3> HIDE DEF g
    <3>1. CASE i = k + 1
      <4>1. CASE k = 0
        BY <2>4, <3>1, <4>1 DEF x
      <4>2. CASE k # 0
        <5>1. g[k] = f[k] /\ k + 1 # 1 /\ i - 1 = k /\ i # 1
          BY <2>3, <3>1, <4>2
        <5> QED
          BY <2>4, <3>1, <5>1 DEF x
      <4> QED
        BY <4>1, <4>2
    <3>2. CASE i # k + 1
      <4>1. i \in 1 .. k
        BY <3>2
      <4>2. f[i] = IF i = 1 THEN ss[i] ELSE f[i - 1] \o ss[i]
        BY <2>1, <4>1 DEF Joins
      <4>3. i # 1 => g[i - 1] = f[i - 1]
        BY <2>3, <4>1
      <4> QED
        BY <2>3, <4>1, <4>2, <4>3
    <3> QED
      BY <3>1, <3>2
  <2>6. Joins(ss, g, k + 1)
    BY <2>5 DEF Joins
  <2> QED
    BY <2>2, <2>6
<1> HIDE DEF S
<1>3. Nat \subseteq S
  BY <1>1, <1>2, NatSetInduction
<1> QED
  BY <1>3 DEF S

\* FlattenSeq joins the lists one after the other, starting from none.
LEMMA FlattenJoins ==
  ASSUME NEW T, NEW ss \in Seq(Seq(T))
  PROVE  \E f \in [0 .. Len(ss) -> Seq(T)] :
           /\ f[0] = <<>>
           /\ \A i \in 0 .. Len(ss) - 1 : f[i + 1] = f[i] \o ss[i + 1]
           /\ FlattenSeq(ss) = f[Len(ss)]
<1> DEFINE n == Len(ss)
<1>1. n \in Nat /\ \A i \in 1 .. n : ss[i] \in Seq(T)
  OBVIOUS
<1>2. CASE n = 0
  <2> DEFINE f == [i \in 0 .. 0 |-> <<>>]
  <2>1. FlattenSeq(ss) = ss /\ ss = <<>>
    BY <1>2 DEF FlattenSeq
  <2>2. f \in [0 .. n -> Seq(T)] /\ f[0] = <<>> /\ f[n] = <<>>
    BY <1>2
  <2> HIDE DEF f
  <2> QED
    BY <1>2, <2>1, <2>2
<1>3. CASE n # 0
  <2> DEFINE h == CHOOSE f : f = Partial(ss, f)
  <2>1. \E f : f = Partial(ss, f)
    <3>1. PICK f : f = [i \in 1 .. n |-> f[i]] /\ Joins(ss, f, n)
      BY <1>1, JoinsExist
    <3>2. f = Partial(ss, f)
      BY <3>1 DEF Joins, Partial
    <3> QED
      BY <3>2
  <2>2. h = Partial(ss, h)
    BY <2>1
  <2>3. FlattenSeq(ss) = h[n]
    BY <1>3 DEF FlattenSeq, Partial
  <2> HIDE DEF h
  <2>4. \A i \in 1 .. n : h[i] = IF i = 1 THEN ss[i] ELSE h[i - 1] \o ss[i]
    BY <2>2 DEF Partial
  <2> DEFINE S == {k \in Nat : k \in 1 .. n => h[k] \in Seq(T)}
  <2>5. Nat \subseteq S
    <3>1. 0 \in S
      OBVIOUS
    <3>2. ASSUME NEW k \in Nat, k \in S PROVE k + 1 \in S
      <4> SUFFICES ASSUME k + 1 \in 1 .. n PROVE h[k + 1] \in Seq(T)
        OBVIOUS
      <4>1. ss[k + 1] \in Seq(T)
        BY <1>1
      <4>2. CASE k = 0
        <5>1. h[1] = ss[1]
          BY <2>4, <4>2
        <5> QED
          BY <4>1, <4>2, <5>1
      <4>3. CASE k # 0
        <5>1. h[k] \in Seq(T)
          BY <3>2, <4>3
        <5>2. h[k + 1] = h[k] \o ss[k + 1]
          <6>1. k + 1 # 1 /\ (k + 1) - 1 = k
            BY <4>3
          <6> QED
            BY <2>4, <6>1
        <5> QED
          BY <4>1, <5>1, <5>2
      <4> QED
        BY <4>2, <4>3
    <3> HIDE DEF S
    <3> QED
      BY <3>1, <3>2, NatSetInduction
  <2> DEFINE f == [k \in 0 .. n |-> IF k = 0 THEN <<>> ELSE h[k]]
  <2>6. f \in [0 .. n -> Seq(T)]
    BY <1>1, <2>5
  <2>7. f[0] = <<>> /\ \A k \in 1 .. n : f[k] = h[k]
    BY <1>1
  <2> HIDE DEF f
  <2>8. ASSUME NEW i \in 0 .. n - 1 PROVE f[i + 1] = f[i] \o ss[i + 1]
    <3>1. CASE i = 0
      <4>1. <<>> \o ss[1] = ss[1]
        BY <1>1, <1>3
      <4>2. f[1] = h[1] /\ h[1] = ss[1] /\ i + 1 = 1
        BY <1>1, <1>3, <2>4, <2>7, <3>1
      <4> QED
        BY <2>7, <3>1, <4>1, <4>2
    <3>2. CASE i # 0
      <4>1. i \in 1 .. n /\ i + 1 \in 1 .. n /\ i + 1 # 1 /\ (i + 1) - 1 = i
        BY <1>1, <3>2
      <4>2. h[i + 1] = h[i] \o ss[i + 1]
        BY <2>4, <4>1
      <4> QED
        BY <2>7, <4>1, <4>2
    <3> QED
      BY <3>1, <3>2
  <2>9. FlattenSeq(ss) = f[n]
    BY <1>1, <1>3, <2>3, <2>7
  <2> QED
    BY <2>6, <2>7, <2>8, <2>9
<1> QED
  BY <1>2, <1>3
(***************************************************************************)
(* Every earlier element of a list is related by R to every later one: R   *)
(* is an order for a sorted list, inequality for one without repetitions.  *)
(***************************************************************************)
Ordered(q, R) == \A j, k \in DOMAIN q : j < k => <<q[j], q[k]>> \in R

\* Two lists in order, all of one before all of the other, make one in order.
LEMMA ConcatOrdered ==
  ASSUME NEW T, NEW p \in Seq(T), NEW q \in Seq(T), NEW R,
         Ordered(p, R), Ordered(q, R), \A x \in Range(p), y \in Range(q) : <<x, y>> \in R
  PROVE  Ordered(p \o q, R)
<1>1. /\ DOMAIN p = 1 .. Len(p) /\ Len(p) \in Nat
      /\ DOMAIN q = 1 .. Len(q) /\ Len(q) \in Nat
      /\ DOMAIN (p \o q) = 1 .. Len(p) + Len(q)
      /\ \A j \in 1 .. Len(p) : (p \o q)[j] = p[j]
      /\ \A j \in Len(p) + 1 .. Len(p) + Len(q) : (p \o q)[j] = q[j - Len(p)]
  OBVIOUS
<1> SUFFICES ASSUME NEW j \in 1 .. Len(p) + Len(q), NEW k \in 1 .. Len(p) + Len(q), j < k
             PROVE  <<(p \o q)[j], (p \o q)[k]>> \in R
  BY <1>1 DEF Ordered
<1>2. CASE k <= Len(p)
  BY <1>1, <1>2 DEF Ordered
<1>3. CASE j > Len(p)
  <2>1. /\ j - Len(p) \in 1 .. Len(q) /\ k - Len(p) \in 1 .. Len(q) /\ j - Len(p) < k - Len(p)
        /\ (p \o q)[j] = q[j - Len(p)] /\ (p \o q)[k] = q[k - Len(p)]
    BY <1>1, <1>3
  <2> QED
    BY <1>1, <2>1 DEF Ordered
<1>4. CASE j <= Len(p) /\ k > Len(p)
  <2>1. /\ j \in 1 .. Len(p) /\ k - Len(p) \in 1 .. Len(q)
        /\ (p \o q)[j] = p[j] /\ (p \o q)[k] = q[k - Len(p)]
    BY <1>1, <1>4
  <2>2. p[j] \in Range(p) /\ q[k - Len(p)] \in Range(q)
    BY <1>1, <2>1 DEF Range
  <2> QED
    BY <2>1, <2>2
<1>5. k <= Len(p) \/ j > Len(p) \/ (j <= Len(p) /\ k > Len(p))
  BY <1>1
<1> QED
  BY <1>2, <1>3, <1>4, <1>5

\* The concatenation of a list of lists holds what they hold.
LEMMA FlattenRange ==
  ASSUME NEW T, NEW ss \in Seq(Seq(T))
  PROVE  /\ FlattenSeq(ss) \in Seq(T)
         /\ Range(FlattenSeq(ss)) = UNION {Range(ss[k]) : k \in 1 .. Len(ss)}
<1> DEFINE n == Len(ss)
<1>1. n \in Nat /\ \A i \in 1 .. n : ss[i] \in Seq(T)
  OBVIOUS
<1>2. PICK f \in [0 .. n -> Seq(T)] :
        /\ f[0] = <<>> /\ \A i \in 0 .. n - 1 : f[i + 1] = f[i] \o ss[i + 1]
        /\ FlattenSeq(ss) = f[n]
  BY FlattenJoins
<1> DEFINE S == {m \in Nat : m <= n => Range(f[m]) = UNION {Range(ss[k]) : k \in 1 .. m}}
<1> HIDE DEF n
<1>3. 0 \in S
  BY <1>2 DEF Range
<1>4. ASSUME NEW m \in Nat, m \in S PROVE m + 1 \in S
  <2> SUFFICES ASSUME m + 1 <= n
               PROVE  Range(f[m + 1]) = UNION {Range(ss[k]) : k \in 1 .. m + 1}
    OBVIOUS
  <2>1. /\ f[m + 1] = f[m] \o ss[m + 1] /\ f[m] \in Seq(T) /\ ss[m + 1] \in Seq(T)
        /\ m <= n
    <3>1. m \in 0 .. n - 1 /\ m \in 0 .. n /\ m + 1 \in 1 .. n
      BY <1>1
    <3>2. f[m + 1] = f[m] \o ss[m + 1]
      BY <1>2, <3>1
    <3>3. f[m] \in Seq(T)
      BY <3>1
    <3>4. ss[m + 1] \in Seq(T)
      BY <1>1, <3>1
    <3> QED
      BY <1>1, <3>1, <3>2, <3>3, <3>4
  <2>2. Range(f[m + 1]) = Range(f[m]) \cup Range(ss[m + 1])
    BY <2>1, ConcatList
  <2>3. 1 .. m + 1 = (1 .. m) \cup {m + 1}
    OBVIOUS
  <2>4. Range(f[m]) = UNION {Range(ss[k]) : k \in 1 .. m}
    BY <1>4, <2>1
  <2> QED
    BY <2>2, <2>3, <2>4
<1>5. n \in S
  <2> HIDE DEF S
  <2> QED
    BY <1>1, <1>3, <1>4, NatSetInduction
<1> QED
  BY <1>1, <1>2, <1>5 DEF n

\* It is in order if they are, and one is behind the other.
LEMMA FlattenOrdered ==
  ASSUME NEW T, NEW ss \in Seq(Seq(T)), NEW R,
         \A k \in 1 .. Len(ss) : Ordered(ss[k], R),
         \A j, k \in 1 .. Len(ss) : j < k =>
            \A x \in Range(ss[j]), y \in Range(ss[k]) : <<x, y>> \in R
  PROVE  Ordered(FlattenSeq(ss), R)
<1> DEFINE n == Len(ss)
<1>1. n \in Nat /\ \A i \in 1 .. n : ss[i] \in Seq(T)
  OBVIOUS
<1>2. PICK f \in [0 .. n -> Seq(T)] :
        /\ f[0] = <<>> /\ \A i \in 0 .. n - 1 : f[i + 1] = f[i] \o ss[i + 1]
        /\ FlattenSeq(ss) = f[n]
  BY FlattenJoins
<1> DEFINE S == {m \in Nat : m <= n => Ordered(f[m], R)
                             /\ \A x \in Range(f[m]) : \E j \in 1 .. m : x \in Range(ss[j])}
<1> HIDE DEF n
<1>3. 0 \in S
  BY <1>2 DEF Range, Ordered
<1>4. ASSUME NEW m \in Nat, m \in S PROVE m + 1 \in S
  <2> SUFFICES ASSUME m + 1 <= n
               PROVE  /\ Ordered(f[m + 1], R)
                      /\ \A x \in Range(f[m + 1]) : \E j \in 1 .. m + 1 : x \in Range(ss[j])
    OBVIOUS
  <2>1. /\ f[m + 1] = f[m] \o ss[m + 1] /\ f[m] \in Seq(T) /\ ss[m + 1] \in Seq(T)
        /\ m <= n /\ m + 1 \in 1 .. n
    <3>1. m \in 0 .. n - 1 /\ m \in 0 .. n /\ m + 1 \in 1 .. n
      BY <1>1
    <3>2. f[m + 1] = f[m] \o ss[m + 1]
      BY <1>2, <3>1
    <3>3. f[m] \in Seq(T)
      BY <3>1
    <3>4. ss[m + 1] \in Seq(T)
      BY <1>1, <3>1
    <3> QED
      BY <1>1, <3>1, <3>2, <3>3, <3>4
  <2>2. Ordered(f[m], R) /\ \A x \in Range(f[m]) : \E j \in 1 .. m : x \in Range(ss[j])
    BY <1>4, <2>1
  <2>3. ASSUME NEW x \in Range(f[m]), NEW y \in Range(ss[m + 1]) PROVE <<x, y>> \in R
    <3>1. PICK j \in 1 .. m : x \in Range(ss[j])
      BY <2>2
    <3>2. j \in 1 .. n /\ j < m + 1
      BY <1>1, <2>1
    <3> QED
      BY <2>1, <3>1, <3>2 DEF n
  <2>4. Ordered(ss[m + 1], R)
    BY <2>1 DEF n
  <2>5. Ordered(f[m + 1], R)
    BY <2>1, <2>2, <2>3, <2>4, ConcatOrdered
  <2>6. Range(f[m + 1]) = Range(f[m]) \cup Range(ss[m + 1])
    BY <2>1, ConcatList
  <2>7. \A x \in Range(f[m + 1]) : \E j \in 1 .. m + 1 : x \in Range(ss[j])
    BY <2>2, <2>6
  <2> QED
    BY <2>5, <2>7
<1>5. n \in S
  <2> HIDE DEF S
  <2> QED
    BY <1>1, <1>3, <1>4, NatSetInduction
<1> QED
  BY <1>1, <1>2, <1>5 DEF n

\* Concatenation of lists of numbers, as an algebra.
LEMMA NatConcat ==
  /\ <<>> \in Seq(Nat)
  /\ \A p, q \in Seq(Nat) : p \o q \in Seq(Nat)
  /\ \A p, q, r \in Seq(Nat) : (p \o q) \o r = p \o (q \o r)
  /\ \A p \in Seq(Nat) : p \o <<>> = p
<1>1. ASSUME NEW p \in Seq(Nat), NEW q \in Seq(Nat) PROVE p \o q \in Seq(Nat)
  OBVIOUS
<1>2. ASSUME NEW p \in Seq(Nat), NEW q \in Seq(Nat), NEW r \in Seq(Nat) PROVE (p \o q) \o r = p \o (q \o r)
  BY SMTT(60)
<1>3. ASSUME NEW p \in Seq(Nat) PROVE p \o <<>> = p
  OBVIOUS
<1>4. <<>> \in Seq(Nat)
  OBVIOUS
<1> QED
  BY <1>1, <1>2, <1>3, <1>4, Zenon

(***************************************************************************)
(* The concatenation of two lists of lists, of one list and of none.       *)
(***************************************************************************)
LEMMA FlattenConcat ==
  ASSUME NEW T, NEW p \in Seq(Seq(T)), NEW q \in Seq(Seq(T))
  PROVE  FlattenSeq(p \o q) = FlattenSeq(p) \o FlattenSeq(q)
<1> DEFINE n == Len(p)
           l == Len(q)
           s == p \o q
<1>1. /\ n \in Nat /\ l \in Nat /\ s \in Seq(Seq(T)) /\ Len(s) = n + l
      /\ \A i \in 1 .. n : s[i] = p[i] /\ p[i] \in Seq(T)
      /\ \A i \in 1 .. l : s[n + i] = q[i] /\ q[i] \in Seq(T)
  OBVIOUS
<1>2. PICK g \in [0 .. n -> Seq(T)] :
        /\ g[0] = <<>> /\ \A i \in 0 .. n - 1 : g[i + 1] = g[i] \o p[i + 1]
        /\ FlattenSeq(p) = g[n]
  BY FlattenJoins
<1>3. PICK h \in [0 .. l -> Seq(T)] :
        /\ h[0] = <<>> /\ \A i \in 0 .. l - 1 : h[i + 1] = h[i] \o q[i + 1]
        /\ FlattenSeq(q) = h[l]
  BY FlattenJoins
<1> HIDE DEF n, l, s
<1>4. PICK f \in [0 .. Len(s) -> Seq(T)] :
        /\ f[0] = <<>> /\ \A i \in 0 .. Len(s) - 1 : f[i + 1] = f[i] \o s[i + 1]
        /\ FlattenSeq(s) = f[Len(s)]
  BY <1>1, FlattenJoins
<1> DEFINE A == {m \in Nat : m <= n => f[m] = g[m]}
           B == {m \in Nat : m <= l => f[n + m] = g[n] \o h[m]}
<1>5. 0 \in A /\ \A m \in Nat : m \in A => m + 1 \in A
  <2>1. 0 \in A
    BY <1>2, <1>4
  <2>2. ASSUME NEW m \in Nat, m \in A, m + 1 <= n PROVE f[m + 1] = g[m + 1]
    <3>1. m \in 0 .. n - 1 /\ m \in 0 .. Len(s) - 1 /\ m + 1 \in 1 .. n /\ f[m] = g[m]
      BY <1>1, <2>2
    <3>2. s[m + 1] = p[m + 1]
      BY <1>1, <3>1
    <3>3. f[m + 1] = f[m] \o s[m + 1] /\ g[m + 1] = g[m] \o p[m + 1]
      BY <1>2, <1>4, <3>1
    <3> QED
      BY <3>1, <3>2, <3>3
  <2> QED
    BY <2>1, <2>2
<1>6. f[n] = g[n]
  <2> HIDE DEF A
  <2>1. n \in A
    BY <1>1, <1>5, NatSetInduction
  <2> QED
    BY <1>1, <2>1 DEF A
<1>7. 0 \in B
  <2>1. g[n] \in Seq(T) /\ n + 0 = n
    BY <1>1, <1>2
  <2>2. g[n] \o <<>> = g[n]
    BY <2>1
  <2> QED
    BY <1>3, <1>6, <2>1, <2>2
<1>8. ASSUME NEW m \in Nat, m \in B PROVE m + 1 \in B
  <2>0. m + 1 \in Nat
    OBVIOUS
  <2> SUFFICES ASSUME m + 1 <= l PROVE f[n + (m + 1)] = g[n] \o h[m + 1]
    BY <2>0
  <2>1. /\ m \in 0 .. l - 1 /\ m \in 0 .. l /\ n + m \in 0 .. Len(s) - 1 /\ m + 1 \in 1 .. l /\ n \in 0 .. n
        /\ n + (m + 1) = (n + m) + 1
    BY <1>1
  <2>2. f[n + m] = g[n] \o h[m]
    BY <1>8, <2>1
  <2>3. s[(n + m) + 1] = q[m + 1] /\ q[m + 1] \in Seq(T)
    <3>1. s[n + (m + 1)] = q[m + 1] /\ q[m + 1] \in Seq(T)
      BY <1>1, <2>1
    <3> QED
      BY <2>1, <3>1
  <2>4. f[(n + m) + 1] = f[n + m] \o s[(n + m) + 1]
    BY <1>4, <2>1
  <2>5. h[m + 1] = h[m] \o q[m + 1] /\ h[m] \in Seq(T) /\ g[n] \in Seq(T)
    BY <1>2, <1>3, <2>1
  <2>6. (g[n] \o h[m]) \o q[m + 1] = g[n] \o (h[m] \o q[m + 1])
    <3>1. PICK x \in Seq(T), y \in Seq(T), z \in Seq(T) : x = g[n] /\ y = h[m] /\ z = q[m + 1]
      BY <2>3, <2>5
    <3>2. (x \o y) \o z = x \o (y \o z)
      BY SMTT(60)
    <3> QED
      BY <3>1, <3>2
  <2> QED
    BY <2>1, <2>2, <2>3, <2>4, <2>5, <2>6
<1>9. f[n + l] = g[n] \o h[l]
  <2> HIDE DEF B
  <2>1. l \in B
    BY <1>1, <1>7, <1>8, NatSetInduction
  <2> QED
    BY <1>1, <2>1 DEF B
<1> QED
  BY <1>1, <1>2, <1>3, <1>4, <1>9 DEF s

\* The concatenation of one list.
LEMMA FlattenOne ==
  ASSUME NEW T, NEW x \in Seq(T)
  PROVE  FlattenSeq(<<x>>) = x
<1>1. <<x>> \in Seq(Seq(T)) /\ Len(<<x>>) = 1 /\ <<x>>[1] = x
  OBVIOUS
<1>2. PICK f \in [0 .. 1 -> Seq(T)] :
        /\ f[0] = <<>> /\ \A k \in 0 .. 1 - 1 : f[k + 1] = f[k] \o <<x>>[k + 1]
        /\ FlattenSeq(<<x>>) = f[1]
  BY <1>1, FlattenJoins
<1>3. f[0 + 1] = f[0] \o <<x>>[0 + 1]
  BY <1>2
<1> QED
  BY <1>1, <1>2, <1>3

\* The concatenation of no list.
LEMMA FlattenNone == FlattenSeq(<<>>) = <<>>
  BY DEF FlattenSeq

\* A list with an element more.
LEMMA AppendIs ==
  ASSUME NEW T, NEW q \in Seq(T), NEW c \in T
  PROVE  /\ Append(q, c) \in Seq(T) /\ Append(q, c) # <<>> /\ Append(q, c) = q \o <<c>>
         /\ Len(Append(q, c)) = Len(q) + 1
<1>1. Append(q, c) \in Seq(T) /\ Len(Append(q, c)) = Len(q) + 1 /\ Len(q) \in Nat
  OBVIOUS
<1>2. Append(q, c) # <<>>
  BY <1>1
<1>3. Append(q, c) = q \o <<c>>
  OBVIOUS
<1> QED
  BY <1>1, <1>2, <1>3

\* A list in two parts.
LEMMA SplitList ==
  ASSUME NEW T, NEW q \in Seq(T), NEW k \in 0 .. Len(q)
  PROVE  /\ SubSeq(q, 1, k) \in Seq(T) /\ SubSeq(q, k + 1, Len(q)) \in Seq(T)
         /\ q = SubSeq(q, 1, k) \o SubSeq(q, k + 1, Len(q))
         /\ Len(SubSeq(q, 1, k)) = k /\ SubSeq(q, 1, Len(q)) = q
<1>1. SubSeq(q, 1, k) \in Seq(T) /\ SubSeq(q, k + 1, Len(q)) \in Seq(T)
  OBVIOUS
<1>2. q = SubSeq(q, 1, k) \o SubSeq(q, k + 1, Len(q))
  <2>1. PICK a \in Seq(T), c \in Seq(T) : a = SubSeq(q, 1, k) /\ c = SubSeq(q, k + 1, Len(q))
    BY <1>1
  <2>2. /\ Len(q) \in Nat /\ Len(a) = k /\ Len(c) = Len(q) - k /\ (\A j \in 1 .. k : a[j] = q[j])
        /\ \A j \in 1 .. Len(q) - k : c[j] = q[k + j]
    BY <2>1
  <2>3. a \in Seq(T) /\ c \in Seq(T)
    BY <2>1
  <2>4. PICK d \in Seq(T) : d = a \o c
    BY <2>3, ConcatList
  <2>5. /\ Len(d) = Len(a) + Len(c) /\ (\A j \in 1 .. Len(a) : d[j] = a[j])
        /\ \A j \in Len(a) + 1 .. Len(a) + Len(c) : d[j] = c[j - Len(a)]
    BY <2>3, <2>4
  <2>6. Len(d) = Len(q)
    BY <2>2, <2>5
  <2>7. ASSUME NEW j \in 1 .. Len(q) PROVE d[j] = q[j]
    <3>1. CASE j <= k
      BY <2>2, <2>5, <3>1
    <3>2. CASE j > k
      <4>1. j - k \in 1 .. Len(q) - k /\ d[j] = c[j - k] /\ k + (j - k) = j
        BY <2>2, <2>5, <3>2
      <4> QED
        BY <2>2, <4>1
    <3> QED
      BY <2>2, <3>1, <3>2
  <2>8. d \in Seq(T)
    BY <2>4
  <2>9. d = [j \in 1 .. Len(q) |-> d[j]] /\ q = [j \in 1 .. Len(q) |-> q[j]]
    BY <2>6, <2>8
  <2>10. d = q
    BY <2>7, <2>9
  <2> QED
    BY <2>1, <2>4, <2>10
<1>3. Len(SubSeq(q, 1, k)) = k /\ SubSeq(q, 1, Len(q)) = q
  OBVIOUS
<1> QED
  BY <1>1, <1>2, <1>3

\* A list from one of its elements on.
LEMMA FromList ==
  ASSUME NEW T, NEW q \in Seq(T), NEW k \in 1 .. Len(q)
  PROVE  /\ SubSeq(q, k, Len(q)) = <<q[k]>> \o SubSeq(q, k + 1, Len(q))
         /\ SubSeq(q, k + 1, Len(q)) \in Seq(T) /\ <<q[k]>> \in Seq(T) /\ q[k] \in T
<1>1. SubSeq(q, k + 1, Len(q)) \in Seq(T) /\ <<q[k]>> \in Seq(T) /\ q[k] \in T
  OBVIOUS
<1>2. SubSeq(q, k, Len(q)) = <<q[k]>> \o SubSeq(q, k + 1, Len(q))
  OBVIOUS
<1> QED
  BY <1>1, <1>2

-----------------------------------------------------------------------------
(***************************************************************************)
(* Division with remainder, as the index of a ring uses it: add_timeout    *)
(* and take_all_timeout find their slot by (w_index_ + i) % w_size_.       *)
(***************************************************************************)
LEMMA DivMod ==
  \A x \in Int, m \in Nat \ {0} :
    /\ x = m * (x \div m) + (x % m)
    /\ x % m \in 0 .. m - 1
    /\ x \div m \in Int
  OBVIOUS

(***************************************************************************)
(* Multiples of the wheel size are at least one wheel size apart.          *)
(***************************************************************************)
LEMMA MulMono ==
  ASSUME NEW m \in Nat \ {0}, NEW p \in Int, NEW q \in Int, p >= q + 1
  PROVE  m * p >= m * q + m
  OBVIOUS

(***************************************************************************)
(* The remainder of a number that is already in range: the conversion of a *)
(* small count to int changes nothing.                                     *)
(***************************************************************************)
LEMMA ModSmall == \A m \in Nat \ {0} : \A x \in 0 .. m - 1 : x % m = x
  OBVIOUS

(***************************************************************************)
(* Slots at different distances within one turn are different slots.       *)
(***************************************************************************)
LEMMA ModInj ==
  ASSUME NEW a \in Nat, NEW m \in Nat \ {0},
         NEW d \in 0 .. m - 1, NEW k \in 0 .. m - 1,
         (a + d) % m = (a + k) % m
  PROVE  d = k
<1> DEFINE p == (a + d) \div m
           q == (a + k) \div m
           r == (a + d) % m
<1>1. p \in Int /\ a + d = m * p + r
  BY DivMod
<1>2. q \in Int /\ a + k = m * q + r
  BY DivMod
<1>3. r \in Int
  BY DivMod
<1> HIDE DEF p, q, r
<1>4. ~(p >= q + 1)
  BY <1>1, <1>2, <1>3, MulMono
<1>5. ~(q >= p + 1)
  BY <1>1, <1>2, <1>3, MulMono
<1>6. p = q
  BY <1>1, <1>2, <1>4, <1>5
<1> QED
  BY <1>1, <1>2, <1>3, <1>6

-----------------------------------------------------------------------------
(***************************************************************************)
(* n of the m lists of a ring, joined from index a on: they are different  *)
(* lists, however the index wraps.                                         *)
(***************************************************************************)
RingJoin(tw, a, n, m) == FlattenSeq([k \in 1 .. n |-> tw[(a + k - 1) % m]])

RingRange(tw, a, n, m) == UNION {Range(tw[(a + k) % m]) : k \in 0 .. n - 1}

RingOrdered(tw, a, n, m, R) ==
  /\ \A s \in 0 .. m - 1 : Ordered(tw[s], R)
  /\ \A j, k \in 0 .. n - 1 : j < k =>
       \A x \in Range(tw[(a + j) % m]), y \in Range(tw[(a + k) % m]) : <<x, y>> \in R

\* The joined list holds what they hold, in order if each is, and one behind the other.
LEMMA RingList ==
  ASSUME NEW T, NEW m \in Nat \ {0}, NEW tw \in [0 .. m - 1 -> Seq(T)],
         NEW a \in Nat, NEW n \in 0 .. m, NEW R, RingOrdered(tw, a, n, m, R)
  PROVE  /\ RingJoin(tw, a, n, m) \in Seq(T)
         /\ Range(RingJoin(tw, a, n, m)) = RingRange(tw, a, n, m)
         /\ Ordered(RingJoin(tw, a, n, m), R)
<1> DEFINE slot(k) == (a + k) % m
           at(k) == (a + k - 1) % m
           ss == [k \in 1 .. n |-> tw[at(k)]]
<1>1. \A k \in 0 .. n - 1 : slot(k) \in 0 .. m - 1
  <2> SUFFICES ASSUME NEW k \in 0 .. n - 1 PROVE slot(k) \in 0 .. m - 1
    OBVIOUS
  <2>1. a + k \in Int
    OBVIOUS
  <2> QED
    BY <2>1, DivMod
<1>2. \A k \in 1 .. n : k - 1 \in 0 .. n - 1 /\ at(k) = slot(k - 1)
  <2> SUFFICES ASSUME NEW k \in 1 .. n PROVE k - 1 \in 0 .. n - 1 /\ at(k) = slot(k - 1)
    OBVIOUS
  <2>1. k - 1 \in 0 .. n - 1 /\ a + k - 1 = a + (k - 1)
    OBVIOUS
  <2> QED
    BY <2>1
<1>3. \A j, k \in 0 .. n - 1 : j < k =>
            \A x \in Range(tw[slot(j)]), y \in Range(tw[slot(k)]) : <<x, y>> \in R
  BY DEF RingOrdered
<1>4. RingJoin(tw, a, n, m) = FlattenSeq(ss)
  BY DEF RingJoin
<1>5. RingRange(tw, a, n, m) = UNION {Range(tw[slot(k)]) : k \in 0 .. n - 1}
  BY DEF RingRange
<1> HIDE DEF slot, at
<1>6. \A k \in 1 .. n : at(k) \in 0 .. m - 1 /\ tw[at(k)] \in Seq(T)
  BY <1>1, <1>2
<1>7. ss \in Seq(Seq(T)) /\ Len(ss) = n /\ \A k \in 1 .. n : ss[k] = tw[at(k)]
  BY <1>6
<1> HIDE DEF ss
<1>8. FlattenSeq(ss) \in Seq(T) /\ Range(FlattenSeq(ss)) = UNION {Range(ss[k]) : k \in 1 .. n}
  BY <1>7, FlattenRange
<1>9. UNION {Range(ss[k]) : k \in 1 .. n} = UNION {Range(tw[slot(k)]) : k \in 0 .. n - 1}
  <2>1. \A k \in 0 .. n - 1 : k + 1 \in 1 .. n /\ (k + 1) - 1 = k
    OBVIOUS
  <2>2. \A k \in 0 .. n - 1 : ss[k + 1] = tw[slot(k)]
    BY <1>2, <1>7, <2>1
  <2>3. \A k \in 1 .. n : k - 1 \in 0 .. n - 1 /\ ss[k] = tw[slot(k - 1)]
    BY <1>2, <1>7
  <2>4. ASSUME NEW x PROVE x \in UNION {Range(ss[k]) : k \in 1 .. n}
                           <=> x \in UNION {Range(tw[slot(k)]) : k \in 0 .. n - 1}
    <3>1. ASSUME NEW k \in 1 .. n, x \in Range(ss[k])
          PROVE  x \in UNION {Range(tw[slot(j)]) : j \in 0 .. n - 1}
      BY <2>3, <3>1
    <3>2. ASSUME NEW k \in 0 .. n - 1, x \in Range(tw[slot(k)])
          PROVE  x \in UNION {Range(ss[j]) : j \in 1 .. n}
      BY <2>1, <2>2, <3>2
    <3> QED
      BY <3>1, <3>2
  <2> QED
    BY <2>4
<1>10. \A k \in 1 .. n : Ordered(ss[k], R)
  BY <1>6, <1>7 DEF RingOrdered
<1>11. ASSUME NEW j \in 1 .. n, NEW k \in 1 .. n, j < k, NEW x \in Range(ss[j]), NEW y \in Range(ss[k])
       PROVE  <<x, y>> \in R
  <2>1. j - 1 \in 0 .. n - 1 /\ k - 1 \in 0 .. n - 1 /\ j - 1 < k - 1
    BY <1>11
  <2>2. x \in Range(tw[slot(j - 1)]) /\ y \in Range(tw[slot(k - 1)])
    BY <1>2, <1>7, <1>11
  <2> QED
    BY <1>3, <2>1, <2>2
<1>12. Ordered(FlattenSeq(ss), R)
  BY <1>7, <1>10, <1>11, FlattenOrdered
<1> QED
  BY <1>4, <1>5, <1>8, <1>9, <1>12

=============================================================================
