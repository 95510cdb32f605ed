--------------------------- MODULE TimeWheelProofs ---------------------------
(***************************************************************************)
(* For every number of items, every wheel size and every bound: under      *)
(* SoundUse the timing wheel refuses no timer, fires none early and leaves *)
(* none behind that is due.                                                *)
(***************************************************************************)
EXTENDS TimeWheel, Lists

(***************************************************************************)
(* The inductive invariant: SlotInv says where an item of the wheel is,    *)
(* and ClockInv how far the clock is from w_start, without which neither   *)
(* the slot of a new item nor the number of slots taken can be bounded.    *)
(* ret_link is left out: no part of the invariant looks into it.           *)
(***************************************************************************)
WheelType ==
  /\ time_wheel \in [Slots -> Seq(Items)]
  /\ w_start \in Nat /\ w_index \in Nat /\ clock \in Nat
  /\ expire \in [Items -> Nat]
  /\ t_link \in [Items -> Links]

ClockInv ==
  /\ w_start >= Epoch
  /\ clock >= w_start - MaxBack
  /\ clock <= w_start + MaxLag

IndInv == WheelType /\ ClockInv /\ SlotInv /\ FiredDue /\ NoDrop

-----------------------------------------------------------------------------
(***************************************************************************)
(* In range, the conversion to int is the identity.                        *)
(***************************************************************************)
LEMMA ToIntId ==
  ASSUME NEW x \in Nat, x < IntHalf
  PROVE  ToInt(x) = x
<1>1. IntHalf \in Nat \ {0}
  BY WheelAssumption
<1>2. x + IntHalf \in 0 .. (2 * IntHalf) - 1 /\ 2 * IntHalf \in Nat \ {0}
  BY <1>1
<1>3. (x + IntHalf) % (2 * IntHalf) = x + IntHalf
  BY <1>2, ModSmall
<1> QED
  BY <1>1, <1>3 DEF ToInt

(***************************************************************************)
(* What take_all_timeout counts when the clock is not behind.              *)
(***************************************************************************)
LEMMA CountValue ==
  ASSUME SoundUse, WheelType, ClockInv, clock >= w_start
  PROVE  /\ Count(clock) \in 1 .. WSize
         /\ Count(clock) < WSize => Count(clock) = clock - w_start + 1
         /\ Count(clock) <= clock - w_start + 1
<1> USE WheelAssumption
<1>1. clock - w_start \in Nat /\ clock - w_start + 1 < IntHalf
  BY DEF SoundUse, WheelType, ClockInv
<1>2. ToInt(clock - w_start) = clock - w_start
  BY <1>1, ToIntId
<1>3. ToInt(clock - w_start + 1) = clock - w_start + 1
  BY <1>1, ToIntId
<1>4. Elapsed(clock) = clock - w_start + 1
  BY <1>2, <1>3 DEF Elapsed, SoundUse
<1> QED
  BY <1>1, <1>4 DEF Count

-----------------------------------------------------------------------------
\* The empty wheel satisfies the invariant.
LEMMA InitInv == Init => IndInv
<1> SUFFICES ASSUME Init PROVE IndInv
  OBVIOUS
<1> USE WheelAssumption
<1>1. WheelType
  <2>1. <<>> \in Seq(Items)
    OBVIOUS
  <2>2. NullLink \in Links
    BY DEF Links
  <2> QED
    BY <2>1, <2>2 DEF Init, WheelType
<1>2. ClockInv
  BY DEF Init, ClockInv
<1>3. SlotInv /\ FiredDue /\ NoDrop
  BY DEF Init, SlotInv, FiredDue, NoDrop, NullLink, RetLink, Slots
<1> QED
  BY <1>1, <1>2, <1>3 DEF IndInv

(***************************************************************************)
(* register_event with a new time_item.                                    *)
(***************************************************************************)
LEMMA ArmInv ==
  ASSUME SoundUse, IndInv, NEW i \in Items, NEW t \in MinTimeout .. MaxTimeout, Arm(i, t)
  PROVE  IndInv'
<1> USE WheelAssumption DEF IndInv
<1> DEFINE e == clock + t
           s == IndexOf(e)
<1>1. e \in Nat /\ e >= w_start /\ e - w_start < WSize /\ e > 0
  BY DEF SoundUse, WheelType, ClockInv
<1>2. Diff(e) = e - w_start
  BY DEF Diff, SoundUse
<1>3. Accepts(e)
  BY <1>1, <1>2 DEF Accepts, WheelType
<1>4. s = (w_index + (e - w_start)) % WSize /\ s \in Slots
  <2>1. s = (w_index + (e - w_start)) % WSize
    BY <1>2 DEF IndexOf
  <2>2. w_index + (e - w_start) \in Int
    BY <1>1 DEF WheelType
  <2> QED
    BY <2>1, <2>2, DivMod DEF Slots
<1>5. /\ expire' = [expire EXCEPT ![i] = e]
      /\ time_wheel' = [time_wheel EXCEPT ![s] = Append(@, i)]
      /\ t_link' = [t_link EXCEPT ![i] = s]
      /\ UNCHANGED <<w_start, w_index, clock>>
  BY <1>3 DEF Arm, AddTimeout
<1> HIDE DEF e, s
<1>6. WheelType'
  <2>1. time_wheel' \in [Slots -> Seq(Items)]
    BY <1>4, <1>5 DEF WheelType
  <2>2. t_link' \in [Items -> Links]
    BY <1>4, <1>5 DEF WheelType, Links
  <2>3. expire' \in [Items -> Nat]
    BY <1>1, <1>5 DEF WheelType
  <2> QED
    BY <2>1, <2>2, <2>3, <1>5 DEF WheelType
<1>7. ClockInv'
  BY <1>5 DEF ClockInv
<1>8. SlotInv'
  BY <1>1, <1>4, <1>5 DEF SlotInv, WheelType
<1>9. FiredDue'
  BY <1>4, <1>5 DEF FiredDue, WheelType, Slots, RetLink
<1>10. NoDrop'
  BY <1>4, <1>5 DEF NoDrop, WheelType, Slots, NullLink
<1> QED
  BY <1>6, <1>7, <1>8, <1>9, <1>10

(***************************************************************************)
(* An epoll event takes its item out of the wheel.                         *)
(***************************************************************************)
LEMMA CancelInv ==
  ASSUME IndInv, NEW i \in Items, Cancel(i)
  PROVE  IndInv'
<1> USE DEF IndInv
<1>1. /\ expire' = [expire EXCEPT ![i] = 0]
      /\ t_link' = [t_link EXCEPT ![i] = NullLink]
      /\ UNCHANGED <<w_start, w_index, clock>>
  BY DEF Cancel, Removeitem, Unlink
<1>2. time_wheel' \in [Slots -> Seq(Items)]
  <2>1. PICK j \in DOMAIN time_wheel[t_link[i]] :
          time_wheel' = [time_wheel EXCEPT ![t_link[i]] = RemoveAt(@, j)]
    BY DEF Cancel, Removeitem, Unlink
  <2>2. t_link[i] \in Slots /\ time_wheel[t_link[i]] \in Seq(Items)
    BY DEF Cancel, Removeitem, Unlink, WheelType
  <2>3. RemoveAt(time_wheel[t_link[i]], j) \in Seq(Items)
    BY <2>2 DEF RemoveAt
  <2> QED
    BY <2>1, <2>2, <2>3 DEF WheelType
<1>3. WheelType'
  BY <1>1, <1>2 DEF WheelType, Links
<1>4. ClockInv'
  BY <1>1 DEF ClockInv
<1>5. SlotInv'
  BY <1>1 DEF SlotInv, WheelType, Slots, NullLink
<1>6. FiredDue'
  BY <1>1 DEF FiredDue, WheelType, RetLink, NullLink
<1>7. NoDrop'
  BY <1>1 DEF NoDrop, WheelType
<1> QED
  BY <1>3, <1>4, <1>5, <1>6, <1>7

(***************************************************************************)
(* take_all_timeout when the clock is not behind w_start: a slot that is   *)
(* taken holds only items that are due, one that is left only later ones.  *)
(***************************************************************************)
LEMMA TakenDue ==
  ASSUME SoundUse, IndInv, clock >= w_start, NEW i \in Items, t_link[i] \in Slots
  PROVE  t_link[i] \in TakenSlots(clock) <=> expire[i] <= clock
<1> USE WheelAssumption
<1> DEFINE d == expire[i] - w_start
<1>1. d \in 0 .. WSize - 1 /\ t_link[i] = (w_index + d) % WSize
  BY DEF IndInv, SlotInv, WheelType
<1>2. /\ Count(clock) \in 1 .. WSize
      /\ Count(clock) < WSize => Count(clock) = clock - w_start + 1
      /\ Count(clock) <= clock - w_start + 1
  BY CountValue DEF IndInv
<1>3. clock \in Nat /\ w_start \in Nat /\ expire[i] \in Nat /\ w_index \in Nat
  BY DEF IndInv, WheelType
<1>4. ASSUME t_link[i] \in TakenSlots(clock) PROVE expire[i] <= clock
  <2>1. PICK k \in 0 .. Count(clock) - 1 : t_link[i] = (w_index + k) % WSize
    BY <1>4 DEF TakenSlots
  <2>2. k \in 0 .. WSize - 1
    BY <1>2
  <2>3. d = k
    BY <1>1, <1>3, <2>1, <2>2, ModInj
  <2> QED
    BY <1>2, <1>3, <2>3
<1>5. ASSUME expire[i] <= clock PROVE t_link[i] \in TakenSlots(clock)
  <2>1. d \in 0 .. Count(clock) - 1
    BY <1>1, <1>2, <1>3, <1>5
  <2> QED
    BY <1>1, <2>1 DEF TakenSlots
<1> QED
  BY <1>4, <1>5

(***************************************************************************)
(* One call of take_all_timeout by the event loop.                         *)
(***************************************************************************)
LEMMA TakeInv ==
  ASSUME SoundUse, IndInv, Take
  PROVE  IndInv'
<1> USE WheelAssumption
<1>1. CASE clock < w_start \/ Count(clock) < 0
  <2>1. UNCHANGED <<wheelVars, clock>>
    <3>1. CASE clock < w_start
      BY <3>1 DEF Take, TakeAllTimeout, IndInv, WheelType
    <3>2. CASE ~(clock < w_start)
      <4>1. clock >= w_start /\ Count(clock) \in 1 .. WSize
        BY <3>2, CountValue DEF IndInv, WheelType
      <4> QED
        BY <1>1, <3>2, <4>1
    <3> QED
      BY <3>1, <3>2
  <2> QED
    BY <2>1 DEF wheelVars, IndInv, WheelType, ClockInv, SlotInv, FiredDue, NoDrop
<1>2. CASE ~(clock < w_start \/ Count(clock) < 0)
  <2>1. clock \in Nat /\ w_start \in Nat /\ w_index \in Nat /\ clock >= w_start
    BY <1>2 DEF IndInv, WheelType
  <2>2. /\ Count(clock) \in 1 .. WSize
        /\ Count(clock) < WSize => Count(clock) = clock - w_start + 1
    BY <2>1, CountValue DEF IndInv
  <2>3. /\ time_wheel' = [s \in Slots |-> IF s \in TakenSlots(clock) THEN <<>> ELSE time_wheel[s]]
        /\ t_link' = [j \in Items |-> IF t_link[j] \in TakenSlots(clock)
                                       THEN RetLink ELSE t_link[j]]
        /\ w_start' = clock
        /\ w_index' = w_index + Count(clock) - 1
        /\ UNCHANGED <<expire, clock>>
    BY <1>2 DEF Take, TakeAllTimeout
  <2>4. WheelType'
    <3>1. time_wheel' \in [Slots -> Seq(Items)]
      BY <2>3 DEF IndInv, WheelType
    <3>2. t_link' \in [Items -> Links]
      BY <2>3 DEF IndInv, WheelType, Links
    <3>3. w_index' \in Nat
      BY <2>1, <2>2, <2>3
    <3> QED
      BY <3>1, <3>2, <3>3, <2>1, <2>3 DEF IndInv, WheelType
  <2>5. ClockInv'
    BY <2>1, <2>3 DEF IndInv, ClockInv, WheelType
  <2>6. ASSUME NEW i \in Items, t_link'[i] \in Slots
        PROVE  /\ t_link'[i] = t_link[i] /\ t_link[i] \in Slots
               /\ expire[i] > clock
    <3>1. t_link'[i] = t_link[i] /\ t_link[i] \notin TakenSlots(clock)
      BY <2>3, <2>6 DEF RetLink, Slots
    <3>2. t_link[i] \in Slots
      BY <2>6, <3>1
    <3>3. ~(expire[i] <= clock)
      BY <2>1, <3>1, <3>2, TakenDue
    <3> QED
      BY <2>1, <3>1, <3>2, <3>3 DEF IndInv, WheelType
  <2>7. SlotInv'
    <3>1. SUFFICES ASSUME NEW i \in Items, t_link'[i] \in Slots
                   PROVE  /\ clock <= expire[i] /\ expire[i] < clock + WSize
                          /\ t_link[i] = ((w_index + Count(clock) - 1) + (expire[i] - clock)) % WSize
      BY <2>3, <2>6 DEF SlotInv
    <3>2. /\ expire[i] > clock /\ expire[i] \in Nat
          /\ expire[i] < w_start + WSize
          /\ t_link[i] = (w_index + (expire[i] - w_start)) % WSize
      BY <2>6, <3>1 DEF IndInv, SlotInv, WheelType
    <3>3. Count(clock) = clock - w_start + 1
      <4>1. clock - w_start + 1 < WSize + 1
        BY <2>1, <3>2
      <4>2. Count(clock) <= clock - w_start + 1
        BY <2>1, CountValue DEF IndInv
      <4>3. Count(clock) < WSize \/ Count(clock) = WSize
        BY <2>2
      <4> QED
        BY <2>1, <2>2, <4>1, <4>2, <4>3
    <3>4. (w_index + Count(clock) - 1) + (expire[i] - clock) = w_index + (expire[i] - w_start)
      BY <2>1, <3>2, <3>3
    <3> QED
      BY <2>1, <3>2, <3>4
  <2>8. FiredDue'
    <3>1. SUFFICES ASSUME NEW i \in Items, t_link'[i] = RetLink
                   PROVE  expire[i] <= clock
      BY <2>3 DEF FiredDue
    <3>2. CASE t_link[i] \in TakenSlots(clock)
      <4>1. t_link[i] \in Slots
        <5>1. PICK k \in 0 .. Count(clock) - 1 : t_link[i] = (w_index + k) % WSize
          BY <3>2 DEF TakenSlots
        <5>2. w_index + k \in Int
          BY <2>1
        <5> QED
          BY <5>1, <5>2, DivMod DEF Slots
      <4> QED
        BY <2>1, <3>2, <4>1, TakenDue
    <3>3. CASE t_link[i] \notin TakenSlots(clock)
      <4>1. t_link[i] = RetLink
        BY <2>3, <3>1, <3>3
      <4>2. expire[i] <= w_start /\ expire[i] \in Nat
        BY <4>1 DEF IndInv, FiredDue, WheelType
      <4> QED
        BY <2>1, <4>2
    <3> QED
      BY <3>2, <3>3
  <2>9. NoDrop'
    BY <2>3 DEF IndInv, NoDrop, RetLink, NullLink
  <2> QED
    BY <2>4, <2>5, <2>7, <2>8, <2>9 DEF IndInv
<1> QED
  BY <1>1, <1>2

(***************************************************************************)
(* Resuming an expired coroutine, and the clock, leave the wheel alone.    *)
(***************************************************************************)
LEMMA ReleaseInv ==
  ASSUME IndInv, Release
  PROVE  IndInv'
<1> DEFINE h == Head(ret_link)
<1>1. /\ expire' = [expire EXCEPT ![h] = 0]
      /\ t_link' = [t_link EXCEPT ![h] = NullLink]
      /\ UNCHANGED <<time_wheel, w_start, w_index, clock>>
  BY DEF Release
<1> HIDE DEF h
<1>2. WheelType'
  BY <1>1 DEF IndInv, WheelType, Links
<1>3. ClockInv'
  BY <1>1 DEF IndInv, ClockInv
<1>4. SlotInv'
  BY <1>1 DEF IndInv, SlotInv, WheelType, Slots, NullLink
<1>5. FiredDue'
  BY <1>1 DEF IndInv, FiredDue, WheelType, RetLink, NullLink
<1>6. NoDrop'
  BY <1>1 DEF IndInv, NoDrop, WheelType
<1> QED
  BY <1>2, <1>3, <1>4, <1>5, <1>6 DEF IndInv

\* The clock moves, forward or back; the wheel is not touched.
LEMMA ClockStepInv ==
  ASSUME IndInv, Tick \/ StepBack
  PROVE  IndInv'
<1> USE WheelAssumption
<1>1. UNCHANGED wheelVars
  BY DEF Tick, StepBack
<1>2. clock' \in Nat /\ ClockInv'
  BY <1>1 DEF Tick, StepBack, IndInv, WheelType, ClockInv, wheelVars
<1> QED
  BY <1>1, <1>2 DEF IndInv, WheelType, SlotInv, FiredDue, NoDrop, wheelVars

\* Every step of the wheel and its client preserves the invariant.
LEMMA NextInv ==
  ASSUME SoundUse, IndInv, [Next]_vars
  PROVE  IndInv'
<1>1. CASE \E i \in Items, t \in MinTimeout .. MaxTimeout : Arm(i, t)
  BY <1>1, ArmInv
<1>2. CASE \E i \in Items : Cancel(i)
  BY <1>2, CancelInv
<1>3. CASE Take
  BY <1>3, TakeInv
<1>4. CASE Release
  BY <1>4, ReleaseInv
<1>5. CASE Tick \/ StepBack
  BY <1>5, ClockStepInv
<1>6. CASE UNCHANGED vars
  BY <1>6 DEF vars, IndInv, WheelType, ClockInv, SlotInv, FiredDue, NoDrop
<1> QED
  BY <1>1, <1>2, <1>3, <1>4, <1>5, <1>6 DEF Next

-----------------------------------------------------------------------------
(***************************************************************************)
(* The lists themselves: each holds exactly the items whose t_link points  *)
(* to it, each of them once; an item that is not in use is in none.        *)
(***************************************************************************)
SlotLists ==
  \A s \in Slots :
    /\ IsInjective(time_wheel[s])
    /\ Range(time_wheel[s]) = {i \in Items : t_link[i] = s}

RetList ==
  /\ ret_link \in Seq(Items)
  /\ IsInjective(ret_link)
  /\ Range(ret_link) = {i \in Items : t_link[i] = RetLink}

Unused == \A i \in Items : expire[i] = 0 => t_link[i] = NullLink

ListInv == SlotLists /\ RetList /\ Unused /\ RetSorted

\* Lists that hold what t_link says are what LinkOK counts.
LEMMA ListsLinkOK == WheelType /\ SlotLists /\ RetList => LinkOK
<1> SUFFICES ASSUME WheelType, SlotLists, RetList, NEW i \in Items
             PROVE  /\ \A s \in Slots :
                         Cardinality({j \in DOMAIN time_wheel[s] : time_wheel[s][j] = i})
                           = IF t_link[i] = s THEN 1 ELSE 0
                    /\ Cardinality({j \in DOMAIN ret_link : ret_link[j] = i})
                         = IF t_link[i] = RetLink THEN 1 ELSE 0
  BY DEF LinkOK
<1>1. ASSUME NEW s \in Slots
      PROVE  Cardinality({j \in DOMAIN time_wheel[s] : time_wheel[s][j] = i})
               = IF t_link[i] = s THEN 1 ELSE 0
  <2>1. time_wheel[s] \in Seq(Items) /\ IsInjective(time_wheel[s])
    BY DEF WheelType, SlotLists
  <2>2. i \in Range(time_wheel[s]) <=> t_link[i] = s
    BY DEF SlotLists
  <2> QED
    BY <2>1, <2>2, CountList
<1>2. i \in Range(ret_link) <=> t_link[i] = RetLink
  BY DEF RetList
<1>3. Cardinality({j \in DOMAIN ret_link : ret_link[j] = i}) = IF t_link[i] = RetLink THEN 1 ELSE 0
  BY <1>2, CountList DEF RetList
<1> QED
  BY <1>1, <1>3

\* The empty lists of a new wheel.
LEMMA InitList == Init => ListInv
<1> SUFFICES ASSUME Init PROVE ListInv
  OBVIOUS
<1>1. SlotLists
  BY DEF Init, SlotLists, Range, IsInjective, Slots, NullLink
<1>2. RetList
  BY DEF Init, RetList, Range, IsInjective, RetLink, NullLink
<1>3. Unused /\ RetSorted
  BY DEF Init, Unused, RetSorted
<1> QED
  BY <1>1, <1>2, <1>3 DEF ListInv

\* add_timeout links an unused item at the end of one slot.
LEMMA ArmList ==
  ASSUME SoundUse, IndInv, ListInv, NEW i \in Items, NEW t \in MinTimeout .. MaxTimeout, Arm(i, t)
  PROVE  ListInv'
<1> USE WheelAssumption
<1> DEFINE e == clock + t
           s == IndexOf(e)
<1>1. e \in Nat /\ e >= w_start /\ e - w_start < WSize /\ e > 0
  BY DEF SoundUse, IndInv, WheelType, ClockInv
<1>2. Accepts(e) /\ s \in Slots
  <2>1. Diff(e) = e - w_start
    BY DEF Diff, SoundUse
  <2>2. Accepts(e)
    BY <1>1, <2>1 DEF Accepts, IndInv, WheelType
  <2>3. w_index + Diff(e) \in Int
    BY <1>1, <2>1 DEF IndInv, WheelType
  <2> QED
    BY <2>2, <2>3, DivMod DEF IndexOf, Slots
<1>3. /\ expire[i] = 0 /\ expire' = [expire EXCEPT ![i] = e]
      /\ time_wheel' = [time_wheel EXCEPT ![s] = Append(@, i)]
      /\ t_link' = [t_link EXCEPT ![i] = s] /\ UNCHANGED ret_link
  BY <1>2 DEF Arm, AddTimeout
<1> HIDE DEF e, s
<1>4. /\ time_wheel \in [Slots -> Seq(Items)] /\ t_link \in [Items -> Links]
      /\ expire \in [Items -> Nat] /\ t_link[i] = NullLink
  BY <1>3 DEF IndInv, WheelType, ListInv, Unused
<1>5. SlotLists'
  <2> SUFFICES ASSUME NEW r \in Slots
               PROVE  IsInjective(time_wheel'[r]) /\ Range(time_wheel'[r]) = {j \in Items : t_link'[j] = r}
    BY DEF SlotLists
  <2>1. IsInjective(time_wheel[r]) /\ Range(time_wheel[r]) = {j \in Items : t_link[j] = r}
    BY DEF ListInv, SlotLists
  <2>2. i \notin Range(time_wheel[r]) /\ time_wheel[r] \in Seq(Items)
    BY <1>4, <2>1 DEF NullLink, Slots
  <2>3. CASE r = s
    <3>1. time_wheel'[r] = Append(time_wheel[r], i)
      BY <1>3, <1>4, <2>3
    <3>2. Range(time_wheel'[r]) = Range(time_wheel[r]) \cup {i} /\ IsInjective(time_wheel'[r])
      BY <2>1, <2>2, <3>1, AppendList
    <3>3. {j \in Items : t_link'[j] = r} = {j \in Items : t_link[j] = r} \cup {i}
      BY <1>3, <1>4, <2>3
    <3> QED
      BY <2>1, <3>2, <3>3
  <2>4. CASE r # s
    <3>1. time_wheel'[r] = time_wheel[r]
      BY <1>3, <1>4, <2>4
    <3>2. {j \in Items : t_link'[j] = r} = {j \in Items : t_link[j] = r}
      BY <1>3, <1>4, <2>4 DEF NullLink, Slots
    <3> QED
      BY <2>1, <3>1, <3>2
  <2> QED
    BY <2>3, <2>4
<1>6. i \notin Range(ret_link)
  BY <1>4 DEF ListInv, RetList, RetLink, NullLink
<1>7. RetList'
  <2>1. {j \in Items : t_link'[j] = RetLink} = {j \in Items : t_link[j] = RetLink}
    BY <1>2, <1>3, <1>4 DEF RetLink, NullLink, Slots
  <2> QED
    BY <1>3, <2>1 DEF ListInv, RetList
<1>8. Unused'
  BY <1>1, <1>3, <1>4 DEF ListInv, Unused
<1>9. RetSorted'
  BY <1>3, <1>4, <1>6 DEF ListInv, RetList, RetSorted, Range
<1> QED
  BY <1>5, <1>7, <1>8, <1>9 DEF ListInv

\* removeitem takes it out of the list in which t_link says it is.
LEMMA CancelList ==
  ASSUME IndInv, ListInv, NEW i \in Items, Cancel(i)
  PROVE  ListInv'
<1> DEFINE s == t_link[i]
<1>1. s \in Slots /\ ret_link = <<>> /\ UNCHANGED ret_link
  BY DEF Cancel, Removeitem, Unlink
<1>2. PICK j \in DOMAIN time_wheel[s] :
        /\ time_wheel[s][j] = i
        /\ time_wheel' = [time_wheel EXCEPT ![s] = RemoveAt(@, j)]
  BY DEF Cancel, Removeitem, Unlink
<1>3. expire' = [expire EXCEPT ![i] = 0] /\ t_link' = [t_link EXCEPT ![i] = NullLink]
  BY DEF Cancel, Removeitem
<1>4. /\ time_wheel \in [Slots -> Seq(Items)] /\ t_link \in [Items -> Links]
      /\ expire \in [Items -> Nat]
  BY DEF IndInv, WheelType
<1>5. SlotLists'
  <2> SUFFICES ASSUME NEW r \in Slots
               PROVE  IsInjective(time_wheel'[r]) /\ Range(time_wheel'[r]) = {k \in Items : t_link'[k] = r}
    BY DEF SlotLists
  <2>1. /\ IsInjective(time_wheel[r]) /\ Range(time_wheel[r]) = {k \in Items : t_link[k] = r}
        /\ time_wheel[r] \in Seq(Items)
    BY <1>4 DEF ListInv, SlotLists
  <2>2. CASE r = s
    <3>1. time_wheel'[r] = RemoveAt(time_wheel[r], j) /\ j \in 1 .. Len(time_wheel[r]) /\ time_wheel[r][j] = i
      BY <1>2, <1>4, <2>1, <2>2
    <3>2. Range(time_wheel'[r]) = Range(time_wheel[r]) \ {i} /\ IsInjective(time_wheel'[r])
      BY <2>1, <3>1, RemoveList
    <3>3. {k \in Items : t_link'[k] = r} = {k \in Items : t_link[k] = r} \ {i}
      BY <1>3, <1>4 DEF NullLink, Slots
    <3> QED
      BY <2>1, <3>2, <3>3
  <2>3. CASE r # s
    <3>1. time_wheel'[r] = time_wheel[r]
      BY <1>2, <1>4, <2>3
    <3>2. {k \in Items : t_link'[k] = r} = {k \in Items : t_link[k] = r}
      BY <1>3, <1>4, <2>3 DEF NullLink, Slots
    <3> QED
      BY <2>1, <3>1, <3>2
  <2> QED
    BY <2>2, <2>3
<1>6. RetList'
  <2>1. {k \in Items : t_link'[k] = RetLink} = {k \in Items : t_link[k] = RetLink}
    BY <1>1, <1>3, <1>4 DEF RetLink, NullLink, Slots
  <2> QED
    BY <1>1, <2>1 DEF ListInv, RetList
<1>7. Unused'
  BY <1>3, <1>4 DEF ListInv, Unused
<1>8. RetSorted'
  BY <1>1 DEF RetSorted
<1> QED
  BY <1>5, <1>6, <1>7, <1>8 DEF ListInv

\* The list that take_all_timeout joins, and the order of its items.
Taken(now) == FlattenSeq([k \in 1 .. Count(now) |-> time_wheel[(w_index + k - 1) % WSize]])

Sooner == {p \in Items \X Items : p[1] # p[2] /\ expire[p[1]] <= expire[p[2]]}

\* Where an item of the wheel is, counted from w_index.
LEMMA SlotDistance ==
  ASSUME IndInv, NEW i \in Items, t_link[i] \in Slots
  PROVE  /\ expire[i] - w_start \in 0 .. WSize - 1
         /\ t_link[i] = (w_index + (expire[i] - w_start)) % WSize
<1>1. expire[i] \in Nat /\ w_start \in Nat /\ WSize \in Nat
  BY WheelAssumption DEF IndInv, WheelType
<1> QED
  BY <1>1 DEF IndInv, SlotInv

(***************************************************************************)
(* What take_all_timeout joins: the items of the slots it takes, each of   *)
(* them once, in the order in which they expire.  The items of one slot    *)
(* expire together, and the next slot one slot time later, because no two  *)
(* of the slots it visits are the same.                                    *)
(***************************************************************************)
LEMMA TakenList ==
  ASSUME SoundUse, IndInv, SlotLists, clock >= w_start
  PROVE  /\ Taken(clock) \in Seq(Items)
         /\ Range(Taken(clock)) = {i \in Items : t_link[i] \in TakenSlots(clock)}
         /\ Ordered(Taken(clock), Sooner)
<1> USE WheelAssumption
<1> DEFINE n == Count(clock)
           slot(k) == (w_index + k) % WSize
<1>1. /\ n \in 0 .. WSize /\ w_index \in Nat /\ w_start \in Nat
      /\ time_wheel \in [0 .. WSize - 1 -> Seq(Items)] /\ expire \in [Items -> Nat]
  BY CountValue DEF IndInv, WheelType, Slots
<1>2. Taken(clock) = FlattenSeq([k \in 1 .. n |-> time_wheel[(w_index + k - 1) % WSize]])
  BY DEF Taken
<1>3. TakenSlots(clock) = {slot(k) : k \in 0 .. n - 1}
  BY DEF TakenSlots
<1> HIDE DEF n
<1>4. ASSUME NEW k \in 0 .. n - 1 PROVE slot(k) \in Slots
  <2>1. w_index + k \in Int
    BY <1>1
  <2> QED
    BY <2>1, DivMod DEF Slots
<1>5. ASSUME NEW s \in 0 .. WSize - 1 PROVE Ordered(time_wheel[s], Sooner)
  <2> SUFFICES ASSUME NEW x \in DOMAIN time_wheel[s], NEW y \in DOMAIN time_wheel[s], x < y
               PROVE  <<time_wheel[s][x], time_wheel[s][y]>> \in Sooner
    BY DEF Ordered
  <2> DEFINE i == time_wheel[s][x]
             j == time_wheel[s][y]
  <2>1. x # y /\ s \in Slots
    BY <1>1 DEF Slots
  <2>2. i # j
    BY <2>1 DEF SlotLists, IsInjective
  <2>3. i \in Range(time_wheel[s]) /\ j \in Range(time_wheel[s])
    BY DEF Range
  <2>4. i \in Items /\ t_link[i] = s /\ j \in Items /\ t_link[j] = s
    BY <2>1, <2>3 DEF SlotLists
  <2> HIDE DEF i, j
  <2>5. expire[i] - w_start \in 0 .. WSize - 1 /\ s = (w_index + (expire[i] - w_start)) % WSize
    BY <2>1, <2>4, SlotDistance
  <2>6. expire[j] - w_start \in 0 .. WSize - 1 /\ s = (w_index + (expire[j] - w_start)) % WSize
    BY <2>1, <2>4, SlotDistance
  <2>7. expire[i] - w_start = expire[j] - w_start
    BY <1>1, <2>5, <2>6, ModInj
  <2>8. expire[i] <= expire[j]
    BY <1>1, <2>4, <2>7
  <2> QED
    BY <2>2, <2>4, <2>8 DEF Sooner, i, j
<1>6. ASSUME NEW k \in 0 .. n - 1, NEW i \in Range(time_wheel[slot(k)])
      PROVE  i \in Items /\ expire[i] = w_start + k
  <2>1. i \in Items /\ t_link[i] = slot(k) /\ t_link[i] \in Slots
    BY <1>4 DEF SlotLists
  <2>2. expire[i] - w_start \in 0 .. WSize - 1 /\ t_link[i] = (w_index + (expire[i] - w_start)) % WSize
    BY <2>1, SlotDistance
  <2>3. k \in 0 .. WSize - 1
    BY <1>1
  <2>4. expire[i] - w_start = k
    BY <1>1, <2>1, <2>2, <2>3, ModInj
  <2>5. expire[i] \in Int /\ w_start \in Int /\ k \in Int
    BY <1>1, <2>1
  <2> QED
    BY <2>1, <2>4, <2>5
<1>7. ASSUME NEW j \in 0 .. n - 1, NEW k \in 0 .. n - 1, j < k,
             NEW x \in Range(time_wheel[slot(j)]), NEW y \in Range(time_wheel[slot(k)])
      PROVE  <<x, y>> \in Sooner
  <2>1. x \in Items /\ y \in Items /\ expire[x] = w_start + j /\ expire[y] = w_start + k
    BY <1>6, <1>7
  <2>2. expire[x] # expire[y] /\ expire[x] <= expire[y]
    BY <1>1, <1>7, <2>1
  <2> QED
    BY <2>1, <2>2 DEF Sooner
<1>8. /\ Taken(clock) \in Seq(Items) /\ Ordered(Taken(clock), Sooner)
      /\ Range(Taken(clock)) = UNION {Range(time_wheel[slot(k)]) : k \in 0 .. n - 1}
  <2>1. \A j, k \in 0 .. n - 1 : j < k =>
          \A x \in Range(time_wheel[slot(j)]), y \in Range(time_wheel[slot(k)]) : <<x, y>> \in Sooner
    BY <1>7
  <2>2. \A s \in 0 .. WSize - 1 : Ordered(time_wheel[s], Sooner)
    BY <1>5
  <2>3. RingOrdered(time_wheel, w_index, n, WSize, Sooner)
    BY <2>1, <2>2 DEF RingOrdered
  <2>4. Taken(clock) = RingJoin(time_wheel, w_index, n, WSize)
    BY <1>2 DEF RingJoin
  <2>5. RingRange(time_wheel, w_index, n, WSize) = UNION {Range(time_wheel[slot(k)]) : k \in 0 .. n - 1}
    BY DEF RingRange
  <2> HIDE DEF Sooner, slot
  <2>6. WSize \in Nat \ {0}
    OBVIOUS
  <2>7. /\ RingJoin(time_wheel, w_index, n, WSize) \in Seq(Items)
        /\ Range(RingJoin(time_wheel, w_index, n, WSize)) = RingRange(time_wheel, w_index, n, WSize)
        /\ Ordered(RingJoin(time_wheel, w_index, n, WSize), Sooner)
    BY <1>1, <2>3, <2>6, RingList
  <2> QED
    BY <2>4, <2>5, <2>7
<1>9. \A k \in 0 .. n - 1 : Range(time_wheel[slot(k)]) = {i \in Items : t_link[i] = slot(k)}
  BY <1>4 DEF SlotLists
<1> HIDE DEF slot
<1> QED
  BY <1>3, <1>8, <1>9

\* take_all_timeout moves the lists it takes to the empty ret_link.
LEMMA TakeList ==
  ASSUME SoundUse, IndInv, ListInv, Take
  PROVE  ListInv'
<1> USE WheelAssumption
<1>1. ret_link = <<>> /\ UNCHANGED expire
  BY DEF Take, TakeAllTimeout, wheelVars
<1>2. clock \in Nat /\ w_start \in Nat
  BY DEF IndInv, WheelType
<1>3. CASE clock < w_start \/ Count(clock) < 0
  <2>1. ~(clock >= w_start /\ Count(clock) >= 0)
    <3>1. clock >= w_start => Count(clock) \in 1 .. WSize
      BY CountValue DEF IndInv
    <3> QED
      BY <1>2, <1>3, <3>1
  <2>2. UNCHANGED wheelVars
    BY <2>1 DEF Take, TakeAllTimeout
  <2> QED
    BY <2>2 DEF wheelVars, ListInv, SlotLists, RetList, Unused, RetSorted
<1>4. CASE ~(clock < w_start \/ Count(clock) < 0)
  <2>1. clock >= w_start
    BY <1>2, <1>4
  <2>2. /\ time_wheel' = [s \in Slots |-> IF s \in TakenSlots(clock) THEN <<>> ELSE time_wheel[s]]
        /\ t_link' = [j \in Items |-> IF t_link[j] \in TakenSlots(clock) THEN RetLink ELSE t_link[j]]
        /\ ret_link' = ret_link \o Taken(clock)
    BY <1>4 DEF Take, TakeAllTimeout, Taken
  <2>3. /\ Taken(clock) \in Seq(Items)
        /\ Range(Taken(clock)) = {i \in Items : t_link[i] \in TakenSlots(clock)}
        /\ Ordered(Taken(clock), Sooner)
    BY <2>1, TakenList DEF ListInv
  <2>4. ret_link' = Taken(clock)
    BY <1>1, <2>2, <2>3
  <2>5. RetLink \notin TakenSlots(clock) /\ NullLink \notin TakenSlots(clock)
    <3>1. ASSUME NEW k \in 0 .. Count(clock) - 1 PROVE (w_index + k) % WSize \in Slots
      <4>1. w_index + k \in Int
        BY DEF IndInv, WheelType
      <4> QED
        BY <4>1, DivMod DEF Slots
    <3>2. TakenSlots(clock) \subseteq Slots
      BY <3>1 DEF TakenSlots
    <3> QED
      BY <3>2 DEF RetLink, NullLink, Slots
  <2>6. SlotLists'
    <3> SUFFICES ASSUME NEW s \in Slots
                 PROVE  IsInjective(time_wheel'[s]) /\ Range(time_wheel'[s]) = {i \in Items : t_link'[i] = s}
      BY DEF SlotLists
    <3>1. s # RetLink
      BY DEF RetLink, Slots
    <3>2. CASE s \in TakenSlots(clock)
      <4>1. time_wheel'[s] = <<>>
        BY <2>2, <3>2
      <4>2. {i \in Items : t_link'[i] = s} = {}
        BY <2>2, <3>1, <3>2
      <4> QED
        BY <4>1, <4>2 DEF Range, IsInjective
    <3>3. CASE s \notin TakenSlots(clock)
      <4>1. time_wheel'[s] = time_wheel[s]
        BY <2>2, <3>3
      <4>2. {i \in Items : t_link'[i] = s} = {i \in Items : t_link[i] = s}
        BY <2>2, <3>1, <3>3
      <4> QED
        BY <4>1, <4>2 DEF ListInv, SlotLists
    <3> QED
      BY <3>2, <3>3
  <2>7. RetList'
    <3>1. {i \in Items : t_link[i] = RetLink} = {}
      BY <1>1 DEF ListInv, RetList, Range
    <3>2. {i \in Items : t_link'[i] = RetLink} = {i \in Items : t_link[i] \in TakenSlots(clock)}
      BY <2>2, <3>1
    <3>3. IsInjective(ret_link')
      <4>1. DOMAIN ret_link' = 1 .. Len(ret_link') /\ Len(ret_link') \in Nat
        BY <2>3, <2>4
      <4>2. \A j, k \in DOMAIN ret_link' : j < k => ret_link'[j] # ret_link'[k]
        BY <2>3, <2>4 DEF Ordered, Sooner
      <4> QED
        BY <4>1, <4>2 DEF IsInjective
    <3> QED
      BY <2>3, <2>4, <3>2, <3>3 DEF RetList
  <2>8. Unused'
    BY <1>1, <2>2, <2>5 DEF ListInv, Unused
  <2>9. RetSorted'
    BY <1>1, <2>3, <2>4 DEF RetSorted, Ordered, Sooner
  <2> QED
    BY <2>6, <2>7, <2>8, <2>9 DEF ListInv
<1> QED
  BY <1>3, <1>4

\* The event loop pops the first of the expired items.
LEMMA ReleaseList ==
  ASSUME IndInv, ListInv, Release
  PROVE  ListInv'
<1> DEFINE h == Head(ret_link)
<1>1. /\ ret_link # <<>> /\ ret_link' = Tail(ret_link) /\ UNCHANGED time_wheel
      /\ expire' = [expire EXCEPT ![h] = 0] /\ t_link' = [t_link EXCEPT ![h] = NullLink]
  BY DEF Release
<1>2. /\ ret_link \in Seq(Items) /\ IsInjective(ret_link)
      /\ Range(ret_link) = {i \in Items : t_link[i] = RetLink}
  BY DEF ListInv, RetList
<1>3. /\ h \in Items /\ t_link[h] = RetLink /\ h \notin Range(ret_link')
      /\ Range(ret_link) = Range(ret_link') \cup {h}
      /\ ret_link' \in Seq(Items) /\ IsInjective(ret_link')
  BY <1>1, <1>2, PopList
<1>4. \A j \in DOMAIN ret_link' : ret_link'[j] = ret_link[j + 1] /\ j + 1 \in DOMAIN ret_link
  BY <1>1, <1>2
<1> HIDE DEF h
<1>5. t_link \in [Items -> Links] /\ expire \in [Items -> Nat]
  BY DEF IndInv, WheelType
<1>6. SlotLists'
  <2>1. \A s \in Slots : s # RetLink /\ s # NullLink
    BY DEF RetLink, NullLink, Slots
  <2>2. \A s \in Slots : {i \in Items : t_link'[i] = s} = {i \in Items : t_link[i] = s}
    BY <1>1, <1>3, <1>5, <2>1
  <2> QED
    BY <1>1, <2>2 DEF ListInv, SlotLists
<1>7. RetList'
  <2>1. {i \in Items : t_link'[i] = RetLink} = {i \in Items : t_link[i] = RetLink} \ {h}
    BY <1>1, <1>5 DEF NullLink, RetLink
  <2>2. Range(ret_link') = Range(ret_link) \ {h}
    BY <1>3
  <2> QED
    BY <1>2, <1>3, <2>1, <2>2 DEF RetList
<1>8. Unused'
  BY <1>1, <1>3, <1>5 DEF ListInv, Unused
<1>9. RetSorted'
  <2> SUFFICES ASSUME NEW j \in DOMAIN ret_link', NEW k \in DOMAIN ret_link', j < k
               PROVE  expire'[ret_link'[j]] <= expire'[ret_link'[k]]
    BY DEF RetSorted
  <2>1. j \in Nat /\ k \in Nat
    BY <1>3
  <2>2. /\ ret_link'[j] \in Items /\ ret_link'[k] \in Items
        /\ ret_link'[j] # h /\ ret_link'[k] # h
    BY <1>3 DEF Range
  <2>3. expire[ret_link[j + 1]] <= expire[ret_link[k + 1]]
    BY <1>4, <2>1 DEF ListInv, RetSorted
  <2> QED
    BY <1>1, <1>4, <1>5, <2>2, <2>3
<1> QED
  BY <1>6, <1>7, <1>8, <1>9 DEF ListInv

\* Every step of the wheel and its client keeps the lists.
LEMMA NextList ==
  ASSUME SoundUse, IndInv, ListInv, [Next]_vars
  PROVE  ListInv'
<1>1. CASE \E i \in Items, t \in MinTimeout .. MaxTimeout : Arm(i, t)
  BY <1>1, ArmList
<1>2. CASE \E i \in Items : Cancel(i)
  BY <1>2, CancelList
<1>3. CASE Take
  BY <1>3, TakeList
<1>4. CASE Release
  BY <1>4, ReleaseList
<1>5. CASE Tick \/ StepBack \/ UNCHANGED vars
  BY <1>5 DEF Tick, StepBack, vars, wheelVars, ListInv, SlotLists, RetList, Unused, RetSorted
<1> QED
  BY <1>1, <1>2, <1>3, <1>4, <1>5 DEF Next

-----------------------------------------------------------------------------
(***************************************************************************)
(* Under SoundUse, whatever the order of timers, events, takes and clock   *)
(* steps, add_timeout refuses no timer, every item of the wheel is in the  *)
(* slot of its expiry time, and take_all_timeout hands out none early.     *)
(***************************************************************************)
THEOREM WheelSafety ==
  ASSUME SoundUse
  PROVE  Spec => [](SlotInv /\ FiredDue /\ NoDrop)
<1>1. Init => IndInv
  BY InitInv
<1>2. IndInv /\ [Next]_vars => IndInv'
  BY NextInv
<1>3. IndInv => SlotInv /\ FiredDue /\ NoDrop
  BY DEF IndInv
<1> QED
  BY <1>1, <1>2, <1>3, PTL DEF Spec

(***************************************************************************)
(* Under SoundUse, take_all_timeout leaves nothing in the wheel that is    *)
(* due at the time of the call.                                            *)
(***************************************************************************)
THEOREM WheelTakesAllDue ==
  ASSUME SoundUse
  PROVE  Spec => TakesAllDue
<1>1. Init => IndInv
  BY InitInv
<1>2. IndInv /\ [Next]_vars => IndInv'
  BY NextInv
<1>3. IndInv /\ [Next]_vars =>
        [Take => \A i \in Items : t_link'[i] \in Slots => expire[i] + Resolution > clock]_vars
  <2> SUFFICES ASSUME IndInv, IndInv', Take, NEW i \in Items, t_link'[i] \in Slots
               PROVE  expire[i] + Resolution > clock
    BY <1>2
  <2>1. /\ clock' = clock /\ expire'[i] = expire[i] /\ expire[i] \in Nat
        /\ clock \in Nat /\ w_start \in Nat /\ Resolution = 0
    BY DEF Take, TakeAllTimeout, wheelVars, IndInv, WheelType, Resolution, SoundUse
  <2>2. CASE clock < w_start \/ Count(clock) < 0
    <3>1. clock < w_start
      <4>1. clock >= w_start => Count(clock) \in 1 .. WSize
        BY CountValue DEF IndInv
      <4> QED
        BY <2>1, <2>2, <4>1, WheelAssumption
    <3>2. t_link' = t_link
      BY <2>1, <3>1 DEF Take, TakeAllTimeout, wheelVars
    <3>3. w_start <= expire[i]
      BY <3>2 DEF IndInv, SlotInv
    <3> QED
      BY <2>1, <3>1, <3>3
  <2>3. CASE ~(clock < w_start \/ Count(clock) < 0)
    <3>1. /\ clock >= w_start
          /\ t_link'[i] = IF t_link[i] \in TakenSlots(clock) THEN RetLink ELSE t_link[i]
      BY <2>1, <2>3 DEF Take, TakeAllTimeout
    <3>2. t_link[i] \notin TakenSlots(clock) /\ t_link[i] \in Slots
      BY <3>1 DEF RetLink, Slots
    <3>3. ~(expire[i] <= clock)
      BY <3>1, <3>2, TakenDue
    <3> QED
      BY <2>1, <3>3
  <2> QED
    BY <2>2, <2>3
<1> QED
  BY <1>1, <1>2, <1>3, PTL DEF Spec, TakesAllDue

(***************************************************************************)
(* Under SoundUse, register_event may ignore the result of add_timeout: no *)
(* timer is refused.                                                       *)
(***************************************************************************)
THEOREM WheelDropsNone ==
  ASSUME SoundUse
  PROVE  Spec => []NoDrop
<1>1. Spec => [](SlotInv /\ FiredDue /\ NoDrop)
  BY WheelSafety
<1> QED
  BY <1>1, PTL

(***************************************************************************)
(* Under SoundUse, the back pointers tell which list an item is in, once,  *)
(* the slots agree with the expiry times, and take_all_timeout hands out   *)
(* what has expired in its order, however many slots it has to join.       *)
(***************************************************************************)
THEOREM WheelIsConsistent ==
  ASSUME SoundUse
  PROVE  Spec => []WheelConsistent
<1>1. Init => IndInv /\ ListInv
  BY InitInv, InitList
<1>2. (IndInv /\ ListInv) /\ [Next]_vars => (IndInv /\ ListInv)'
  BY NextInv, NextList
<1>3. IndInv /\ ListInv => WheelConsistent
  <2>1. IndInv /\ ListInv => TypeOK
    BY DEF IndInv, WheelType, ListInv, RetList, TypeOK
  <2>2. IndInv /\ ListInv => LinkOK
    BY ListsLinkOK DEF IndInv, ListInv
  <2> QED
    BY <2>1, <2>2 DEF IndInv, ListInv, WheelConsistent
<1> QED
  BY <1>1, <1>2, <1>3, PTL DEF Spec

=============================================================================
