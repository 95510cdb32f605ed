------------------------------ MODULE TimeWheel ------------------------------
(***************************************************************************)
(* The timing wheel of the scheduler (time_wheel.h, time_wheel.cpp).       *)
(*                                                                         *)
(* The wheel is an array of WSize lists of time_items.  w_start is the     *)
(* time of the last take_all_timeout and w_index the slot that belongs to  *)
(* it, so that the slot of an item that expires at e is                    *)
(*     (w_index + (e - w_start)) % WSize.                                  *)
(* An intrusive doubly linked list (time_link) is modelled by the sequence *)
(* of its items; the back pointer time_item::t_link is kept, because both  *)
(* removeitem and the event loop branch on it.                             *)
(*                                                                         *)
(* The actions of the wheel itself are AddTimeout, TakeAllTimeout and      *)
(* Removeitem; Arm, Cancel and Release are what the event loop does with   *)
(* them, and Tick and StepBack are the wall clock behind GetNowTimeMs      *)
(* (gettimeofday, which may be set back).                                  *)
(***************************************************************************)
EXTENDS Integers, SequencesExt

CONSTANTS
  Items,        \* the time_item objects
  WSize,        \* w_size_: number of slots (60*1000 in scheduler::scheduler)
  IsMs,         \* isms_: TRUE when a slot is a millisecond, FALSE when a second
  TickMs,       \* milliseconds in a slot of the second wheel (1000)
  IntHalf,      \* an int holds -IntHalf .. IntHalf-1 (2^31 in the build)
  MinTimeout,   \* smallest timeout a client asks for
  MaxTimeout,   \* largest timeout a client asks for
  MaxLag,       \* the clock is never further than this ahead of w_start
  MaxBack,      \* the clock is never set back further than this behind w_start
  Epoch,        \* the time at which the wheel is constructed
  MaxTime       \* bound on the clock

ASSUME WheelAssumption ==
  /\ WSize \in Nat \ {0} /\ TickMs \in Nat \ {0} /\ IntHalf \in Nat \ {0}
  /\ IsMs \in BOOLEAN
  /\ MinTimeout \in Nat /\ MaxTimeout \in Nat
  /\ MaxLag \in Nat /\ MaxBack \in Nat
  /\ Epoch \in Nat /\ Epoch > MaxBack /\ MaxTime \in Nat

VARIABLES
  time_wheel,   \* [Slots -> Seq(Items)]: time_wheel_
  w_start,      \* w_start_
  w_index,      \* w_index_
  expire,       \* [Items -> Nat]: time_item::ExpireTime; 0 when the item is not in use
  t_link,       \* [Items -> Links]: time_item::t_link
  ret_link,     \* the list take_all_timeout fills (co_epoll::timeout_link_)
  clock         \* what GetNowTimeMs() returns

wheelVars == <<time_wheel, w_start, w_index, expire, t_link, ret_link>>
vars == <<time_wheel, w_start, w_index, expire, t_link, ret_link, clock>>

Slots == 0 .. WSize - 1

(***************************************************************************)
(* The values of time_item::t_link: a slot, or one of these.               *)
(***************************************************************************)
NullLink   == -1
RetLink    == -2
ActiveLink == -3
Links == Slots \cup {NullLink, RetLink, ActiveLink}

-----------------------------------------------------------------------------
(***************************************************************************)
(* C++ arithmetic: conversion to int, and int division, which truncates.   *)
(***************************************************************************)
ToInt(x) == ((x + IntHalf) % (2 * IntHalf)) - IntHalf

TruncDiv(a, b) == IF a >= 0 THEN a \div b ELSE -((-a) \div b)

Init ==
  /\ time_wheel = [s \in Slots |-> <<>>]
  /\ clock = Epoch
  /\ w_start = Epoch
  /\ w_index = 0
  /\ expire = [i \in Items |-> 0]
  /\ t_link = [i \in Items |-> NullLink]
  /\ ret_link = <<>>

(***************************************************************************)
(* The slot distance of expiry time e.  The subtraction is unsigned: an e  *)
(* before w_start wraps to a number beyond any WSize and is refused by the *)
(* same test, so the test diff < 0 that follows it never succeeds.         *)
(***************************************************************************)
Diff(e) == IF IsMs THEN e - w_start ELSE (e - w_start) \div TickMs

\* Mutant: a timer that is due at w_start itself is refused.
AcceptsLater(e) == e > w_start /\ Diff(e) <= WSize

Accepts(e) == e >= w_start /\ Diff(e) <= WSize

\* Mutant: the slot is counted from slot 0 and not from w_index.
IndexFromZero(e) == Diff(e) % WSize

IndexOf(e) == (w_index + Diff(e)) % WSize

(***************************************************************************)
(* add_timeout: link the item into its slot, or return -1 and leave it     *)
(* unlinked.  register_event ignores the result.                           *)
(***************************************************************************)
AddTimeout(i, e) ==
  /\ expire' = [expire EXCEPT ![i] = e]
  /\ \/ /\ Accepts(e)
        /\ time_wheel' = [time_wheel EXCEPT ![IndexOf(e)] = Append(@, i)]
        /\ t_link' = [t_link EXCEPT ![i] = IndexOf(e)]
     \/ /\ ~Accepts(e)
        /\ UNCHANGED <<time_wheel, t_link>>
  /\ UNCHANGED <<w_start, w_index, ret_link>>

\* Mutant: the slot of now itself is not counted.
ElapsedNotNow(now) == ToInt(now - w_start)

\* Mutant: one slot too many is taken.
ElapsedOneMore(now) == ToInt(now - w_start) + 2

(***************************************************************************)
(* take_all_timeout(now): the slots from w_index on, one per slot time     *)
(* from w_start to now and at most all of them, are moved to ret_link.     *)
(***************************************************************************)
Elapsed(now) == IF IsMs THEN ToInt(ToInt(now - w_start) + 1)
                        ELSE TruncDiv(ToInt(now - w_start), TickMs) + 1

Count(now) == IF Elapsed(now) > WSize THEN WSize ELSE Elapsed(now)

TakenSlots(now) == {(w_index + k) % WSize : k \in 0 .. Count(now) - 1}

TakeAllTimeout(now) ==
  \/ /\ now >= w_start /\ Count(now) >= 0
     /\ ret_link' = ret_link \o
          FlattenSeq([k \in 1 .. Count(now) |-> time_wheel[(w_index + k - 1) % WSize]])
     /\ time_wheel' = [s \in Slots |-> IF s \in TakenSlots(now) THEN <<>> ELSE time_wheel[s]]
     /\ t_link' = [i \in Items |-> IF t_link[i] \in TakenSlots(now) THEN RetLink ELSE t_link[i]]
     /\ w_start' = now
     /\ w_index' = w_index + Count(now) - 1
     /\ UNCHANGED expire
  \/ /\ now < w_start \/ Count(now) < 0
     /\ UNCHANGED wheelVars

(***************************************************************************)
(* removeitem: unlink the item from the list t_link points to.  The event  *)
(* loop calls it for items that are in a slot.                             *)
(***************************************************************************)
Unlink(i) ==
  /\ t_link[i] \in Slots
  /\ \E j \in DOMAIN time_wheel[t_link[i]] :
       /\ time_wheel[t_link[i]][j] = i
       /\ time_wheel' = [time_wheel EXCEPT ![t_link[i]] = RemoveAt(@, j)]
  /\ UNCHANGED <<w_start, w_index, ret_link>>

Removeitem(i) ==
  /\ Unlink(i)
  /\ t_link' = [t_link EXCEPT ![i] = NullLink]

-----------------------------------------------------------------------------
(***************************************************************************)
(* The client: scheduler::register_event arms a timer with now + timeout,  *)
(* an epoll event cancels it, the event loop pops what has expired, all of *)
(* it before it polls and takes again.  Every item is deleted after use.   *)
(* The bound on the clock leaves every timer the time to expire.           *)
(***************************************************************************)
Arm(i, t) ==
  /\ expire[i] = 0
  /\ clock + t <= MaxTime
  /\ AddTimeout(i, clock + t)
  /\ UNCHANGED clock

Cancel(i) ==
  /\ ret_link = <<>>
  /\ Removeitem(i)
  /\ expire' = [expire EXCEPT ![i] = 0]
  /\ UNCHANGED clock

Take ==
  /\ ret_link = <<>>
  /\ TakeAllTimeout(clock)
  /\ UNCHANGED clock

Release ==
  /\ ret_link # <<>>
  /\ ret_link' = Tail(ret_link)
  /\ expire' = [expire EXCEPT ![Head(ret_link)] = 0]
  /\ t_link' = [t_link EXCEPT ![Head(ret_link)] = NullLink]
  /\ UNCHANGED <<time_wheel, w_start, w_index, clock>>

Tick ==
  /\ clock < MaxTime
  /\ clock + 1 - w_start <= MaxLag
  /\ clock' = clock + 1
  /\ UNCHANGED wheelVars

StepBack ==
  /\ MaxBack > 0
  /\ clock - 1 >= w_start - MaxBack
  /\ clock' = clock - 1
  /\ UNCHANGED wheelVars

Next ==
  \/ \E i \in Items, t \in MinTimeout .. MaxTimeout : Arm(i, t)
  \/ \E i \in Items : Cancel(i)
  \/ Take
  \/ Release
  \/ Tick
  \/ StepBack

Spec == Init /\ [][Next]_vars

-----------------------------------------------------------------------------
TypeOK ==
  /\ time_wheel \in [Slots -> Seq(Items)]
  /\ w_start \in Nat /\ w_index \in Nat /\ clock \in Nat
  /\ expire \in [Items -> Nat]
  /\ t_link \in [Items -> Links]
  /\ ret_link \in Seq(Items)

(***************************************************************************)
(* The use of the wheel under which its promises hold: the millisecond     *)
(* wheel, timeouts that even with the time since the last take stay below  *)
(* one turn of the wheel, a clock that is never set back by more than the  *)
(* smallest timeout, and a pause between two takes that fits an int.       *)
(***************************************************************************)
SoundUse ==
  /\ IsMs
  /\ MaxTimeout + MaxLag < WSize
  /\ MaxBack <= MinTimeout
  /\ MaxLag + 1 < IntHalf

(***************************************************************************)
(* The back pointers of the intrusive lists tell the truth: an item whose  *)
(* t_link is a slot is in the list of that slot, exactly once, and in no   *)
(* other list; the same holds of the list that take_all_timeout fills.     *)
(* removeitem unlinks an item from the list it finds in t_link without     *)
(* looking, so a stale t_link would corrupt two lists at once.             *)
(***************************************************************************)
LinkOK ==
  \A i \in Items :
    /\ \A s \in Slots :
         Cardinality({j \in DOMAIN time_wheel[s] : time_wheel[s][j] = i})
           = IF t_link[i] = s THEN 1 ELSE 0
    /\ Cardinality({j \in DOMAIN ret_link : ret_link[j] = i})
         = IF t_link[i] = RetLink THEN 1 ELSE 0

(***************************************************************************)
(* An item in the wheel expires in the turn of the wheel that starts at    *)
(* w_start, and sits in the slot that take_all_timeout will find it in:    *)
(* w_index and w_start move together, whatever the clock did in between.   *)
(***************************************************************************)
SlotInv ==
  \A i \in Items : t_link[i] \in Slots =>
    /\ w_start <= expire[i] /\ expire[i] < w_start + WSize
    /\ t_link[i] = (w_index + (expire[i] - w_start)) % WSize

(***************************************************************************)
(* No timer fires early: what take_all_timeout hands out has expired at    *)
(* the time of that call.                                                  *)
(***************************************************************************)
FiredDue == \A i \in Items : t_link[i] = RetLink => expire[i] <= w_start

(***************************************************************************)
(* No timer is refused: register_event ignores the -1 of add_timeout, and  *)
(* a coroutine whose timer is in no list never times out.                  *)
(***************************************************************************)
NoDrop == \A i \in Items : expire[i] > 0 => t_link[i] # NullLink

(***************************************************************************)
(* take_all_timeout takes everything that is due: an item it leaves in the *)
(* wheel expires after the time of the call, give or take one slot of the  *)
(* second wheel.                                                           *)
(***************************************************************************)
Resolution == IF IsMs THEN 0 ELSE TickMs

TakesAllDue ==
  [][Take => \A i \in Items : t_link'[i] \in Slots => expire[i] + Resolution > clock]_vars

(***************************************************************************)
(* take_all_timeout hands the items out in the order in which they expire. *)
(***************************************************************************)
RetSorted ==
  \A j, k \in DOMAIN ret_link : j < k => expire[ret_link[j]] <= expire[ret_link[k]]

(***************************************************************************)
(* The wheel is consistent: the back pointers tell which list an item is   *)
(* in, the slots agree with the expiry times, and expired items are in     *)
(* their order, whatever add_timeout, take_all_timeout and removeitem do.  *)
(***************************************************************************)
WheelConsistent == TypeOK /\ LinkOK /\ SlotInv /\ RetSorted

=============================================================================
