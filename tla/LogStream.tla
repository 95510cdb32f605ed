------------------------------ MODULE LogStream ------------------------------
(***************************************************************************)
(* Log_Buffer and LogStream (LogStream.cpp).  Of what is in a Log_Buffer   *)
(* its length is kept, cur_ - data_, the lines the log has put into it,    *)
(* and top, the end of the part of data_ written since the last reset,     *)
(* terminating zeroes included.  Numbers are converted digit by digit.     *)
(***************************************************************************)
EXTENDS Integers, SequencesExt

CONSTANTS
  KSMALLBUFFER,     \* size of data_ (4000)
  kMaxNumericSize,  \* room that a number must find (32)
  IntHalf           \* integers are -IntHalf .. IntHalf - 1

Ints == -IntHalf .. IntHalf - 1

EmptyBuffer == [len |-> 0, top |-> 0, lines |-> <<>>]

avail(b) == KSMALLBUFFER - b.len

\* Mutant: >= for >.
RoomForAll(b, n) == avail(b) >= n

RoomFor(b, n) == avail(b) > n

\* n characters more, which are the lines ls, and up to there + z written.
Grow(b, n, z, ls) == [len |-> b.len + n, top |-> Max({b.top, b.len + n + z}), lines |-> b.lines \o ls]

\* Log_Buffer::append of n characters, which are the lines ls: all of them or nothing.
Append_(b, n, ls) == IF RoomFor(b, n) THEN Grow(b, n, 0, ls) ELSE b

\* / and % of C++: towards zero.
Quot(i, base) == IF i < 0 THEN -((-i) \div base) ELSE i \div base
Rem(i, base) == IF i < 0 THEN -((-i) % base) ELSE i % base

\* Mutant: while (i > 0).
MoreDigitsPositive(i) == i > 0

MoreDigits(i) == i # 0

\* The digits of i, last one first: zero[lsd] is the digit of lsd, also if that is negative.
Digits(value, base) ==
  LET lsd(i) == IF Rem(i, base) < 0 THEN -Rem(i, base) ELSE Rem(i, base)
      rest[i \in Ints] == IF MoreDigits(Quot(i, base)) THEN <<lsd(i)>> \o rest[Quot(i, base)]
                          ELSE <<lsd(i)>>
  IN rest[value]

\* convert: the sign and the digits.
convert(value) == [neg |-> value < 0, digits |-> Reverse(Digits(value, 10))]

TextLen(t) == Len(t.digits) + (IF t.neg THEN 1 ELSE 0)

(***************************************************************************)
(* A number of n characters and a zero behind them.  A pointer counts two  *)
(* more than its digits, which have overwritten the 0x in front of them.   *)
(***************************************************************************)
HasRoom(b) == avail(b) >= kMaxNumericSize

formatInteger(b, value) == IF HasRoom(b) THEN Grow(b, TextLen(convert(value)), 1, <<>>) ELSE b

formatPointer(b, value) == IF HasRoom(b) THEN Grow(b, Len(Digits(value, 16)) + 2, 0, <<>>) ELSE b

formatDouble(b, n) == IF HasRoom(b) THEN Grow(b, n, 1, <<>>) ELSE b

=============================================================================
