----------------------------- MODULE JsonDigits -----------------------------
(***************************************************************************)
(* Numbers of the JSON library in a value (document.h) and as digits       *)
(* (internal/itoa.h).                                                      *)
(*                                                                         *)
(* In a value the integers have scaled widths.  The digits are those of    *)
(* the real widths: a uint64_t is <<a, v0, v1>>, the number                *)
(* a * 10^16 + v0 * 10^8 + v1 with v0 and v1 below 10^8.                    *)
(***************************************************************************)
EXTENDS Integers, FiniteSetsExt, SequencesExt

CONSTANTS
  Bits, WideBits,           \* width of int (32) and of int64_t (64)
  FloatBits, MantissaBits   \* width of the integers that all are floats (24) and doubles (53)

Minus == 45

Types == {"Int", "Uint", "Int64", "Uint64"}

Span(type) == CASE type = "Int"    -> -2 ^ (Bits - 1)..2 ^ (Bits - 1) - 1
                 [] type = "Uint"   -> 0..2 ^ Bits - 1
                 [] type = "Int64"  -> -2 ^ (WideBits - 1)..2 ^ (WideBits - 1) - 1
                 [] type = "Uint64" -> 0..2 ^ WideBits - 1

-----------------------------------------------------------------------------
(* A number in a value: 64 bits in a union, and flags                      *)

\* Slip: the sign of an int is not extended.
Word_Half(v) == IF v < 0 /\ v >= -2 ^ (Bits - 1) THEN v % 2 ^ Bits ELSE v % 2 ^ WideBits

Word(v)    == v % 2 ^ WideBits
Low(word)  == word % 2 ^ Bits
Signed(word, bits) == IF word >= 2 ^ (bits - 1) THEN word - 2 ^ bits ELSE word

\* Slip: the sign of the low half is not looked at.
Narrow_Unsigned(word) == IF word < 2 ^ Bits THEN {"Int", "Uint"} ELSE {}

\* The types of half the width that hold the word, which is not negative.
Narrow(word) == (IF word < 2 ^ Bits THEN {"Uint"} ELSE {}) \cup (IF word < 2 ^ (Bits - 1) THEN {"Int"} ELSE {})

FromInt(i)    == [word |-> Word(i),
                  flags |-> {"Int", "Int64"} \cup IF i >= 0 THEN {"Uint", "Uint64"} ELSE {}]
FromUint(u)   == [word |-> u,
                  flags |-> {"Uint", "Uint64", "Int64"} \cup IF u >= 2 ^ (Bits - 1) THEN {} ELSE {"Int"}]
FromInt64(i)  == [word |-> Word(i),
                  flags |-> {"Int64"} \cup IF i >= 0 THEN {"Uint64"} \cup Narrow(i)
                                           ELSE IF i >= -2 ^ (Bits - 1) THEN {"Int"} ELSE {}]
FromUint64(u) == [word |-> u,
                  flags |-> {"Uint64"} \cup Narrow(u) \cup IF u < 2 ^ (WideBits - 1) THEN {"Int64"} ELSE {}]

From(type, v) == CASE type = "Int" -> FromInt(v) [] type = "Uint" -> FromUint(v)
                   [] type = "Int64" -> FromInt64(v) [] type = "Uint64" -> FromUint64(v)

Get(number, type) ==
  CASE type = "Int" -> Signed(Low(number.word), Bits) [] type = "Uint" -> Low(number.word)
    [] type = "Int64" -> Signed(number.word, WideBits) [] type = "Uint64" -> number.word

\* The first of the types the flags have: what Accept passes on and GetDouble converts.
Preferred(number) ==
  LET order == <<"Int", "Uint", "Int64", "Uint64">>
  IN  order[Min({k \in 1..4 : order[k] \in number.flags})]

Passed(number) == Get(number, Preferred(number))

\* To the nearest number with that many bits, to the even one of two.
Rounded(v, bits) ==
  LET m    == IF v < 0 THEN -v ELSE v
      unit == 2 ^ Min({k \in 0..WideBits : m < 2 ^ (bits + k)})
      down == m \div unit
      up   == IF 2 * (m % unit) > unit \/ (2 * (m % unit) = unit /\ down % 2 = 1) THEN 1 ELSE 0
  IN  (IF v < 0 THEN -1 ELSE 1) * (down + up) * unit

GetDouble(number) == Rounded(Passed(number), MantissaBits)

\* Slip: the largest number is not set apart, and a double beyond it is converted back.
IsLosslessDouble_Saturates(number) ==
  LET type == IF "Uint64" \in number.flags THEN "Uint64" ELSE "Int64"
      v    == Get(number, type)
      d    == Rounded(v, MantissaBits)
  IN  v = IF d \in Span(type) THEN d ELSE Max(Span(type))

IsLosslessDouble(number) ==
  LET type == IF "Uint64" \in number.flags THEN "Uint64" ELSE "Int64"
      v    == Get(number, type)
      d    == Rounded(v, MantissaBits)
  IN  d >= Min(Span(type)) /\ d < Rounded(Max(Span(type)), MantissaBits) /\ v = d

IsLosslessFloat(number) == LET a == GetDouble(number) IN Rounded(a, FloatBits) = a

\* Numbers that are no doubles are compared by their words.
EqualNumbers(a, b) == a.word = b.word

-----------------------------------------------------------------------------
(* Digits                                                                  *)

Pair(n)  == <<n \div 10, n % 10>>
Four(n)  == Pair(n \div 100) \o Pair(n % 100)
Eight(n) == Four(n \div 10000) \o Four(n % 10000)

\* Slip: the digit at a power of ten is only written above it.
PutFrom_Above(digits, value) ==
  LET n == Len(digits)
  IN  SubSeq(digits, Min({k \in 1..n : k = n \/ value > 10 ^ (n - k)}), n)

\* Each digit is written if the value is at least its power of ten, the last one always.
PutFrom(digits, value) ==
  LET n == Len(digits)
  IN  SubSeq(digits, Min({k \in 1..n : k = n \/ value >= 10 ^ (n - k)}), n)

Short(v) == IF v < 10000 THEN PutFrom(Four(v), v) ELSE PutFrom(Eight(v), v)

u32toa(u) ==
  IF u[2] = 0 THEN Short(u[3])
  ELSE (IF u[2] >= 10 THEN Pair(u[2]) ELSE <<u[2]>>) \o Eight(u[3])

\* The digits above 10^16.
Topmost(a) == CASE a < 10 -> <<a>>
             [] a \in 10..99 -> Pair(a)
             [] a \in 100..999 -> <<a \div 100>> \o Pair(a % 100)
             [] a > 999 -> Pair(a \div 100) \o Pair(a % 100)

u64toa(u) ==
  IF u[1] = 0 /\ u[2] = 0 THEN Short(u[3])
  ELSE (IF u[1] = 0 THEN PutFrom(Eight(u[2]), u[2]) ELSE Topmost(u[1]) \o Eight(u[2])) \o Eight(u[3])

\* i32toa, i64toa: the characters of a sign and of the magnitude ~u + 1.
Signature(minus, digits) == (IF minus THEN <<Minus>> ELSE <<>>) \o digits

\* Characters the writer has room for in its buffer.
Room(type) == CASE type = "Int" -> 11 [] type = "Uint" -> 10 [] type = "Int64" -> 21 [] type = "Uint64" -> 20

Written(type, minus, u) ==
  Signature(minus, IF type \in {"Int", "Uint"} THEN u32toa(u) ELSE u64toa(u))

-----------------------------------------------------------------------------
(* Properties                                                              *)

\* The largest magnitudes, as digits.
Largest(type, minus) ==
  CASE type = "Int"    -> IF minus THEN <<2, 1, 4, 7, 4, 8, 3, 6, 4, 8>> ELSE <<2, 1, 4, 7, 4, 8, 3, 6, 4, 7>>
    [] type = "Uint"   -> <<4, 2, 9, 4, 9, 6, 7, 2, 9, 5>>
    [] type = "Int64"  -> <<9, 2, 2, 3, 3, 7, 2, 0, 3, 6, 8, 5, 4, 7, 7, 5, 8, 0>> \o <<IF minus THEN 8 ELSE 7>>
    [] type = "Uint64" -> <<1, 8, 4, 4, 6, 7, 4, 4, 0, 7, 3, 7, 0, 9, 5, 5, 1, 6, 1, 5>>

AtMost(ds, es) ==
  \/ Len(ds) < Len(es)
  \/ Len(ds) = Len(es) /\ (ds = es \/ \E k \in 1..Len(ds) : ds[k] < es[k] /\ \A j \in 1..k - 1 : ds[j] = es[j])

\* The limbs of a number of at most 24 digits.
Limbs(digits) ==
  LET padded == [k \in 1..24 - Len(digits) |-> 0] \o digits
      limb(from) == FoldLeft(LAMBDA a, d : 10 * a + d, 0, SubSeq(padded, from, from + 7))
  IN  <<limb(1), limb(9), limb(17)>>

\* An integer of any of the four types is written with its digits, no more and no fewer, and within
\* the buffer of its type, up to the largest and the smallest ones (itoa.h; writer.h, WriteInt64).
DigitsWritten(digits) ==
  \A type \in Types : \A minus \in IF type \in {"Int", "Int64"} THEN BOOLEAN ELSE {FALSE} :
    AtMost(digits, Largest(type, minus)) =>
      LET written == Written(type, minus, Limbs(digits))
      IN  written = Signature(minus, digits) /\ Len(written) <= Room(type)

\* Whatever type a number is set with, the value answers to exactly the types that hold the number,
\* gives it back as each of them and passes it on unchanged (document.h, constructors and getters).
NumbersKeepValue(v) ==
  \A type \in {t \in Types : v \in Span(t)} :
    LET number == From(type, v)
    IN  /\ number.flags = {t \in Types : v \in Span(t)}
        /\ \A t \in number.flags : Get(number, t) = v
        /\ Passed(number) = v

\* A number is said to be lossless as a double, or as a float, when rounding it leaves it as it is:
\* rounding up past the largest integer included (document.h, IsLosslessDouble, IsLosslessFloat).
LosslessIsExact(v) ==
  \A type \in {t \in Types : v \in Span(t)} :
    LET number == From(type, v)
    IN  /\ IsLosslessDouble(number) <=> Rounded(v, MantissaBits) = v
        /\ IsLosslessDouble(number) => (IsLosslessFloat(number) <=> Rounded(v, FloatBits) = v)

\* Two integers are equal when they are the same number, whatever types they were set with, or a
\* negative one and the one with the same 64 bits (document.h, operator==).
EqualityIsOfNumbers(v, w) ==
  \A s \in {t \in Types : v \in Span(t)}, u \in {t \in Types : w \in Span(t)} :
    EqualNumbers(From(s, v), From(u, w)) <=> v - w \in {0, 2 ^ WideBits, -2 ^ WideBits}
=============================================================================
