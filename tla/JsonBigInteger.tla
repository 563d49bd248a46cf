--------------------------- MODULE JsonBigInteger ---------------------------
(***************************************************************************)
(* The big integers of the JSON library (internal/biginteger.h), with      *)
(* which the rounding of a double is decided when nothing less will do.    *)
(*                                                                         *)
(* A big integer is the sequence of its limbs, the lowest first; the width *)
(* of a limb and the constants that depend on it are scaled.               *)
(***************************************************************************)
EXTENDS Integers, FiniteSetsExt, SequencesExt

CONSTANTS
  HalfBits,          \* width of half a limb (32)
  LimbDigits,        \* decimal digits that fit a limb (19)
  WidePow5, HalfPow5 \* the largest powers of five in a limb (27) and in half a limb (13)

LimbBits == 2 * HalfBits
Base     == 2 ^ LimbBits
HalfBase == 2 ^ HalfBits

Zero == <<0>>
IsZero(n) == n = Zero

PushBack(n, limb) == IF limb > 0 THEN Append(n, limb) ELSE n

\* A limb goes through step, which gives the new limb and what the next one gets.
Carried(n, first, Step(_, _)) ==
  LET Add(a, limb) == LET next == Step(limb, a[2]) IN <<Append(a[1], next[1]), next[2]>>
      last == FoldLeft(Add, <<<<>>, first>>, n)
  IN  PushBack(last[1], last[2])

\* Slip: a limb that just becomes zero carries nothing.
Plus_ZeroStays(n, u) ==
  Carried(n, u, LAMBDA limb, add : LET d == (limb + add) % Base
                                   IN  <<d, IF d < limb /\ d # 0 THEN 1 ELSE 0>>)

\* operator+=: a limb that wraps around carries one.
Plus(n, u) ==
  Carried(n, u, LAMBDA limb, add : LET d == (limb + add) % Base IN <<d, IF d < limb THEN 1 ELSE 0>>)

\* operator*= for a whole limb, with a product of twice the width
TimesWide(n, u) ==
  CASE u = 0 -> Zero
    [] u = 1 -> n
    [] u > 1 /\ n = <<1>> -> <<u>>
    [] OTHER -> Carried(n, 0, LAMBDA limb, k : <<(limb * u + k) % Base, (limb * u + k) \div Base>>)

\* operator*= for half a limb, half by half
TimesHalf(n, u) ==
  LET Step(limb, k) ==
        LET p0 == u * (limb % HalfBase) + k
            p1 == u * (limb \div HalfBase) + p0 \div HalfBase
        IN  <<((p0 % HalfBase) + p1 * HalfBase) % Base, p1 \div HalfBase>>
  IN  CASE u = 0 -> Zero
        [] u = 1 -> n
        [] u > 1 /\ n = <<1>> -> <<u>>
        [] OTHER -> Carried(n, 0, Step)

Shifted(n, shift) ==
  LET offset == shift \div LimbBits
      inter  == shift % LimbBits
      limb(i) == IF i \in 1..Len(n) THEN n[i] ELSE 0
      moved  == [i \in 1..Len(n) + 1 |->
                   ((limb(i) * 2 ^ inter) % Base) + limb(i - 1) \div 2 ^ (LimbBits - inter)]
  IN  IF IsZero(n) \/ shift = 0 THEN n
      ELSE [i \in 1..offset |-> 0]
             \o IF inter = 0 THEN n
                ELSE IF moved[Len(n) + 1] > 0 THEN moved ELSE SubSeq(moved, 1, Len(n))

Times(n, k, Multiply(_)) == FoldLeft(LAMBDA a, i : Multiply(a), n, [i \in 1..k |-> i])

\* Slip: the power that is left is one too small.
MultiplyPow5_Less(n, exp) ==
  LET wide == Times(n, exp \div WidePow5, LAMBDA a : TimesWide(a, 5 ^ WidePow5))
      rest == exp % WidePow5
      half == Times(wide, rest \div HalfPow5, LAMBDA a : TimesHalf(a, 5 ^ HalfPow5))
  IN  IF rest % HalfPow5 > 0 THEN TimesHalf(half, 5 ^ ((rest % HalfPow5) - 1)) ELSE half

MultiplyPow5(n, exp) ==
  LET wide == Times(n, exp \div WidePow5, LAMBDA a : TimesWide(a, 5 ^ WidePow5))
      rest == exp % WidePow5
      half == Times(wide, rest \div HalfPow5, LAMBDA a : TimesHalf(a, 5 ^ HalfPow5))
  IN  IF rest % HalfPow5 > 0 THEN TimesHalf(half, 5 ^ (rest % HalfPow5)) ELSE half

ParseUint64(digits) == FoldLeft(LAMBDA r, d : r * 10 + d, 0, digits)

AppendDecimal64(n, digits) ==
  IF IsZero(n) THEN <<ParseUint64(digits)>>
  ELSE Plus(Shifted(MultiplyPow5(n, Len(digits)), Len(digits)), ParseUint64(digits))

\* The constructor from decimal digits: limb by limb, then what is left.
OfDecimals(digits) ==
  LET whole == Len(digits) \div LimbDigits
      part(i) == SubSeq(digits, (i - 1) * LimbDigits + 1, Min({i * LimbDigits, Len(digits)}))
      parts == whole + IF Len(digits) % LimbDigits > 0 THEN 1 ELSE 0
  IN  FoldLeft(LAMBDA n, i : AppendDecimal64(n, part(i)), Zero, [i \in 1..parts |-> i])

Compare(m, n) ==
  IF Len(m) # Len(n) THEN IF Len(m) < Len(n) THEN -1 ELSE 1
  ELSE LET unlike == {i \in 1..Len(m) : m[i] # n[i]}
       IN  IF unlike = {} THEN 0 ELSE IF m[Max(unlike)] < n[Max(unlike)] THEN -1 ELSE 1

\* A limb of ones that is subtracted with a borrow leaves the limb, which looks as if nothing
\* had to be borrowed.
LosesBorrow(small, i) == i <= Len(small) /\ small[i] = Base - 1

\* Slip: a difference is negative if its limb is larger than the one subtracted.
Difference_Other(m, n) ==
  LET a == IF Compare(m, n) < 0 THEN n ELSE m
      b == IF Compare(m, n) < 0 THEN m ELSE n
      limb(i) == IF i <= Len(b) THEN b[i] ELSE 0
      Subtract(s, i) == LET d == (a[i] - s[2] - limb(i) + 2 * Base) % Base
                        IN  <<Append(s[1], d), IF d > limb(i) THEN 1 ELSE 0>>
      limbs == FoldLeft(Subtract, <<<<>>, 0>>, [i \in 1..Len(a) |-> i])[1]
  IN  SubSeq(limbs, 1, Max({1} \cup {i \in 1..Len(a) : limbs[i] # 0}))

\* The absolute difference of two numbers that differ.
Difference(m, n) ==
  LET a == IF Compare(m, n) < 0 THEN n ELSE m
      b == IF Compare(m, n) < 0 THEN m ELSE n
      Subtract(s, i) == LET d == (a[i] - s[2] - (IF i <= Len(b) THEN b[i] ELSE 0) + 2 * Base) % Base
                        IN  <<Append(s[1], d), IF d > a[i] THEN 1 ELSE 0>>
      limbs == FoldLeft(Subtract, <<<<>>, 0>>, [i \in 1..Len(a) |-> i])[1]
      count == Max({1} \cup {i \in 1..Len(a) : limbs[i] # 0})
  IN  SubSeq(limbs, 1, count)

-----------------------------------------------------------------------------
(* Properties                                                              *)

ValueOf(n) == FoldRight(LAMBDA limb, v : limb + Base * v, n, 0)

\* No limb is out of its width, and only zero has a highest limb of zero: otherwise Compare, which
\* looks at the number of limbs first, would be wrong.
WellFormed(n) == (\A i \in 1..Len(n) : n[i] \in 0..Base - 1) /\ (n = Zero \/ Last(n) > 0)

OfNatural(v) ==
  LET limbs == [i \in 1..4 |-> (v \div Base ^ (i - 1)) % Base]
  IN  SubSeq(limbs, 1, Max({1} \cup {i \in 1..4 : limbs[i] > 0}))

\* The operations on limbs are those on the numbers they stand for and keep numbers well formed,
\* carries through several limbs and shifts over limb boundaries included
\* (biginteger.h, the operators).
LimbsAreNumbers(v, u, shift) ==
  LET n == OfNatural(v)
      Is(m, w) == WellFormed(m) /\ ValueOf(m) = w
  IN  /\ Is(Plus(n, u), v + u)
      /\ v < 2 ^ 20 => Is(TimesWide(n, u), v * u)
      /\ v < 2 ^ 20 /\ u < HalfBase => Is(TimesHalf(n, u), v * u)
      /\ v < 2 ^ 11 => Is(Shifted(n, shift), v * 2 ^ shift) /\ Is(MultiplyPow5(n, shift % 8), v * 5 ^ (shift % 8))
      /\ Compare(n, OfNatural(u)) = IF v < u THEN -1 ELSE IF v > u THEN 1 ELSE 0

\* The difference of two numbers is exact, unless a borrow meets a limb of ones of the smaller
\* number: then it is lost (biginteger.h, Difference).
DifferenceIsExact(v, w) ==
  LET m == OfNatural(v)
      n == OfNatural(w)
      small == OfNatural(Min({v, w}))
  IN  v # w /\ (\A i \in 2..Len(small) : ~LosesBorrow(small, i)) =>
        Difference(m, n) = OfNatural(IF v < w THEN w - v ELSE v - w)

\* A number is built from its digits, however many limbs they take (biginteger.h, the constructor
\* from decimals).
DecimalsAreNumbers(digits) ==
  OfDecimals(digits) = OfNatural(ParseUint64(digits))
=============================================================================
