----------------------------- MODULE JsonFloat ------------------------------
(***************************************************************************)
(* Doubles of the JSON library: from decimal digits (internal/strtod.h)    *)
(* and to decimal digits (internal/dtoa.h), with the arithmetic of         *)
(* internal/diyfp.h and internal/ieee754.h.                                *)
(*                                                                         *)
(* The format of a double and the width of the significands it is computed *)
(* with are scaled.  A double without sign is the natural number of its    *)
(* bits, as in memory: doubles are ordered like these numbers.             *)
(***************************************************************************)
EXTENDS Integers, FiniteSetsExt, SequencesExt

CONSTANTS
  SigBits, Bias,                \* bits of a significand (52), bias of an exponent (1023)
  Q,                            \* bits of a DiyFp's significand (64)
  MinCached, CachedStep,        \* smallest cached power of ten (348), one in so many is cached (8)
  ExactDigits,                  \* digits that fit a DiyFp's significand (19)
  ExactPower, DisguisedPower,   \* powers of ten that are doubles (22), and integers (16)
  LeastPower, MostPower,        \* numbers of no more, of more digits before the point: 0 (324), infinity (309)
  KeptDigits,                   \* digits that decide the rounding (768)
  RoundedPlaces,                \* digits after the point that are rounded (9)
  HalfBits, LimbDigits, WidePow5, HalfPow5

Big == INSTANCE JsonBigInteger

Hidden      == 2 ^ SigBits
Infinity    == (2 * Bias + 1) * Hidden
DpBias      == Bias + SigBits
DpDenormal  == 1 - DpBias
DpMax       == 2 * Bias + 1 - DpBias

Significand(u)        == u % Hidden
IsNormal(u)           == u \div Hidden # 0 \/ Significand(u) = 0
IntegerSignificand(u) == Significand(u) + IF IsNormal(u) THEN Hidden ELSE 0
IntegerExponent(u)    == (IF IsNormal(u) THEN u \div Hidden - Bias ELSE 1 - Bias) - SigBits
NextPositiveDouble(u) == u + 1

\* Bits of a significand that are left for a number in [2^(order-1), 2^order).
EffectiveSignificandSize(order) ==
  CASE order >= 2 - Bias -> SigBits + 1
    [] order <= 1 - DpBias -> 0
    [] OTHER -> order + DpBias - 1

Least(set) == Min(set)
Shl(n, k)  == n * 2 ^ k
Shr(n, k)  == n \div 2 ^ k

-----------------------------------------------------------------------------
(* DiyFp: f * 2^e with Q bits of f                                         *)

DiyFp(f, e) == [f |-> f, e |-> e]

OfDouble(u) == IF u \div Hidden # 0 THEN DiyFp(Significand(u) + Hidden, u \div Hidden - DpBias)
               ELSE DiyFp(u, DpDenormal)

\* The upper half of the product, rounded.
Product(v, w) == DiyFp(Shr(v.f * w.f, Q) + (Shr(v.f * w.f, Q - 1) % 2), v.e + w.e + Q)

\* Shifted until its highest bit is the given one.
UpTo(v, bit) == LET s == Least({s \in 0..Q : Shl(v.f, s) >= 2 ^ bit}) IN DiyFp(Shl(v.f, s), v.e - s)

Normalize(v)         == UpTo(v, Q - 1)
NormalizeBoundary(v) == LET n == UpTo(v, SigBits + 1)
                        IN  DiyFp(Shl(n.f, Q - SigBits - 2), n.e - (Q - SigBits - 2))

\* Slip: the boundaries are the next doubles.
NormalizedBoundaries_Next(v) ==
  LET plus  == NormalizeBoundary(DiyFp(v.f + 1, v.e))
      minus == IF v.f = Hidden THEN DiyFp(2 * v.f - 1, v.e - 1) ELSE DiyFp(v.f - 1, v.e)
  IN  <<DiyFp(Shl(minus.f, minus.e - plus.e), plus.e), plus>>

\* Half way to the next double on either side.
NormalizedBoundaries(v) ==
  LET plus  == NormalizeBoundary(DiyFp(2 * v.f + 1, v.e - 1))
      minus == IF v.f = Hidden THEN DiyFp(4 * v.f - 1, v.e - 2) ELSE DiyFp(2 * v.f - 1, v.e - 1)
  IN  <<DiyFp(Shl(minus.f, minus.e - plus.e), plus.e), plus>>

ToDouble(v) ==
  CASE v.e < DpDenormal -> 0
    [] v.e >= DpMax -> Infinity
    [] OTHER -> Significand(v.f) + Hidden * IF v.e = DpDenormal /\ v.f < Hidden THEN 0 ELSE v.e + DpBias

-----------------------------------------------------------------------------
(* Cached powers of ten, the nearest normalized ones                       *)

\* The first n bits of a / b below 1, and half a bit of rounding.
Quotient(a, b, n) ==
  LET Bit(s, i) == IF 2 * s[2] >= b THEN <<2 * s[1] + 1, 2 * s[2] - b>> ELSE <<2 * s[1], 2 * s[2]>>
      bits == FoldLeft(Bit, <<0, a>>, [i \in 1..n |-> i])
  IN  bits[1] + IF 2 * bits[2] >= b THEN 1 ELSE 0

\* 10^k = 5^k * 2^k; 5^-k is 2^-w * (2^w / 5^k) with 2^(w-1) < 5^k < 2^w.
Power10(k) ==
  LET five  == 5 ^ (IF k < 0 THEN -k ELSE k)
      width == Least({w \in 1..30 : 2 ^ w > five})
  IN  IF k < 0 THEN DiyFp(Quotient(2 ^ (width - 1), five, Q), -width + 1 - Q + k)
      ELSE IF width <= Q THEN DiyFp(Shl(five, Q - width), width - Q + k)
      ELSE DiyFp(Shr(five, width - Q) + (Shr(five, width - Q - 1) % 2), width - Q + k)

\* The cached power of an index and its exponent.
CachedExponent(index) == index * CachedStep - MinCached

GetCachedPower10(exp) == (exp + MinCached) \div CachedStep

\* ceil(m * log10(2)): the first power of ten that is not below 2^m
CeilLog10(m) == IF m > 0 THEN Least({j \in 0..9 : 10 ^ j >= 2 ^ m})
                ELSE -Max({j \in 0..9 : 10 ^ j <= 2 ^ (-m)})

GetCachedPower(e) == (CeilLog10(3 - Q - e) + MinCached - 1) \div CachedStep + 1

-----------------------------------------------------------------------------
(* From digits to a double                                                 *)

Natural(digits) == FoldLeft(LAMBDA n, d : 10 * n + d, 0, digits)
Zeros(n)        == [i \in 1..n |-> 0]
Leading(digits)  == Max({k \in 0..Len(digits) : \A i \in 1..k : digits[i] = 0})
Trailing(digits) == Max({k \in 0..Len(digits) : \A i \in Len(digits) - k + 1..Len(digits) : digits[i] = 0})
Trim(digits)     == SubSeq(digits, Leading(digits) + 1, Len(digits))

\* The value of a double, in units of the smallest one.
Units(u) == IF u < Hidden THEN u ELSE (Significand(u) + Hidden) * 2 ^ (u \div Hidden - 1)

\* The digits after the point, times two: what is carried over the point, and the digits.
Doubled(f) ==
  LET Add(digit, a) == <<(2 * digit + a[1]) \div 10, <<(2 * digit + a[1]) % 10>> \o a[2]>>
  IN  FoldRight(Add, f, <<0, <<>>>>)

\* The double nearest to digits * 10^exp, the even one of two: what a double operation on exact
\* numbers gives, and what all of strtod is to give.
Nearest(digits, exp) ==
  LET point  == Len(digits) + exp
      padded == Zeros(IF point < 0 THEN -point ELSE 0) \o digits \o Zeros(IF exp > 0 THEN exp ELSE 0)
      whole  == Natural(SubSeq(padded, 1, IF point < 0 THEN 0 ELSE point))
      Twice(a, i) == LET d == Doubled(a[2]) IN <<2 * a[1] + d[1], d[2]>>
      halves == FoldLeft(Twice, <<whole, SubSeq(padded, (IF point < 0 THEN 0 ELSE point) + 1, Len(padded))>>,
                         Zeros(DpBias))
      shift  == Least({k \in 0..29 - SigBits : halves[1] \div 2 < 2 ^ (SigBits + 1 + k)})
      below  == Least({shift * Hidden + Shr(halves[1] \div 2, shift), Infinity})
      middle == Units(below) + Units(below + 1)
      more   == Trim(halves[2]) # <<>>
  IN  IF point - Leading(digits) > MostPower \/ below = Infinity THEN Infinity
      ELSE CASE halves[1] > middle \/ (halves[1] = middle /\ more) -> below + 1
             [] halves[1] = middle /\ ~more -> below + (below % 2)
             [] halves[1] < middle -> below

\* StrtodFast: the number is a double and the power of ten too, and one operation rounds.
IsFast(digits, p) ==
  LET disguise == IF p > ExactPower /\ p < ExactPower + DisguisedPower THEN p - ExactPower ELSE 0
  IN  /\ p - disguise \in -ExactPower..ExactPower
      /\ Len(digits) <= ExactDigits
      /\ Natural(digits) * 10 ^ disguise < 2 * Hidden

\* The digits that fit a DiyFp: their number.
Taken(digits) ==
  LET Fits(k) == Natural(SubSeq(digits, 1, k)) < 2 ^ Q
  IN  Max({k \in 0..Len(digits) : k <= ExactDigits + 1 /\ Fits(k)})

\* All that fit are ones, and rounding makes them zero.
Wraps(digits) ==
  LET i == Taken(digits)
  IN  i < Len(digits) /\ Natural(SubSeq(digits, 1, i)) = 2 ^ Q - 1 /\ digits[i + 1] >= 5

\* Slip: the digits left out count as no error.
InitialError_None(remaining) == 0

\* In eighths of a unit.
InitialError(remaining) == IF remaining = 0 THEN 0 ELSE 4

\* The number as a DiyFp, and the error it may have.
Approximated(digits, exp) ==
  LET i     == Taken(digits)
      up    == IF i < Len(digits) /\ digits[i + 1] >= 5 THEN 1 ELSE 0
      v     == Normalize(DiyFp(Natural(SubSeq(digits, 1, i)) + up, 0))
      error == Shl(InitialError(Len(digits) - i), -v.e)
      dExp  == exp + Len(digits) - i
      index == GetCachedPower10(dExp)
      adjustment == dExp - CachedExponent(index)
      adjusted   == IF adjustment = 0 THEN v ELSE Product(v, Normalize(DiyFp(10 ^ adjustment, 0)))
      error2     == error + IF adjustment # 0 /\ Len(digits) + adjustment > ExactDigits THEN 4 ELSE 0
      product    == Product(adjusted, Power10(CachedExponent(index)))
      normal     == Normalize(product)
  IN  <<normal, Shl(error2 + 8 + (IF error2 = 0 THEN 0 ELSE 1), product.e - normal.e)>>

Raised(v) == IF v.f + 1 >= 2 * Hidden THEN DiyFp((v.f + 1) \div 2, v.e + 1) ELSE DiyFp(v.f + 1, v.e)

\* The double of an approximated number and whether the error cannot have changed it.
RoundedTo(approximated) ==
  LET size  == Q - EffectiveSignificandSize(Q + approximated[1].e)
      scale == IF size + 3 >= Q THEN size + 3 - (Q - 1) ELSE 0
      v     == DiyFp(Shr(approximated[1].f, scale), approximated[1].e + scale)
      error == IF scale > 0 THEN Shr(approximated[2], scale) + 9 ELSE approximated[2]
      cut   == size - scale
      down  == DiyFp(Shr(v.f, cut), v.e + cut)
      bits  == (v.f % 2 ^ cut) * 8
      half  == 2 ^ (cut - 1) * 8
  IN  <<ToDouble(IF bits >= half + error THEN Raised(down) ELSE down),
        half - error >= bits \/ bits >= half + error>>

StrtodDiyFp(digits, exp) == RoundedTo(Approximated(digits, exp))

Positive(n) == IF n > 0 THEN n ELSE 0

\* The number digits * 10^exp, the double u and half a unit of u, as integers of the same scale.
Scales(u, digits, exp) ==
  LET bExp == IntegerExponent(u)
      hExp == bExp - 1
      dS2  == Positive(exp) + Positive(-bExp) + Positive(-hExp)
      bS2  == Positive(-exp) + Positive(bExp) + Positive(-hExp)
      hS2  == Positive(-exp) + Positive(-bExp) + Positive(hExp)
      common == Min({dS2, bS2, hS2})
      Scaled(n, exp5, exp2) == Big!Shifted(Big!MultiplyPow5(n, exp5), exp2 - common)
  IN  [number |-> Scaled(Big!OfDecimals(digits), Positive(exp), dS2),
       double |-> Scaled(Big!OfNatural(IntegerSignificand(u)), Positive(-exp), bS2),
       half   |-> Scaled(<<1>>, Positive(-exp), hS2)]

\* The distance of the number to the double against half a unit: -1, 0 or 1.
WithinHalf(s) == Big!Compare(Big!Difference(s.number, s.double), s.half)
CheckWithinHalfULP(u, digits, exp) == WithinHalf(Scales(u, digits, exp))

\* Slip: a tie is rounded up.
StrtodBigInteger_Up(u, digits, exp) ==
  IF CheckWithinHalfULP(u, digits, exp) < 0 THEN u ELSE NextPositiveDouble(u)

ByHalf(u, cmp) == IF cmp < 0 \/ (cmp = 0 /\ Significand(u) % 2 = 0) THEN u ELSE NextPositiveDouble(u)
StrtodBigInteger(u, digits, exp) == ByHalf(u, CheckWithinHalfULP(u, digits, exp))

\* The digits of a number and its exponent, without zeros at the ends and digits that do not matter.
Trimmed(decimals, exp) ==
  LET digits == SubSeq(decimals, Leading(decimals) + 1, Len(decimals) - Trailing(decimals))
      kept   == Min({Len(digits), KeptDigits})
  IN  <<SubSeq(digits, 1, kept), exp + Trailing(decimals) + Len(digits) - kept>>

\* The double of 64 bits, if they decide.
Decided(quick, digits, exp) == IF quick[2] THEN quick[1] ELSE StrtodBigInteger(quick[1], digits, exp)

StrtodTrimmed(trimmed) ==
  LET digits == trimmed[1]
      exp    == trimmed[2]
  IN  CASE Len(digits) + exp <= LeastPower -> 0
        [] Len(digits) + exp > MostPower -> Infinity
        [] OTHER -> Decided(StrtodDiyFp(digits, exp), digits, exp)

StrtodFullPrecision(decimals, exp) ==
  CASE IsFast(Trim(decimals), exp) -> Nearest(Trim(decimals), exp)
    [] ~IsFast(Trim(decimals), exp) /\ Trim(decimals) = <<>> -> 0
    [] OTHER -> StrtodTrimmed(Trimmed(decimals, exp))

-----------------------------------------------------------------------------
(* From a double to digits                                                 *)

\* The last digit is lowered as long as that comes closer.
GrisuRound(digits, delta, rest, ten, distance) ==
  LET goes(r) == /\ r < distance /\ delta - r >= ten
                 /\ r + ten < distance \/ distance - r > r + ten - distance
      n == Least({n \in 0..10 : ~goes(rest + n * ten)})
  IN  [digits EXCEPT ![Len(digits)] = @ - n]

DigitsOf(n) == LET k == Least({k \in 0..9 : n < 10 ^ k}) IN [j \in 1..k |-> (n \div 10 ^ (k - j)) % 10]

\* The digits of Mp down to the first that leaves less than delta, and their exponent.
DigitGen(W, Mp, delta) ==
  LET s     == -Mp.e
      one   == 2 ^ s
      p1    == Shr(Mp.f, s)
      kappa == IF p1 = 0 THEN 1 ELSE Len(DigitsOf(p1))
      rest(j) == Shl(p1 % 10 ^ (kappa - j), s) + (Mp.f % one)
      whole   == {j \in 1..kappa : rest(j) <= delta}
      after[i \in 0..Q] == IF i = 0 THEN Mp.f % one ELSE (10 * after[i - 1]) % one
      places  == CHOOSE i \in 1..Q : after[i] < delta * 10 ^ i /\ \A j \in 1..i - 1 : after[j] >= delta * 10 ^ j
      distance == Mp.f - W.f
      fraction == [i \in 1..places |-> Shr(10 * after[i - 1], s)]
  IN  IF whole # {}
      THEN LET j == Least(whole)
           IN  <<GrisuRound(SubSeq(DigitsOf(p1), 1, j), delta, rest(j), Shl(10 ^ (kappa - j), s), distance), kappa - j>>
      ELSE <<GrisuRound(Trim(DigitsOf(p1) \o fraction), delta * 10 ^ places, after[places], one,
                        IF places < RoundedPlaces THEN distance * 10 ^ places ELSE 0), -places>>

\* The scaled number and its boundaries, and the exponent that was taken out.
Bounds(u) ==
  LET v     == OfDouble(u)
      bounds == NormalizedBoundaries(v)
      cached == CachedExponent(GetCachedPower(bounds[2].e))
      By(w)  == Product(w, Power10(cached))
  IN  [W |-> By(Normalize(v)), minus |-> By(bounds[1]), plus |-> By(bounds[2]), K |-> -cached]

\* The shortest digits within the boundaries.
Shortest(s) ==
  LET Wp   == DiyFp(s.plus.f - 1, s.plus.e)
      made == DigitGen(s.W, Wp, Wp.f - (s.minus.f + 1))
  IN  [digits |-> made[1], K |-> s.K + made[2]]

Grisu2(u) == Shortest(Bounds(u))

-----------------------------------------------------------------------------
(* From digits to text: digits as numbers, the other characters as their   *)
(* codes.                                                                  *)

Minus == 45  Point == 46  LetterE == 101

TwoDigits(n) == <<n \div 10, n % 10>>
WriteExponent(K) ==
  LET n == IF K < 0 THEN -K ELSE K
  IN  (IF K < 0 THEN <<Minus>> ELSE <<>>)
        \o CASE n >= 100 -> <<n \div 100>> \o TwoDigits(n % 100)
             [] n \in 10..99 -> TwoDigits(n)
             [] n < 10 -> <<n>>

\* Slip: the digits after the last place are cut off and the zeros before them stay.
Places_Zeros(decimals, most) == SubSeq(decimals, 1, Min({most, Len(decimals)}))

\* At most so many decimals, and no zeros at their end but the first.
Places(decimals, most) ==
  IF Len(decimals) <= most THEN decimals
  ELSE SubSeq(decimals, 1, Max({1} \cup {i \in 2..most : decimals[i] # 0}))

Prettify(digits, k, most) ==
  LET kk == Len(digits) + k
      tail == SubSeq(digits, 2, Len(digits))
  IN  CASE 0 <= k /\ kk <= 21 -> digits \o Zeros(k) \o <<Point, 0>>
        [] k < 0 /\ kk \in 1..21 -> SubSeq(digits, 1, kk) \o <<Point>> \o Places(SubSeq(digits, kk + 1, Len(digits)), most)
        [] kk \in -5..0 -> <<0, Point>> \o Places(Zeros(-kk) \o digits, most)
        [] kk \notin -5..21 /\ kk < -most -> <<0, Point, 0>>
        [] OTHER -> <<digits[1]>> \o (IF tail = <<>> THEN <<>> ELSE <<Point>> \o tail) \o <<LetterE>> \o WriteExponent(kk - 1)

dtoa(minus, u, most) ==
  (IF minus THEN <<Minus>> ELSE <<>>)
    \o IF u = 0 THEN <<0, Point, 0>> ELSE LET made == Grisu2(u) IN Prettify(made.digits, made.K, most)

-----------------------------------------------------------------------------
(* Properties                                                              *)

\* A number read with full precision is the double nearest to it, of two the even one, whichever way
\* it is computed: by one operation, in 64 bits with a known error, or with big integers.  Excepted
\* are numbers that begin with the digits of 2^64 - 1 and are rounded up, those that 64 bits cannot
\* tell from half of the smallest double, which are rounded up, and those over the largest double,
\* which may be read as the bits after infinity: no number (strtod.h, StrtodFullPrecision).
StrtodRounds(decimals, exp) ==
  \E trimmed \in {Trimmed(decimals, exp)}, read \in {StrtodFullPrecision(decimals, exp)}, nearest \in {Nearest(decimals, exp)} :
      \/ Wraps(trimmed[1]) \/ read = nearest
      \/ ~StrtodDiyFp(trimmed[1], trimmed[2])[2] /\ <<nearest, read>> \in {<<0, 1>>, <<Infinity, Infinity + 1>>}

\* When the 64 bits are said to decide, they do.  When they are not, their double is the nearest or
\* the one below, and never the number itself, of which Difference takes no account
\* (strtod.h, StrtodDiyFp; biginteger.h, Difference).
ErrorIsBounded(decimals, exp) ==
  \A trimmed \in {Trimmed(decimals, exp)} :
    LET digits == trimmed[1]
        dExp   == trimmed[2]
    IN  Len(digits) + dExp \in LeastPower + 1..MostPower /\ ~Wraps(digits) =>
          \E nearest \in {Nearest(digits, dExp)}, quick \in {StrtodDiyFp(digits, dExp)} :
            IF quick[2] THEN quick[1] = nearest
            ELSE nearest - quick[1] \in 0..1
                 /\ \E scales \in {Scales(quick[1], digits, dExp)} : scales.number # scales.double

\* The digits a double is written with are read back as this double; there is no zero before them,
\* and not one more than a double can need (dtoa.h, Grisu2).
GrisuReadsBack(u, mostDigits) ==
  \E made \in {Grisu2(u)} :
      /\ Nearest(made.digits, made.K) = u
      /\ made.digits[1] # 0 /\ Len(made.digits) <= mostDigits
      /\ -Bounds(u).plus.e \in 1..Q - 4

\* The text of a number is a JSON number of at most 24 characters: a digit before the point and one
\* after it, and the value is the number, cut off after the decimal places asked for where it has
\* no exponent, without zeros at its end (dtoa.h, Prettify).
PrettyDenotes(digits, k, most) ==
  LET text  == Prettify(digits, k, most)
      At(c) == Least({i \in 1..Len(text) : text[i] = c} \cup {Len(text) + 1})
      point == At(Point)
      end   == At(LetterE)
      whole == SubSeq(text, 1, Least({point, end}) - 1)
      decimals == SubSeq(text, point + 1, end - 1)
      sign  == end < Len(text) /\ text[end + 1] = Minus
      power == Natural(SubSeq(text, end + (IF sign THEN 2 ELSE 1), Len(text)))
      cut   == Len(digits) - Positive(-k - most)
      places == end <= Len(text)
      kept  == IF places \/ cut >= Len(digits) THEN digits ELSE SubSeq(digits, 1, cut)
      exponent == (IF sign THEN -power ELSE power) - Len(decimals)
      shown == Trim(whole \o decimals)
  IN  /\ Len(text) <= 24
      /\ Len(whole) >= 1 /\ (Len(whole) > 1 => whole[1] # 0)
      /\ ~places => Len(decimals) >= 1
      /\ cut < Len(digits) /\ ~places => Len(decimals) = 1 \/ Last(decimals) # 0
      /\ SubSeq(shown, 1, Len(shown) - Trailing(shown)) = SubSeq(kept, 1, Len(kept) - Trailing(kept))
      /\ shown # <<>> => Len(shown) + exponent = Len(digits) + k
=============================================================================
