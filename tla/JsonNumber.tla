----------------------------- MODULE JsonNumber -----------------------------
(***************************************************************************)
(* Numbers of the JSON library: as they are read (reader.h, ParseNumber),  *)
(* kept in a value (document.h) and written (internal/itoa.h).             *)
(*                                                                         *)
(* The widths of the types are constants, so that all limits are near.  A  *)
(* double is the decimal number d * 10^p: how it is rounded is the subject *)
(* of JsonFloat.                                                           *)
(***************************************************************************)
EXTENDS Integers, FiniteSetsExt, SequencesExt

CONSTANTS
  UintBits, Uint64Bits,     \* width of unsigned (32) and of uint64_t (64)
  MantissaBits,             \* width of the integers that all are doubles (53)
  MaxDigits, MaxExp,        \* digits a double is given (17), exponent of the largest double (308)
  IntMax                    \* INT_MAX

IsDigit(c) == c \in 48..57
Minus == 45  Plus == 43  Point == 46  LetterE == {69, 101}
NaN == <<78, 97, 78>>  Inf == <<73, 110, 102>>  Inity == <<105, 110, 105, 116, 121>>

-----------------------------------------------------------------------------
(* NumberStream: `keep` tells whether nothing, the digits or all is pushed to the stack. *)

Reading(text, flags) ==
  [text |-> text, at |-> 0, buffer |-> <<>>, flags |-> flags, error |-> "None", offset |-> 0,
   keep |-> CASE "asStrings" \in flags -> IF "insitu" \in flags THEN "nothing" ELSE "all"
              [] OTHER -> IF "full" \in flags THEN "digits" ELSE "nothing",
   minus |-> FALSE, i |-> 0, use64bit |-> FALSE, useDouble |-> FALSE, special |-> "no", d |-> <<>>,
   significandDigit |-> 0, expFrac |-> 0, decimalPosition |-> 0, exp |-> 0]

Ahead(r, k) == IF r.at + k <= Len(r.text) THEN r.text[r.at + k] ELSE 0
Peek(r)     == Ahead(r, 1)

\* The digits that follow.
DigitsAhead(r) ==
  LET n == CHOOSE n \in 0..Len(r.text) : ~IsDigit(Ahead(r, n + 1)) /\ \A k \in 1..n : IsDigit(Ahead(r, k))
  IN  [k \in 1..n |-> Ahead(r, k) - 48]

Advance(r, n, pushed) ==
  [r EXCEPT !.at = @ + n, !.buffer = IF pushed THEN @ \o SubSeq(r.text, r.at + 1, r.at + n) ELSE @]

TakePush(r, n) == Advance(r, n, r.keep # "nothing")
\* Slip: what is no digit is not pushed.
Take_Forgets(r, n) == Advance(r, n, FALSE)

Take(r, n) == Advance(r, n, r.keep = "all")

Fail(r, code, offset) == [r EXCEPT !.error = code, !.offset = offset]

\* Slip: the character that ends the word is taken for one of its own.
ConsumeAll_Lax(r, chars) ==
  LET n == Max({n \in 0..Len(chars) : \A k \in 1..n - 1 : Ahead(r, k) = chars[k]}) IN <<n, Take(r, n)>>

\* As many of the characters as follow in their order.
ConsumeAll(r, chars) ==
  LET n == Max({n \in 0..Len(chars) : \A k \in 1..n : Ahead(r, k) = chars[k]}) IN <<n, Take(r, n)>>

-----------------------------------------------------------------------------
(* The integer                                                             *)

\* Slip: the last digit of the limit is not looked at.
Exceeds_Strict(v, digit, limit) == v > limit \div 10

\* One more digit would go over the limit.
Exceeds(v, digit, limit) == v >= limit \div 10 /\ (v # limit \div 10 \/ digit > limit % 10)

\* The digits taken while the number stays below the limit: its value and their number.
Accumulate(v, digits, limit, bits) ==
  LET Add(a, digit) == IF a[3] \/ Exceeds(a[1], digit, limit) THEN <<a[1], a[2], TRUE>>
                       ELSE <<(a[1] * 10 + digit) % 2 ^ bits, a[2] + 1, FALSE>>
  IN  FoldLeft(Add, <<v, 0, FALSE>>, digits)

\* The largest number, or the negative of the smallest.
Limit(bits, minus) == IF minus THEN 2 ^ (bits - 1) ELSE 2 ^ bits - 1

\* The decimal digits of a natural number and the natural number of decimal digits; 0 is <<>>.
DigitsOf(n)      == LET k == Min({k \in 0..9 : n < 10 ^ k}) IN [j \in 1..k |-> (n \div 10 ^ (k - j)) % 10]
NaturalOf(digits) == FoldLeft(LAMBDA a, digit : a * 10 + digit, 0, digits)

DigitsIn(chars) == [k \in 1..Len(chars) |-> chars[k] - 48]
Trimmed(digits) == LET zeros == Max({k \in 0..Len(digits) : \A j \in 1..k : digits[j] = 0})
                   IN  SubSeq(digits, zeros + 1, Len(digits))

\* d * 10 + digit
Shifted(d, digit) == IF d = <<>> /\ digit = 0 THEN d ELSE Append(d, digit)

Grown(r, a) == [TakePush(r, a[2]) EXCEPT !.i = a[1], !.significandDigit = @ + a[2]]

ReadRest(r) == LET digits == DigitsAhead(r)
               IN  [TakePush(r, Len(digits)) EXCEPT !.d = DigitsOf(r.i) \o digits, !.useDouble = TRUE]

\* The digits that fit into 64 bits, and into 32.
ReadLong(r, long)   == IF long[3] THEN ReadRest(Grown(r, long)) ELSE Grown(r, long)
ReadWide(r)         == ReadLong(r, Accumulate(r.i, DigitsAhead(r), Limit(Uint64Bits, r.minus), Uint64Bits))
ReadShort(r, short) == IF short[3] THEN ReadWide([Grown(r, short) EXCEPT !.use64bit = TRUE]) ELSE Grown(r, short)
ReadFirst(r)        == ReadShort(r, Accumulate(r.i, DigitsAhead(r), Limit(UintBits, r.minus), UintBits))
ReadDigits(r)       == ReadFirst([TakePush(r, 1) EXCEPT !.i = Peek(r) - 48])

\* NaN, Inf or Infinity
ReadWord(read, lengths, special) ==
  IF read[1] \in lengths THEN [read[2] EXCEPT !.special = special] ELSE Fail(read[2], "ValueInvalid", read[2].at)
ReadInf(inf)   == IF inf[1] = 3 THEN ReadWord(ConsumeAll(inf[2], Inity), {0, 5}, "Inf") ELSE ReadWord(inf, {3}, "Inf")
ReadSpecial(r) == IF Peek(r) = NaN[1] THEN ReadWord(ConsumeAll(r, NaN), {3}, "NaN") ELSE ReadInf(ConsumeAll(r, Inf))

ReadUnsigned(r) ==
  CASE Peek(r) = 48 -> TakePush(r, 1)
    [] IsDigit(Peek(r)) /\ Peek(r) # 48 -> ReadDigits(r)
    [] "nanInf" \in r.flags /\ Peek(r) \in {73, 78} -> ReadSpecial(r)
    [] OTHER -> Fail(r, "ValueInvalid", r.at)
ReadInteger(r) == ReadUnsigned(IF Peek(r) = Minus THEN [Take(r, 1) EXCEPT !.minus = TRUE] ELSE r)

-----------------------------------------------------------------------------
(* Fraction and exponent                                                   *)

\* Into the double, as long as it makes a difference.
OneMoreDigit(r, digit) ==
  LET s == TakePush(r, 1)
      d == Shifted(r.d, digit)
  IN  IF r.significandDigit >= MaxDigits THEN s
      ELSE [s EXCEPT !.d = d, !.expFrac = @ - 1, !.significandDigit = IF d # <<>> THEN @ + 1 ELSE @]

\* Into the integer, as long as it is a double.
OneMoreFast(r, digit) ==
  IF r.i >= 2 ^ MantissaBits THEN r
  ELSE LET i == r.i * 10 + digit
       IN  [TakePush(r, 1) EXCEPT !.i = i, !.expFrac = @ - 1,
                                  !.significandDigit = IF i # 0 THEN @ + 1 ELSE @]

AsDouble(r) == IF r.useDouble THEN r ELSE [r EXCEPT !.d = DigitsOf(r.i), !.useDouble = TRUE]

HavePoint(r)       == [r EXCEPT !.decimalPosition = Len(r.buffer)]
FractionFast(r)    == IF r.useDouble THEN r ELSE AsDouble(FoldLeft(OneMoreFast, r, DigitsAhead(r)))
FractionDigits(r)  == FoldLeft(OneMoreDigit, r, DigitsAhead(r))
AfterPoint(r)      == IF IsDigit(Peek(r)) THEN FractionDigits(FractionFast(r)) ELSE Fail(r, "NumberMissFraction", r.at)
ReadFraction(r)    == CASE r.error # "None" -> r
                        [] r.error = "None" /\ Peek(r) = Point -> AfterPoint(HavePoint(Take(r, 1)))
                        [] OTHER -> HavePoint(r)

\* Slip: the point in the digits is left out of the limit.
NegativeLimit_Plain(r) == IntMax \div 10

NegativeLimit(r) == (r.expFrac + IntMax - 8) \div 10

PositiveLimit(r) == MaxExp - r.expFrac

\* The digits of an exponent up to the first that takes it over the limit.
Exponent(first, digits, limit) ==
  LET Add(a, digit) == IF a[1] > limit /\ a[2] > 0 THEN a ELSE <<a[1] * 10 + digit, a[2] + 1>>
  IN  FoldLeft(Add, <<first, 0>>, digits)

\* An exponent over its limit is the end, unless it is negative: then its digits are skipped.
WithExponent(r, minus, limit, exp) ==
  IF ~minus /\ exp[1] > limit /\ exp[2] > 0
  THEN Fail([Take(r, exp[2]) EXCEPT !.exp = exp[1]], "NumberTooBig", 0)
  ELSE [Take(r, Len(DigitsAhead(r))) EXCEPT !.exp = IF minus THEN -exp[1] ELSE exp[1]]
ReadDigitsTo(r, minus, limit) ==
  IF IsDigit(Peek(r)) THEN WithExponent(Take(r, 1), minus, limit, Exponent(Peek(r) - 48, DigitsAhead(Take(r, 1)), limit))
  ELSE Fail(r, "NumberMissExponent", r.at)
AfterE(r) ==
  CASE Peek(r) = Minus -> ReadDigitsTo(Take(r, 1), TRUE, NegativeLimit(r))
    [] Peek(r) = Plus  -> ReadDigitsTo(Take(r, 1), FALSE, PositiveLimit(r))
    [] Peek(r) \notin {Plus, Minus} -> ReadDigitsTo(r, FALSE, PositiveLimit(r))
ReadExponent(r) == IF r.error = "None" /\ Peek(r) \in LetterE THEN AfterE(Take(AsDouble(r), 1)) ELSE r

-----------------------------------------------------------------------------
(* The event                                                               *)

\* Slip: the exponent is that of the digits in the double.
Decimal_Short(r) == [digits |-> IF "full" \in r.flags THEN Trimmed(DigitsIn(r.buffer)) ELSE r.d,
                     p |-> r.exp + r.expFrac]

\* What strtod gets of the number: without full precision the double and its power of ten,
\* with it all digits, once the double is no exact integer any more.
Decimal(r) ==
  LET exact == Len(r.d) <= MaxDigits /\ NaturalOf(r.d) < 2 ^ MantissaBits
  IN  IF "full" \in r.flags /\ ~exact
      THEN [digits |-> Trimmed(DigitsIn(r.buffer)),
            p |-> r.exp - (Len(r.buffer) - r.decimalPosition)]
      ELSE [digits |-> r.d, p |-> r.exp + r.expFrac]

\* More than the largest double; without full precision the digits alone may be.
OverMax(decimal) == decimal.digits # <<>> /\ Len(decimal.digits) + decimal.p > MaxExp + 1
TooBig(r)        == OverMax(Decimal(r)) \/ ("full" \notin r.flags /\ Len(r.d) > MaxExp + 1)

Event(type, value) == [type |-> type, value |-> value]

\* ~i + 1, with the sign of the type
Negated(i, bits) == LET word == (2 ^ bits - i) % 2 ^ bits
                    IN  IF word >= 2 ^ (bits - 1) THEN word - 2 ^ bits ELSE word

Raw(r) == IF "insitu" \in r.flags THEN SubSeq(r.text, 1, r.at) ELSE r.buffer

Emit(r) ==
  CASE "asStrings" \in r.flags -> Event("Raw", Raw(r))
    [] "asStrings" \notin r.flags /\ r.useDouble ->
         Event("Double", Decimal(r) @@ [minus |-> r.minus])
    [] "asStrings" \notin r.flags /\ ~r.useDouble /\ r.special # "no" -> Event(r.special, r.minus)
    [] OTHER -> CASE r.use64bit /\ r.minus   -> Event("Int64", Negated(r.i, Uint64Bits))
                  [] r.use64bit /\ ~r.minus  -> Event("Uint64", r.i)
                  [] ~r.use64bit /\ r.minus  -> Event("Int", Negated(r.i, UintBits))
                  [] ~r.use64bit /\ ~r.minus -> Event("Uint", r.i)

\* Its reading and, if there is no error, its event.
Finish(r) ==
  CASE r.error # "None" -> [r |-> r, event |-> {}]
    [] r.error = "None" /\ "asStrings" \notin r.flags /\ r.useDouble /\ TooBig(r) ->
         [r |-> Fail(r, "NumberTooBig", 0), event |-> {}]
    [] OTHER -> [r |-> r, event |-> {Emit(r)}]

ParseNumber(text, flags) == Finish(ReadExponent(ReadFraction(ReadInteger(Reading(text, flags)))))

-----------------------------------------------------------------------------
(* Texts to read: a sign, digits before the point, digits after it, a sign *)
(* and the digits of an exponent, and the character after the number.      *)

Number(minus, int, frac, exp, after) ==
  [minus |-> minus, int |-> int, frac |-> frac, exp |-> exp, after |-> after]

Chars(digits) == [k \in 1..Len(digits) |-> 48 + digits[k]]

Optional(set, F(_)) == FoldSet(LAMBDA e, t : t \o F(e), <<>>, set)

Characters(n) ==
  (IF n.minus THEN <<Minus>> ELSE <<>>) \o Chars(n.int)
    \o Optional(n.frac, LAMBDA f : <<Point>> \o Chars(f))
    \o Optional(n.exp, LAMBDA e : <<101>> \o e[1] \o Chars(e[2])) \o n.after

\* How far the text is a number, and what is wrong there.
Fault(n) ==
  LET fail(code, m) == <<code, Len(Characters([m EXCEPT !.after = <<>>]))>>
  IN  CASE n.int = <<>> -> fail("ValueInvalid", [n EXCEPT !.frac = {}, !.exp = {}])
        [] n.int # <<>> /\ n.frac = {<<>>} -> fail("NumberMissFraction", [n EXCEPT !.exp = {}])
        [] n.int # <<>> /\ n.frac # {<<>>} /\ \E e \in n.exp : e[2] = <<>> -> fail("NumberMissExponent", n)
        [] OTHER -> <<"None", 0>>

Fraction(n) == Optional(n.frac, LAMBDA f : f)
Exponents(n) == IF n.exp = {} THEN 0
                ELSE LET e == CHOOSE e \in n.exp : TRUE
                     IN  IF e[1] = <<Minus>> THEN -NaturalOf(e[2]) ELSE NaturalOf(e[2])
Mantissa(n) == Trimmed(n.int \o Fraction(n))
Power(n)    == Exponents(n) - Len(Fraction(n))

\* The number is a natural number below 2^bits, or not below -2^bits if it is negative.
Fits(n, bits) ==
  LET v == NaturalOf(n.int) IN Len(n.int) <= 8 /\ IF n.minus THEN v <= 2 ^ bits ELSE v < 2 ^ bits

\* The type a number without fraction and exponent is read as.
TypeOf(n) ==
  CASE n.frac # {} \/ n.exp # {} -> "Double"
    [] n.frac \cup n.exp = {} /\ n.minus ->
         IF Fits(n, UintBits - 1) THEN "Int" ELSE IF Fits(n, Uint64Bits - 1) THEN "Int64" ELSE "Double"
    [] n.frac \cup n.exp = {} /\ ~n.minus ->
         IF Fits(n, UintBits) THEN "Uint" ELSE IF Fits(n, Uint64Bits) THEN "Uint64" ELSE "Double"

\* Whether a number may be refused for its size: it is over the largest double, its digits before
\* the point are and are all that is looked at, or it is a zero with a large exponent.
MayBeTooBig(n, flags) ==
  \/ Mantissa(n) # <<>> /\ Len(Mantissa(n)) + Power(n) > MaxExp + 1
  \/ "full" \notin flags /\ Len(n.int) > MaxExp + 1
  \/ Mantissa(n) = <<>> /\ Power(n) > MaxExp
MustBeTooBig(n) ==
  Mantissa(n) # <<>> /\ Len(Mantissa(n)) + Power(n) > MaxExp + 1 /\ TypeOf(n) = "Double"

\* The digits read are the leading ones of the number, enough of them, and their power of ten is
\* the right one, or both are so small that the double is zero.
Approximates(value, n) ==
  LET kept == Len(value.digits)
      p    == Power(n) + Len(Mantissa(n)) - kept
  IN  /\ value.minus = n.minus
      /\ value.digits = SubSeq(Mantissa(n), 1, kept)
      /\ kept # Len(Mantissa(n)) => kept >= MaxDigits
      /\ \/ value.p = p \/ kept = 0
         \/ value.p < -2 * MaxExp /\ p < -2 * MaxExp

-----------------------------------------------------------------------------
(* Properties                                                              *)

\* A number is refused at the character that is wrong and for what is wrong with it, or for its
\* size; otherwise it is read up to its end, as the smallest integer type that holds it or as the
\* double with its digits (reader.h, ParseNumber).
NumbersRead(n, flags) ==
  \E parsed \in {ParseNumber(Characters(n), flags)}, fault \in {Fault(n)} :
    LET r == parsed.r
    IN  CASE r.error = "NumberTooBig" -> MayBeTooBig(n, flags) /\ r.offset = 0
          [] r.error # "NumberTooBig" /\ fault[1] # "None" -> <<r.error, r.offset>> = fault
          [] OTHER -> /\ r.error = "None" /\ r.at = Len(Characters(n)) - Len(n.after)
                      /\ \E event \in parsed.event :
                           "asStrings" \notin flags =>
                             /\ ~MustBeTooBig(n)
                             /\ event.type = TypeOf(n)
                             /\ IF event.type = "Double" THEN Approximates(event.value, n)
                                ELSE event.value = IF n.minus THEN -NaturalOf(n.int) ELSE NaturalOf(n.int)

\* Whatever the digits, no exponent leaves int, neither while it is read nor with the digits of the
\* fraction added, and none that is accepted lies beyond the table of powers of ten
\* (reader.h, the limits of ParseNumber; internal/pow10.h).
ExponentsStay(n, flags) ==
  \A r \in {ParseNumber(Characters(n), flags).r} :
      /\ r.exp \in -IntMax..IntMax /\ r.exp + r.expFrac \in -(IntMax + 1)..IntMax
      /\ r.error = "None" => r.exp + r.expFrac <= MaxExp

\* With full precision what is converted is the number with all its digits, the point at its place:
\* neither the digits left out of the double nor the shift of its exponent are lost
\* (reader.h, StrtodFullPrecision's arguments).
DigitsKept(n) ==
  \A event \in ParseNumber(Characters(n), {"full"}).event :
        event.type = "Double" =>
          /\ event.value.digits = Mantissa(n)
          /\ \/ event.value.p = Power(n) \/ Mantissa(n) = <<>>
             \/ event.value.p < -2 * MaxExp /\ Power(n) < -2 * MaxExp

\* A number passed on as a string has exactly the characters it was written with, whether they were
\* copied or are left in the text (reader.h, RawNumber).
RawKept(n, flags) ==
  \A event \in ParseNumber(Characters(n), {"asStrings"} \cup flags).event :
    event.value = Characters([n EXCEPT !.after = <<>>])

\* NaN, Inf and Infinity are read as what they are, with their sign, and a word that only begins
\* like one of them is refused.  Only a fraction or an exponent after the word is read too, and
\* makes it a number that begins with zero (reader.h, ParseNumber with kParseNanAndInfFlag).
WordsRead(minus, word, after) ==
  LET signed == IF minus THEN <<Minus>> ELSE <<>>
      body   == word \o after
      named  == {w \in {NaN, Inf, Inf \o Inity} : IsPrefix(w, body)}
      found  == CHOOSE w \in named : \A v \in named : Len(v) <= Len(w)
      next   == IF Len(body) > Len(found) THEN body[Len(found) + 1] ELSE 0
      type   == IF found = NaN THEN "NaN" ELSE "Inf"
  IN  \E parsed \in {ParseNumber(signed \o body, {"nanInf"})} :
      IF named = {} \/ (found = Inf /\ next = Inity[1]) THEN parsed.r.error = "ValueInvalid"
      ELSE IF next \in {Point} \cup LetterE
      THEN \A event \in parsed.event : event.type = "Double" /\ event.value.minus = minus
      ELSE parsed.event = {Event(type, minus)} /\ parsed.r.at = Len(signed) + Len(found)
=============================================================================
