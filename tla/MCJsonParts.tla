---------------------------- MODULE MCJsonParts ----------------------------
(***************************************************************************)
(* The parts of the JSON library below its reader and writer, each a unit  *)
(* of this instance.  Three of them are machines: a client calls the       *)
(* operations of a document, a memory pool or a stream in any order.  The  *)
(* others are functions: a state is an input, drawn from a set with all    *)
(* boundaries.  Widths are scaled, and so are the limits that depend on    *)
(* them.                                                                   *)
(***************************************************************************)
EXTENDS JsonParts, TLC, Integers, SequencesExt, FiniteSetsExt

CONSTANT Parts  \* the units that are checked

\* x of JsonMemory is the state of a machine, or of a function <<>> and <<input>>.
vars == <<unit, x>>

Document == INSTANCE JsonDomTrees WITH dom <- x
Strings == INSTANCE JsonStrings
ByteStreams == INSTANCE JsonByteStreams
Numbers == INSTANCE JsonNumber WITH UintBits <- 5, Uint64Bits <- 15, MantissaBits <- 6, MaxDigits <- 3,
                                    MaxExp <- 9, IntMax <- 507
Digits  == INSTANCE JsonDigits WITH Bits <- 3, WideBits <- 6, FloatBits <- 2, MantissaBits <- 4
Big     == INSTANCE JsonBigInteger WITH HalfBits <- 5, LimbDigits <- 3, WidePow5 <- 4, HalfPow5 <- 2
Float   == INSTANCE JsonFloat WITH SigBits <- 4, Bias <- 7, Q <- 15, MinCached <- 12, CachedStep <- 3,
                                   ExactDigits <- 4, ExactPower <- 2, DisguisedPower <- 2,
                                   LeastPower <- -4, MostPower <- 3, KeptDigits <- 11, RoundedPlaces <- 3,
                                   HalfBits <- 5, LimbDigits <- 3, WidePow5 <- 4, HalfPow5 <- 2

Pointer == INSTANCE JsonPointer WITH IndexBits <- 5

UpTo(n, S)  == UNION {[1..k -> S] : k \in 0..n}
Ones(n, of) == [k \in 1..n |-> of]

-----------------------------------------------------------------------------
(* Texts                                                                   *)

\* Blocks of four characters: one or two that stand out among others that do not.
LongRows == {[i \in 1..n |-> IF i = k THEN c ELSE IF i = l THEN d ELSE fill] :
               n \in {5, 9, 13}, k \in {1, 4, 7}, l \in {3, 9, 13}, c, d \in Scan!Kind, fill \in {"tab", "high"}}
ShortAndLongRows == UpTo(2, Scan!Kind) \cup LongRows

\* Bytes at the limits of the ranges of UTF-8, and code points at the limits of its lengths.
Tails  == {65, 128, 143, 144, 159, 160, 191, 192}
Leads  == Tails \cup {193, 194, 223, 224, 225, 236, 237, 238, 239, 240, 241, 243, 244, 245}
Quads  == {<<a>> \o t : a \in Leads, t \in [1..3 -> Tails]}
Marked == {1, 9, 31, 34, 65, 92, 127, 128, 2047, 2048, 55295, 57344, 65535, 65536, 1114111}
ShortTexts == UpTo(2, Marked)

Good(chars, points) == Strings!Piece(chars, points, "None")
Bad(chars, error)   == Strings!Piece(chars, <<>>, error)
U(n)                == <<92, 117>> \o Strings!Hex4(n)

\* Pieces of a string with the code points they are read as, or the error.
Pieces ==
  {Good(<<97>>, <<97>>), Good(<<195, 169>>, <<233>>), Good(<<240, 157, 132, 158>>, <<119070>>),
   Good(<<92, 110>>, <<10>>), Good(<<92, 47>>, <<47>>), Good(U(0), <<0>>),
   Good(<<92, 117, 48, 48, 101, 57>>, <<233>>), Good(U(8364), <<8364>>),
   Good(U(55348) \o U(56606), <<119070>>), Good(U(56320), <<56320>>),
   Bad(U(55348) \o <<97>>, "StringUnicodeSurrogateInvalid"),
   Bad(U(55348) \o U(55348), "StringUnicodeSurrogateInvalid"),
   Bad(U(55348) \o <<92, 110>>, "StringUnicodeSurrogateInvalid"),
   Bad(U(55348) \o <<92, 117, 68, 71>>, "StringUnicodeEscapeInvalidHex"),
   Bad(<<92, 117, 103>>, "StringUnicodeEscapeInvalidHex"), Bad(<<92, 120>>, "StringEscapeInvalid"),
   Bad(<<31>>, "StringInvalidEncoding"), Bad(<<0>>, "StringMissQuotationMark")}

-----------------------------------------------------------------------------
(* Numbers                                                                 *)

\* Digits of integers at the limits of the types and of a double, and beyond.
IntegerDigits == {<<>>, <<0>>} \cup {<<1>> \o Ones(z, 0) : z \in {9, 10}} \cup {Ones(n, 9) : n \in {10, 11}}
  \cup {Numbers!DigitsOf(n) : n \in {7, 15, 16, 31, 32, 63, 64, 16383, 16384, 16385, 32767, 32768}}
Fractions == {{}} \cup {{f} : f \in {<<>>, <<0>>, <<5>>, <<1, 2, 3, 4>>, <<0, 0, 0, 0, 0, 1, 2, 3, 4>>, Ones(11, 0), Ones(9, 9)}}
Exponents == {{}} \cup {{<<sign, digits>>} :
  sign \in {<<>>, <<43>>, <<45>>},
  digits \in {<<>>, <<0>>, <<9>>, <<0, 0, 1, 2>>, <<1, 0>>, <<1, 1>>, <<1, 9>>, <<4, 9, 9>>, <<5, 0, 9>>, <<9, 9, 9, 9>>}}
Written == {Numbers!Number(minus, int, frac, exp, <<>>) :
              minus \in BOOLEAN, int \in IntegerDigits, frac \in Fractions, exp \in Exponents}
Words == {<<minus, SubSeq(w, 1, Min({n, Len(w)})), after>> :
            minus \in BOOLEAN, n \in 1..8, w \in {Numbers!NaN, Numbers!Inf \o Numbers!Inity},
            after \in {<<>>, <<44>>, <<78>>, <<105>>, <<121>>, <<46, 53>>, <<46>>, <<101, 53>>}}

\* n digits: the first, one other, and the rest.
Nth(n, first, k, other, rest) == [i \in 1..n |-> IF i = 1 THEN first ELSE IF i = k THEN other ELSE rest]
Rounds == {Digits!Largest(type, minus) : type \in Digits!Types, minus \in BOOLEAN} \cup {<<d>> : d \in 0..9}
  \cup {Nth(n, first, k, other, rest) :
          n \in 1..20, k \in {2, 3, 5, 9, 13, 20}, first \in {1, 4, 9}, other \in {0, 7}, rest \in {0, 9}}

Values == {<<v, w>> : v \in -32..63, w \in {-32, -1, 0, 1, 31, 32, 63}} \cup {<<v, v + d>> : v \in -32..-1, d \in {0, 64}}
            \cup {<<v, v>> : v \in 0..63}

\* Numbers about the limits of limbs, and with limbs of ones.
Naturals == UNION {{2 ^ k - 1, 2 ^ k, 2 ^ k + 1} : k \in {0, 1, 4, 5, 9, 10, 11, 15, 19, 20, 21, 29}}
              \cup {1234567, 1048575 - 1024, 2 ^ 21 - 1024, 999999999}

\* The digits of half a number that ends in 0.
Halved(digits) ==
  LET Step(a, d) == <<Append(a[1], (10 * a[2] + d) \div 2), (10 * a[2] + d) % 2>>
  IN  FoldLeft(Step, <<<<>>, 0>>, Append(digits, 0))[1]

\* Half way from a double to the next, exactly; just above and just below it.
Tie(u) == FoldLeft(LAMBDA digits, i : Halved(digits), Float!DigitsOf(Float!Units(u) + Float!Units(u + 1)), Ones(11, 0))
About(tie) == {tie, <<Append(tie[1], 1), tie[2] - 1>>, <<Append(Front(tie[1]), 4) \o Ones(4, 9), tie[2] - 4>>}
Reals == UNION {About(Float!Trimmed(Tie(u), -11)) : u \in 0..Float!Infinity - 1}
  \cup {<<Float!DigitsOf(n) \o rest, e>> : n \in {3275, 3276, 32766, 32767, 9999} \cup 121..130,
          rest \in {<<>>, <<6>>, <<4, 9>>, <<0, 0, 0, 1>>, Ones(5, 9)}, e \in -9..1}
  \cup {<<Float!DigitsOf(n), e>> : n \in 1..99, e \in -5..2}

Shown == {<<[i \in 1..n |-> IF i = z THEN 0 ELSE 9], k, most>> :
            n \in {1, 2, 5, 17}, z \in {2, 3, 4}, k \in -30..25 \cup {-324, 300}, most \in {1, 2, 5, 324}}

-----------------------------------------------------------------------------
(* Pointers                                                                *)

Part(chars, put, error, at) == [chars |-> chars, put |-> put, error |-> error, at |-> at]
PartOf(chars, put) == Part(chars, put, "None", 0)

Common == {PartOf(<<97>>, <<97>>), PartOf(<<48>>, <<48>>), PartOf(<<126, 48>>, <<126>>), PartOf(<<126, 49>>, <<47>>),
           PartOf(<<47>>, Pointer!NextToken), Part(<<126, 97>>, <<>>, "InvalidEscape", 1)}
\* "%20" and bytes above 127 are characters of a text, but not of a fragment.
Plain    == Common \cup {PartOf(<<37, 50, 48>>, <<37, 50, 48>>), PartOf(<<195, 169>>, <<195, 169>>)}
Fragment == Common \cup
  {PartOf(<<37, 51, 48>>, <<48>>), PartOf(<<37, 50, 70>>, <<47>>), PartOf(<<37, 67, 51, 37, 97, 57>>, <<195, 169>>),
   PartOf(<<37, 55, 69, 49>>, <<47>>), PartOf(<<37, 70, 48, 37, 57, 68, 37, 56, 52, 37, 57, 69>>, <<240, 157, 132, 158>>),
   Part(<<37, 55, 69, 97>>, <<>>, "InvalidEscape", 3), Part(<<195, 169>>, <<>>, "CharacterMustPercentEncode", 0),
   Part(<<37, 67, 51, 97>>, <<>>, "InvalidPercentEncoding", 0), Part(<<37, 103, 48>>, <<>>, "InvalidPercentEncoding", 0)}
\* What is wrong at the end of a text only.
Cut      == {<<>>, <<Part(<<126>>, <<>>, "InvalidEscape", 1)>>}
CutOff   == Cut \cup {<<Part(<<37, 55>>, <<>>, "InvalidPercentEncoding", 0)>>}
Pointers == {<<FALSE, p \o c>> : p \in UpTo(3, Plain), c \in Cut} \cup {<<TRUE, p \o c>> : p \in UpTo(3, Fragment), c \in CutOff}

Indices == UpTo(3, 48..57) \cup UpTo(2, {48, 49, 45, 97, 58})

TokenNames == {<<>>, <<97>>, <<97, 98>>, <<48>>, <<49, 48>>, <<47, 126>>, <<37>>, <<0>>, <<195, 169>>, <<195>>}
Invalid    == [tokens |-> <<>>, error |-> "InvalidEscape", offset |-> 2]
Some       == {Pointer!Named(n) : n \in UpTo(1, TokenNames) \cup {<<<<97>>, <<48>>>>, <<<<48>>, <<97>>>>}} \cup {Invalid}

\* Trees of two levels, and tokens that fit them and that do not; one with the name of a number.
Keys      == {<<97>>, <<49>>, <<45>>}
Scalar    == <<"scalar", <<>>>>
ListsOf(S) == {<<"array", [i \in DOMAIN l |-> <<l[i]>>]>> : l \in UpTo(2, S)}
MapsOf(S)  == {<<"object", [i \in DOMAIN l |-> <<k[i], l[i]>>]>> : k \in [1..2 -> Keys], l \in UpTo(2, S)}
Flat      == ListsOf({Scalar}) \cup MapsOf({Scalar})
Three     == {<<"array", [i \in 1..3 |-> <<<<"scalar", <<i>>>>>>]>>,
              <<"object", [i \in 1..3 |-> <<(<<<<97>>, <<49>>, <<45>>>>)[i], <<"scalar", <<i>>>>>>]>>}
Trees     == {Pointer!Null} \cup Three \cup Flat \cup ListsOf(Flat) \cup MapsOf({Scalar})
Steps     == {Pointer!Token(n, Pointer!IndexOf(n)) : n \in Keys \cup {<<48>>, <<51>>}} \cup {Pointer!Token(<<48>>, Pointer!InvalidIndex)}

-----------------------------------------------------------------------------
Inputs(u) ==
  CASE u = "pieces" -> UpTo(3, Pieces) [] u = "numbers" -> Written [] u = "words" -> Words
    [] u = "digits" -> Rounds      [] u = "values" -> Values     [] u = "limbs" -> Naturals \X Naturals
    [] u = "decimals" -> UpTo(9, {0, 9}) \ {<<>>}                [] u = "doubles" -> 1..Float!Infinity - 1
    [] u = "pointers" -> Pointers [] u = "indices" -> Indices    [] u = "names" -> UpTo(2, TokenNames)
    [] u = "orders" -> Some \X Some [] u = "paths" -> Trees \X UpTo(2, Steps)
    [] u = "reals" -> Reals        [] u = "shown" -> Shown

OfJsonParts == {"dom", "pool", "streams"} \cup DOMAIN InputsOf

Init == \/ unit \in Parts /\ PartsInit
        \/ unit \in Parts \ OfJsonParts /\ x = <<>>

Next == \/ PartsNext
        \/ UNCHANGED unit /\ unit \notin OfJsonParts /\ x = <<>> /\ \E i \in Inputs(unit) : x' = <<i>>

Spec == Init /\ [][Next]_vars

Perms == Permutations(Slots)

-----------------------------------------------------------------------------
(* A document                                                              *)

\* Two values without doubled names are equal when they are the same tree, members in any order
\* (document.h, operator==).
DomCompares == unit = "dom" => Document!Comparable

\* A call leaves of the trees of all values what JsonTrees promises: a moved value is null, other
\* values and the order of what stays are as before (document.h, the calls of GenericValue).
DomKeepsTrees == [][unit = "dom" => \E f \in {Document!Forest}, g \in {Document!Forest'} : f = g \/ Document!Trees!Step(f, g)]_vars

-----------------------------------------------------------------------------
(* Texts                                                                   *)

\* A text that begins like JSON is read from the bytes it was written as, its encoding given or
\* detected, with a mark or without (encodedstream.h, DetectType).
BytesComeBack == Of("points") => ByteStreams!BytesComeBack(x[1])

\* A written string is read as it was, from any encoding into any (reader.h, ParseStringToStream;
\* writer.h, WriteString).
StringsComeBack == Of("points") => Strings!StringsComeBack(x[1])

\* No string is written past the room made for it (writer.h, PutReserve of WriteString).
RoomSuffices == Of("points") => Strings!RoomSuffices(x[1])

\* A text of pieces is read up to the first error, which has its offset, in place as otherwise
\* (reader.h, ParseStringToStream).
PiecesRead == Of("pieces") => Strings!PiecesRead(x[1])

\* A text survives writing and reading, and what is no text is refused
\* where it goes wrong.
TextsSurvive == BytesComeBack /\ StringsComeBack /\ RoomSuffices /\ PiecesRead

-----------------------------------------------------------------------------
(* Numbers                                                                 *)

\* A number is read whole, as the smallest type that holds it, or refused for what is wrong
\* (reader.h, ParseNumber).
NumbersRead == Of("numbers") => \A flags \in {{}, {"full"}, {"asStrings"}} : Numbers!NumbersRead(x[1], flags)

\* No exponent overflows int, and none that is accepted is beyond the table of powers of ten
\* (reader.h, ParseNumber; internal/pow10.h).
ExponentsStay == Of("numbers") => \A flags \in {{}, {"full"}} : Numbers!ExponentsStay(x[1], flags)

\* With full precision all digits of a number are converted, its point at its place (reader.h,
\* ParseNumber with kParseFullPrecisionFlag).
DigitsKept == Of("numbers") => Numbers!DigitsKept(x[1])

\* A number passed on as a string has the characters it was written with (reader.h, RawNumber).
RawKept == Of("numbers") => \A flags \in {{}, {"insitu"}} : Numbers!RawKept(x[1], flags)

\* NaN, Inf and Infinity are read with their sign, and words that begin like them are refused
\* (reader.h, ParseNumber with kParseNanAndInfFlag).
WordsRead == Of("words") => Numbers!WordsRead(x[1][1], x[1][2], x[1][3])

\* A number is read as what it was written for, up to the ends of all types.
NumbersAreRead == NumbersRead /\ ExponentsStay /\ DigitsKept /\ RawKept /\ WordsRead

\* Integers are written with their digits and within the buffer of their type (internal/itoa.h).
DigitsWritten == Of("digits") => Digits!DigitsWritten(x[1])

\* A value answers to exactly the types that hold its number and gives it back as each of them
\* (document.h, constructors and getters).
NumbersKeepValue == Of("values") => Digits!NumbersKeepValue(x[1][1])

\* A number is called lossless as a double or float exactly when rounding leaves it as it is
\* (document.h, IsLosslessDouble, IsLosslessFloat).
LosslessIsExact == Of("values") => Digits!LosslessIsExact(x[1][1])

\* Numbers of any types are equal when they are the same, or have the same 64 bits
\* (document.h, operator==).
EqualityIsOfNumbers == Of("values") => Digits!EqualityIsOfNumbers(x[1][1], x[1][2])

\* A number keeps its value in a document and in a text, whatever type it is asked for.
NumbersAreKept == DigitsWritten /\ NumbersKeepValue /\ LosslessIsExact /\ EqualityIsOfNumbers

\* No number changes from a text to a value, in it, and back to a text (reader.h, document.h, itoa.h).
NumbersSurvive == NumbersAreRead /\ NumbersAreKept

\* The operations on limbs are those on numbers, carries and shifts over limbs included
\* (internal/biginteger.h).
LimbsAreNumbers == Of("limbs") => Big!LimbsAreNumbers(x[1][1], x[1][2] % 1024, x[1][2] % 19)

\* A difference is exact unless a borrow meets a limb of ones (internal/biginteger.h, Difference).
DifferenceIsExact == Of("limbs") => Big!DifferenceIsExact(x[1][1], x[1][2])

\* A big integer is the number of its digits (internal/biginteger.h, the constructor from decimals).
DecimalsAreNumbers == Of("decimals") => Big!DecimalsAreNumbers(x[1])

\* With full precision a number is read as the double nearest to it (internal/strtod.h,
\* StrtodFullPrecision), but for the cases JsonFloat names.
StrtodRounds == Of("reals") => Float!StrtodRounds(x[1][1], x[1][2])

\* What 64 bits are said to decide, they do (internal/strtod.h, StrtodDiyFp).
ErrorIsBounded == Of("reals") => Float!ErrorIsBounded(x[1][1], x[1][2])

\* Strtod rounds right, on big integers that compute right and errors that are bounded.
ReadsNearestDouble ==
  LimbsAreNumbers /\ DifferenceIsExact /\ DecimalsAreNumbers /\ StrtodRounds /\ ErrorIsBounded

\* The digits written for a double are read back as this double (internal/dtoa.h, Grisu2).
GrisuReadsBack == Of("doubles") => Float!GrisuReadsBack(x[1], 3)

\* The text of a double is a JSON number of its value, cut off at the places asked for
\* (internal/dtoa.h, Prettify).
PrettyDenotes == Of("shown") => Float!PrettyDenotes(x[1][1], x[1][2], x[1][3])

\* A double is written as a text of its value that is read as it again.
DoublesAreShown == GrisuReadsBack /\ PrettyDenotes

\* No double is lost between a text and memory, in either direction (internal/strtod.h, dtoa.h).
DoublesSurvive == ReadsNearestDouble /\ DoublesAreShown

-----------------------------------------------------------------------------
(* Pointers                                                                *)

\* A pointer is read by its tokens from a text or a fragment, its escapes undone, or refused for the
\* first thing that is wrong, at its offset (pointer.h, Parse).
PointersRead == Of("pointers") => Pointer!PointersRead(x[1][1], x[1][2])

\* A token is an index exactly when it is a number below the largest one, but that a number beyond
\* the width may be taken for its remainder (pointer.h, Parse).
IndexDenotes == Of("indices") => Pointer!IndexDenotes(x[1])

\* What is written for a pointer is read as it (pointer.h, Stringify).
PointersComeBack == Of("names") => Pointer!PointersComeBack(x[1])

\* Pointers have a total order, those that are not valid last (pointer.h, operator<).
PointersOrdered == Of("orders") => Pointer!PointersOrdered(x[1][1], x[1][2], Some)

\* A value that is set is found again and nothing is lost beside it; what is erased is gone, and
\* nothing else (pointer.h, Create, Get, Set, Swap, GetWithDefault, Erase).
PathsKeep == Of("paths") => /\ Pointer!CreateKeeps(x[1][1], x[1][2], <<"scalar", <<1>>>>)
                            /\ Pointer!EraseKeeps(x[1][1], x[1][2])

\* A pointer that is written, read and followed leads to one value, which it keeps.
PointersLead == PointersRead /\ IndexDenotes /\ PointersComeBack /\ PointersOrdered /\ PathsKeep

=============================================================================
