---------------------------- MODULE JsonEncodings ----------------------------
(***************************************************************************)
(* The encodings of the JSON library (rapidjson/encodings.h).  A unit is a *)
(* number; an input is [src, at], with a nul behind its end, where it does *)
(* not move.  The byte streams in these encodings are in JsonByteStreams.  *)
(***************************************************************************)
EXTENDS Integers, Sequences

Encodings == {"UTF8", "UTF16", "UTF32", "ASCII"}

Stream(units) == [src |-> units, at |-> 1]

Peek(in) == IF in.at <= Len(in.src) THEN in.src[in.at] ELSE 0

Skip(in, n) == [in EXCEPT !.at = IF @ + n > Len(in.src) + 1 THEN Len(in.src) + 1 ELSE @ + n]

Surrogate(u)     == 55296 <= u /\ u <= 57343      \* D800..DFFF
HighSurrogate(u) == 55296 <= u /\ u <= 56319
LowSurrogate(u)  == 56320 <= u /\ u <= 57343
Scalar(c)        == c \in Nat /\ c <= 1114111 /\ ~Surrogate(c)

-----------------------------------------------------------------------------
(* Encode: the units of a code point                                       *)

Trail(c) == 128 + (c % 64)

EncodeUTF8(c) ==
  IF c <= 127 THEN <<c>>
  ELSE IF c <= 2047 THEN <<192 + c \div 64, Trail(c)>>
  ELSE IF c <= 65535 THEN <<224 + c \div 4096, Trail(c \div 64), Trail(c)>>
  ELSE <<240 + c \div 262144, Trail(c \div 4096), Trail(c \div 64), Trail(c)>>

\* Slip: the offset of the pairs is not taken off.
EncodeUTF16_Offset(c) ==
  IF c <= 65535 THEN <<c>> ELSE <<55296 + ((c \div 1024) % 1024), 56320 + (c % 1024)>>

EncodeUTF16(c) ==
  IF c <= 65535 THEN <<c>>
  ELSE LET v == c - 65536 IN <<55296 + v \div 1024, 56320 + (v % 1024)>>

Encode(enc, c) ==
  CASE enc = "UTF8" -> EncodeUTF8(c) [] enc = "UTF16" -> EncodeUTF16(c) [] OTHER -> <<c>>

-----------------------------------------------------------------------------
(* Decode and Validate                                                     *)

\* UTF8::GetRange: what a byte may be.
GetRange(c) ==
  CASE c \in 0..127 -> 0    [] c \in 128..143 -> 16 [] c \in 144..159 -> 64
    [] c \in 160..191 -> 32 [] c \in 194..223 -> 2  [] c = 224 -> 10
    [] c \in (225..239) \ {237} -> 3                [] c = 237 -> 4
    [] c = 240 -> 11        [] c \in 241..243 -> 6  [] c = 244 -> 5
    [] OTHER -> 8

AnyTail == {16, 32, 64}

\* Slip: any byte may follow E0.
Tails_Overlong(type) ==
  CASE type = 2 -> <<AnyTail>> [] type \in {3, 4, 10} -> <<AnyTail, AnyTail>>
    [] type \in {5, 6, 11} -> <<AnyTail, AnyTail, AnyTail>> [] OTHER -> <<>>

\* The bytes taken behind the first one, and what each may be.
Tails(type) ==
  CASE type = 2  -> <<AnyTail>>          [] type = 3  -> <<AnyTail, AnyTail>>
    [] type = 4  -> <<{16, 64}, AnyTail>> [] type = 5  -> <<{16}, AnyTail, AnyTail>>
    [] type = 6  -> <<AnyTail, AnyTail, AnyTail>>
    [] type = 10 -> <<{32}, AnyTail>>    [] type = 11 -> <<{32, 64}, AnyTail, AnyTail>>
    [] OTHER     -> <<>>

Taken(in, n) == [i \in 1..n |-> Peek(Skip(in, i - 1))]

\* One more than 0xFF >> type, of the types that bytes follow.
LeadBits(type) == CASE type = 2 -> 64 [] type = 3 -> 32 [] type = 4 -> 16 [] type = 5 -> 8 [] type = 6 -> 4 [] OTHER -> 1

\* The bits of a first byte and six of each byte behind it.
Joined(lead, bytes) ==
  CASE Len(bytes) = 0 -> lead
    [] Len(bytes) = 1 -> (lead * 64) + (bytes[1] % 64)
    [] Len(bytes) = 2 -> (((lead * 64) + (bytes[1] % 64)) * 64) + (bytes[2] % 64)
    [] Len(bytes) = 3 -> (((((lead * 64) + (bytes[1] % 64)) * 64) + (bytes[2] % 64)) * 64) + (bytes[3] % 64)

Decoded(ok, c, in) == [ok |-> ok, cp |-> c, in |-> in]

\* A first byte of the type, and the bytes behind it.
DecodeTails(in, type, tails) ==
  LET bytes == Taken(Skip(in, 1), Len(tails))
  IN  Decoded(tails # <<>> /\ \A i \in DOMAIN tails : GetRange(bytes[i]) \in tails[i],
              Joined(Peek(in) % LeadBits(type), bytes),
              Skip(in, 1 + Len(tails)))

DecodeUTF8(in) ==
  IF Peek(in) < 128 THEN Decoded(TRUE, Peek(in), Skip(in, 1))
  ELSE DecodeTails(in, GetRange(Peek(in)), Tails(GetRange(Peek(in))))

DecodeUTF16(in) ==
  LET c == Peek(in)
      d == Peek(Skip(in, 1))
  IN  CASE ~Surrogate(c)    -> Decoded(TRUE, c, Skip(in, 1))
        [] HighSurrogate(c) -> Decoded(LowSurrogate(d), ((c % 1024) * 1024) + (d % 1024) + 65536, Skip(in, 2))
        [] LowSurrogate(c)  -> Decoded(FALSE, 0, Skip(in, 1))

Decode(enc, in) ==
  CASE enc = "UTF8"  -> DecodeUTF8(in)
    [] enc = "UTF16" -> DecodeUTF16(in)
    [] enc = "UTF32" -> Decoded(Peek(in) <= 1114111, Peek(in), Skip(in, 1))
    [] enc = "ASCII" -> Decoded(Peek(in) <= 127, Peek(in), Skip(in, 1))

Put(units, in) == [put |-> units, in |-> in]

\* What one call puts, {} if the source is not well formed.
Validate(enc, in) ==
  LET n == CASE enc = "UTF8"  -> 1 + Len(Tails(GetRange(Peek(in))))
             [] enc = "UTF16" -> IF HighSurrogate(Peek(in)) THEN 2 ELSE 1
             [] OTHER         -> 1
  IN  IF Decode(enc, in).ok THEN {Put(Taken(in, n), Skip(in, n))} ELSE {}

\* Transcoder: between one encoding and itself a unit is copied unseen.
Transcode(source, target, in) ==
  IF source = target THEN {Put(<<Peek(in)>>, Skip(in, 1))}
  ELSE {Put(Encode(target, d.cp), d.in) : d \in {d \in {Decode(source, in)} : d.ok}}

TranscoderValidate(source, target, in) ==
  IF source = target THEN Validate(source, in) ELSE Transcode(source, target, in)

-----------------------------------------------------------------------------
(* Properties.  `bytes` is any sequence of four, `text` some scalar values. *)

\* The first bytes are decoded exactly when they are the encoding of a scalar value.
DecodesExactly(bytes) ==
  LET d == DecodeUTF8(Stream(bytes))
      n == d.in.at - 1
  IN  /\ d.ok => Scalar(d.cp) /\ EncodeUTF8(d.cp) = SubSeq(bytes, 1, n)
      /\ ~d.ok => \A k \in 1..4 :
           LET lead == CASE k = 1 -> 128 [] k = 2 -> 32 [] k = 3 -> 16 [] k = 4 -> 8
               v    == Joined(bytes[1] % lead, SubSeq(bytes, 2, k))
           IN  ~(Scalar(v) /\ EncodeUTF8(v) = SubSeq(bytes, 1, k))

\* What is encoded is decoded again, and copied by Validate.
UnitsComeBack(text) ==
  \A i \in DOMAIN text, enc \in Encodings :
    LET units == Encode(enc, text[i])
    IN  enc # "ASCII" \/ text[i] < 128 =>
          /\ Decode(enc, Stream(units)) = Decoded(TRUE, text[i], [src |-> units, at |-> Len(units) + 1])
          /\ Validate(enc, Stream(units)) = {Put(units, [src |-> units, at |-> Len(units) + 1])}

=============================================================================
