-------------------------- MODULE JsonByteStreams --------------------------
(***************************************************************************)
(* The byte streams of the JSON library (rapidjson/encodedstream.h,        *)
(* memorystream.h): the units of an encoding as bytes, with a byte order   *)
(* mark or without, the encoding given or detected.                        *)
(***************************************************************************)
EXTENDS JsonEncodings, FiniteSetsExt, SequencesExt

UTFType == {"UTF8", "UTF16LE", "UTF16BE", "UTF32LE", "UTF32BE"}

UnitsOf(type) == CASE type = "UTF8" -> "UTF8" [] type \in {"UTF16LE", "UTF16BE"} -> "UTF16" [] OTHER -> "UTF32"

UnitBytes(type) == CASE type = "UTF8" -> 1 [] type \in {"UTF16LE", "UTF16BE"} -> 2 [] OTHER -> 4

\* UTF16BE::Put and the others: the bytes of a unit.
PutUnit(type, u) ==
  LET little == [i \in 1..UnitBytes(type) |-> (u \div 256 ^ (i - 1)) % 256]
  IN  IF type \in {"UTF16BE", "UTF32BE"} THEN Reverse(little) ELSE little

PutBOM(type) == IF type = "UTF8" THEN <<239, 187, 191>> ELSE PutUnit(type, 65279)

TakeUnit(type, in) ==
  LET bytes  == Taken(in, UnitBytes(type))
      little == IF type \in {"UTF16BE", "UTF32BE"} THEN Reverse(bytes) ELSE bytes
  IN  Decoded(TRUE, FoldRight(LAMBDA b, v : v * 256 + b, little, 0), Skip(in, UnitBytes(type)))

\* The first unit that is not of the mark.  A part of the mark of UTF-8 is passed over too.
TakeBOM(type, in) ==
  LET first == TakeUnit(type, in)
      same  == {n \in 0..3 : Taken(in, n) = SubSeq(PutBOM("UTF8"), 1, n)}
  IN  CASE type = "UTF8"                       -> TakeUnit("UTF8", Skip(in, Max(same)))
        [] type # "UTF8" /\ first.cp = 65279   -> TakeUnit(type, first.in)
        [] type # "UTF8" /\ first.cp # 65279   -> first

\* EncodedInputStream: all units to the end, with the one the constructor took.
RECURSIVE Drained(_, _)
Drained(type, d) == IF d.in.at > Len(d.in.src) THEN <<d.cp>>
                    ELSE <<d.cp>> \o Drained(type, TakeUnit(type, d.in))

EncodedInput(type, bytes) == Drained(type, TakeBOM(type, Stream(bytes)))

\* EncodedInputStream<UTF8, MemoryStream>: each byte of the mark is looked for on its own.
MemoryInput(bytes) ==
  FoldLeft(LAMBDA rest, b : IF rest # <<>> /\ Head(rest) = b THEN SubSeq(rest, 2, Len(rest)) ELSE rest,
           bytes, PutBOM("UTF8"))

\* EncodedOutputStream, AutoUTFOutputStream
EncodedOutput(type, putBOM, units) ==
  (IF putBOM THEN PutBOM(type) ELSE <<>>) \o FlattenSeq([i \in DOMAIN units |-> PutUnit(type, units[i])])

\* AutoUTFInputStream::DetectType looks at the four first bytes, when there are as many.
Marks == <<"UTF32BE", "UTF32LE", "UTF16BE", "UTF16LE", "UTF8">>

Nulls(four) == {i \in 1..4 : four[i] = 0}

Pattern(four, given) ==
  CASE Nulls(four) = {1, 2, 3} -> "UTF32BE" [] Nulls(four) = {1, 3} -> "UTF16BE"
    [] Nulls(four) = {2, 3, 4} -> "UTF32LE" [] Nulls(four) = {2, 4} -> "UTF16LE"
    [] Nulls(four) = {} -> "UTF8" [] OTHER -> given

\* Slip: the marks of two bytes are looked for first.
DetectType_ShortFirst(bytes, given) ==
  LET marks  == <<"UTF16BE", "UTF16LE", "UTF32BE", "UTF32LE", "UTF8">>
      marked == {k \in DOMAIN marks : IsPrefix(PutBOM(marks[k]), bytes)}
  IN  IF Len(bytes) < 4 THEN [type |-> given, from |-> 0]
      ELSE IF marked # {} THEN [type |-> marks[Min(marked)], from |-> Len(PutBOM(marks[Min(marked)]))]
      ELSE [type |-> Pattern(SubSeq(bytes, 1, 4), given), from |-> 0]

DetectType(bytes, given) ==
  LET marked == {k \in DOMAIN Marks : IsPrefix(PutBOM(Marks[k]), bytes)}
  IN  IF Len(bytes) < 4 THEN [type |-> given, from |-> 0]
      ELSE IF marked # {} THEN [type |-> Marks[Min(marked)], from |-> Len(PutBOM(Marks[Min(marked)]))]
      ELSE [type |-> Pattern(SubSeq(bytes, 1, 4), given), from |-> 0]

InputAs(d, bytes)       == Drained(d.type, TakeUnit(d.type, Skip(Stream(bytes), d.from)))
AutoInput(bytes, given) == InputAs(DetectType(bytes, given), bytes)

-----------------------------------------------------------------------------
(* Properties                                                              *)

\* A text that begins with ASCII, as all of JSON do, is read again from the bytes it was written
\* as; its encoding is detected by a mark, or if the second character is ASCII too.
BytesComeBack(text) ==
  \A type \in UTFType, given \in UTFType, putBOM \in BOOLEAN :
    LET units == FlattenSeq([i \in DOMAIN text |-> Encode(UnitsOf(type), text[i])])
        bytes == EncodedOutput(type, putBOM, units)
        ascii == Len(text) > 1 /\ text[2] \in 1..127
        whole == Len(bytes) >= 4 \/ type = given
    IN  text # <<>> /\ text[1] \in 1..127 =>
          /\ EncodedInput(type, bytes) = units
          /\ type = "UTF8" => MemoryInput(bytes) = units
          /\ (putBOM \/ ascii) /\ whole => AutoInput(bytes, given) = units

==============================================================================
