----------------------------- MODULE JsonStrings -----------------------------
(***************************************************************************)
(* Strings of the JSON library as they are read (reader.h, ParseString     *)
(* with its helpers), to a stack or in place, and as they are written      *)
(* (writer.h, WriteString).  The loops that pass over what needs no escape *)
(* many characters at a time are in JsonScan.                              *)
(***************************************************************************)
EXTENDS JsonEncodings, FiniteSetsExt, SequencesExt

Nul == 0  Quote == 34  Backslash == 92  LetterU == 117

\* The escape tables: the character that is written for one, and the one it stands for.
Letter == [c \in {8, 9, 10, 12, 13, 34, 92} |->
             CASE c = 8 -> 98 [] c = 9 -> 116 [] c = 10 -> 110 [] c = 12 -> 102 [] c = 13 -> 114
               [] OTHER -> c]

EscapeOf == [e \in {34, 47, 92, 98, 102, 110, 114, 116} |->
               IF e = 47 THEN 47 ELSE CHOOSE c \in DOMAIN Letter : Letter[c] = e]

HexDigit(n) == IF n < 10 THEN 48 + n ELSE 55 + n
Hex4(c)     == [i \in 1..4 |-> HexDigit((c \div 16 ^ (4 - i)) % 16)]

HexValue(c) == CASE c \in 48..57 -> c - 48 [] c \in 65..70 -> c - 55 [] c \in 97..102 -> c - 87 [] OTHER -> -1

-----------------------------------------------------------------------------
(* Reading.  [in, insitu, dst, out, error, offset]: in place, what is put overwrites the  *)
(* source from dst on.                                                                    *)

Reading(units, insitu) ==
  [in |-> Stream(units), insitu |-> insitu, dst |-> 2, out |-> <<>>, error |-> "None", offset |-> 0]

Next(s) == Peek(s.in)
Take(s) == [s EXCEPT !.in = Skip(@, 1)]

Putting(s, units) ==
  IF s.insitu
  THEN [s EXCEPT !.in.src = [i \in DOMAIN @ |-> IF i - s.dst + 1 \in DOMAIN units
                                                THEN units[i - s.dst + 1] ELSE @[i]],
                 !.dst = @ + Len(units)]
  ELSE [s EXCEPT !.out = @ \o units]

Fail(s, code, offset) == IF s.error = "None" THEN [s EXCEPT !.error = code, !.offset = offset] ELSE s

\* Four digits: the number and the reading after them.
ParseHex4(s, escapeOffset) ==
  LET digits == [i \in 1..4 |-> HexValue(Peek(Skip(s.in, i - 1)))]
      wrong  == {i \in 1..4 : digits[i] = -1}
  IN  IF wrong = {} THEN <<FoldLeft(LAMBDA v, d : v * 16 + d, 0, digits), [s EXCEPT !.in = Skip(@, 4)]>>
      ELSE <<0, Fail([s EXCEPT !.in = Skip(@, Min(wrong) - 1)], "StringUnicodeEscapeInvalidHex", escapeOffset)>>

\* Slip: the half that follows is not looked at.
SecondHalf_Any(s, high, offset) ==
  LET low == ParseHex4([s EXCEPT !.in = Skip(@, 2)], offset)
  IN  <<(high - 55296) * 1024 + (low[1] - 56320) + 65536, low[2]>>

\* The code point of a surrogate pair.
Paired(high, low, offset) ==
  IF low[2].error = "None" /\ ~LowSurrogate(low[1])
  THEN <<0, Fail(low[2], "StringUnicodeSurrogateInvalid", offset)>>
  ELSE <<(high - 55296) * 1024 + (low[1] - 56320) + 65536, low[2]>>

\* What follows the first half of a pair.
SecondHalf(s, high, offset) ==
  IF Taken(s.in, 2) # <<Backslash, LetterU>> THEN <<0, Fail(s, "StringUnicodeSurrogateInvalid", offset)>>
  ELSE Paired(high, ParseHex4([s EXCEPT !.in = Skip(@, 2)], offset), offset)

Whole(first, offset) ==
  IF first[2].error = "None" /\ HighSurrogate(first[1]) THEN SecondHalf(first[2], first[1], offset) ELSE first
PutEscaped(read, target) ==
  IF read[2].error # "None" THEN read[2] ELSE Putting(read[2], Encode(target, read[1]))

\* From the backslash on.
ReadEscape(s, target) ==
  LET e == Peek(Skip(s.in, 1))
      s2 == [s EXCEPT !.in = Skip(@, 2)]
  IN  CASE e \in DOMAIN EscapeOf -> Putting(s2, <<EscapeOf[e]>>)
        [] e = LetterU -> PutEscaped(Whole(ParseHex4(s2, s.in.at), s.in.at), target)
        [] OTHER       -> Fail(Take(s), "StringEscapeInvalid", s.in.at)

\* A character that is not escaped.
ReadUnit(s, source, target, validate) ==
  {Putting([s EXCEPT !.in = p.in], p.put) :
     p \in IF validate THEN TranscoderValidate(source, target, s.in) ELSE Transcode(source, target, s.in)}

ReadNext(s, source, target, validate) ==
  CASE Next(s) = Backslash -> ReadEscape(s, target)
    [] Next(s) = Nul -> Fail(s, "StringMissQuotationMark", s.in.at)
    [] Next(s) \in 1..31 -> Fail(s, "StringInvalidEncoding", s.in.at)
    [] OTHER -> LET read == ReadUnit(s, source, target, validate)
                IN  IF read = {} THEN Fail(s, "StringInvalidEncoding", s.in.at) ELSE CHOOSE r \in read : TRUE

\* ParseStringToStream, behind the first quotation mark.
RECURSIVE ParseStringToStream(_, _, _, _)
ParseStringToStream(s, source, target, validate) ==
  IF s.error # "None" THEN s
  ELSE IF Next(s) = Quote THEN Putting(Take(s), <<Nul>>)
  ELSE ParseStringToStream(ReadNext(s, source, target, validate), source, target, validate)

\* The characters the handler is given, without the nul, or the error.
Result(s) ==
  LET all == IF s.insitu THEN SubSeq(s.in.src, 2, s.dst - 1) ELSE s.out
  IN  IF s.error = "None" THEN [string |-> {Front(all)}, error |-> "None", at |-> s.in.at]
      ELSE [string |-> {}, error |-> s.error, at |-> s.offset]

ParseString(units, source, target, insitu, validate) ==
  Result(ParseStringToStream(Take(Reading(units, insitu)), source, target, validate))

-----------------------------------------------------------------------------
(* Writing                                                                 *)

\* A code point for a target that has only ASCII.
EscapeUnicode(c) ==
  FlattenSeq([i \in DOMAIN EncodeUTF16(c) |-> <<Backslash, LetterU>> \o Hex4(EncodeUTF16(c)[i])])

\* Slip: the digits of a control character are left out.
EscapeControl_Short(c) == <<Backslash, LetterU>> \o SubSeq(Hex4(c), 3, 4)

EscapeControl(c) ==
  IF c \in DOMAIN Letter THEN <<Backslash, Letter[c]>> ELSE <<Backslash, LetterU>> \o Hex4(c)

\* What is written for the next character, {} if the source is not well formed.
WriteUnit(in, source, target, validate) ==
  LET c == Peek(in)
      d == Decode(source, in)
  IN  CASE target = "ASCII" /\ c >= 128 -> IF d.ok THEN {Put(EscapeUnicode(d.cp), d.in)} ELSE {}
        [] c \in (0..31) \cup {Quote, Backslash} -> {Put(EscapeControl(c), Skip(in, 1))}
        [] OTHER -> IF validate THEN TranscoderValidate(source, target, in) ELSE Transcode(source, target, in)

\* WriteString: what was put and whether that was all.
RECURSIVE WriteUnits(_, _, _, _, _)
WriteUnits(in, out, source, target, validate) ==
  LET written == WriteUnit(in, source, target, validate)
      w       == CHOOSE x \in written : TRUE
  IN  IF in.at > Len(in.src) THEN [ok |-> TRUE, out |-> Append(out, Quote)]
      ELSE IF written = {} THEN [ok |-> FALSE, out |-> out]
      ELSE WriteUnits(w.in, out \o w.put, source, target, validate)

WriteString(units, source, target, validate) ==
  WriteUnits(Stream(units), <<Quote>>, source, target, validate)

\* Slip: one escape of six characters for each unit.
Reserved_Six(units, target) == 2 + Len(units) * 6

\* The characters PutReserve makes room for; what follows is put unchecked.
Reserved(units, target) == 2 + Len(units) * (IF target = "ASCII" THEN 12 ELSE 6)

-----------------------------------------------------------------------------
(* Properties.  `text` is some scalar values; a piece is what stands in a text: its       *)
(* characters, and the code points it stands for or the error that ends the reading there.*)

Targets(source) == IF source = "UTF8" THEN {"UTF8", "UTF16", "ASCII"} ELSE {source, "UTF8", "ASCII"}

Sources == {"UTF8", "UTF16", "UTF32"}

EncodeAll(enc, text) == FlattenSeq([i \in DOMAIN text |-> Encode(enc, text[i])])

\* A string that was written is read again as it was, whatever the encoding of the text.
StringsComeBack(text) ==
  \A source \in Sources : \A target \in Targets(source), validate \in BOOLEAN :
    LET units == EncodeAll(source, text)
        back  == IF target = "ASCII" THEN "UTF8" ELSE target
    IN  \E w \in {WriteString(units, source, target, validate)} :
          w.ok /\ ParseString(w.out, back, source, FALSE, validate)
                    = [string |-> {units}, error |-> "None", at |-> Len(w.out) + 1]

\* Writing never goes past the room that was made.
RoomSuffices(text) ==
  \A source \in Sources : \A target \in Targets(source) :
    LET units == EncodeAll(source, text)
    IN  Len(WriteString(units, source, target, FALSE).out) <= Reserved(units, target)

\* A text of pieces is read to the first error, that with its offset; in place as otherwise.
Piece(characters, points, error) == [characters |-> characters, points |-> points, error |-> error]

PiecesRead(pieces) ==
  LET units == <<Quote>> \o FlattenSeq([i \in DOMAIN pieces |-> pieces[i].characters]) \o <<Quote, 88>>
      wrong == {i \in DOMAIN pieces : pieces[i].error # "None"}
      start(i) == 1 + FoldLeft(LAMBDA n, p : n + Len(p.characters), 0, SubSeq(pieces, 1, i - 1))
      whole == FlattenSeq([i \in DOMAIN pieces |-> EncodeAll("UTF8", pieces[i].points)])
  IN  \A insitu, validate \in BOOLEAN :
        ParseString(units, "UTF8", "UTF8", insitu, validate)
          = IF wrong = {} THEN [string |-> {whole}, error |-> "None", at |-> Len(units)]
            ELSE [string |-> {}, error |-> pieces[Min(wrong)].error, at |-> start(Min(wrong)) + 1]

==============================================================================
