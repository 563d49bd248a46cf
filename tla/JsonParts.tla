----------------------------- MODULE JsonParts -----------------------------
(***************************************************************************)
(* Parts of the JSON library below its reader and writer, each a unit: the *)
(* machines of JsonMemory, the loops of JsonScan and the encodings of      *)
(* JsonEncodings, which are functions.  The state of a function is <<>>    *)
(* before its call and <<input>> after it.                                 *)
(***************************************************************************)
EXTENDS JsonMemory, Sequences

CONSTANTS
  Width,         \* characters that a scanning loop looks at together
  TextsOfKinds,  \* texts, as sequences of kinds of characters
  Starts,        \* the addresses where they begin
  Beyond,        \* the kinds of what stands behind the nul of a text
  Gaps,          \* how far a text is moved down in place
  Bytes,         \* four bytes, that are to be decoded
  Points         \* sequences of scalar values, that are to be encoded

Scan  == INSTANCE JsonScan
Codes == INSTANCE JsonEncodings

ASSUME ScanAssumption ==
  /\ Width \in Nat \ {0} /\ Width % 2 = 0
  /\ TextsOfKinds \subseteq Seq(Scan!Kind)
  /\ Beyond \subseteq Scan!Kind
  /\ Starts \subseteq Nat
  /\ Gaps \subseteq Nat
  /\ \A gap \in Gaps : \A from \in Starts : gap <= from

ASSUME CodesAssumption ==
  /\ Bytes \subseteq [1..4 -> 0..255]
  /\ \A text \in Points : \A i \in DOMAIN text : Codes!Scalar(text[i])

Rows == {Scan!Input(t, from, beyond, before) : t \in TextsOfKinds, from \in Starts, beyond \in Beyond, before \in Gaps}

InputsOf == [scan |-> Rows, bytes |-> Bytes, points |-> Points]

PartsInit == MemoryInit \/ (unit \in DOMAIN InputsOf /\ x = <<>>)

PartsNext == \/ MemoryNext
             \/ unit \in DOMAIN InputsOf /\ x = <<>> /\ UNCHANGED unit /\ \E i \in InputsOf[unit] : x' = <<i>>

PartsSpec == PartsInit /\ [][PartsNext]_<<unit, x>>

-----------------------------------------------------------------------------
(* Properties                                                              *)

\* The unit has an input.
Of(u) == unit = u /\ x # <<>>

\* The loops over blocks of characters, of all three instruction sets, stop where the loop over
\* single ones does (reader.h, SkipWhitespace_SIMD, ScanCopyUnescapedString).
ScansAgree == Of("scan") => Scan!ScansAgree(x[1])

\* No block is loaded from a page the text is not on (reader.h, SkipWhitespace_SIMD).
LoadsStay == Of("scan") => Scan!LoadsStayOnPage(x[1])

\* In place the characters are moved down and nothing changes that is still to be read
\* (reader.h, SkipUnescapedString).
InsituMoves == Of("scan") => Scan!InsituMoves(x[1])

\* The writer writes every character, in blocks or one by one, and escapes those it must
\* (writer.h, ScanWriteUnescapedString).
WriterEscapes == Of("scan") => Scan!WriterEscapes(x[1])

\* Whatever the width a loop works with, it does what the loop over single characters does.
BlocksAreLoops == ScansAgree /\ LoadsStay /\ InsituMoves /\ WriterEscapes

\* Bytes are decoded exactly when they are the shortest encoding of a scalar value
\* (encodings.h, UTF8::Decode).
DecodesExactly == Of("bytes") => Codes!DecodesExactly(x[1])

\* Code points come back from every encoding, decoded or only copied (encodings.h, Encode, Validate).
UnitsComeBack == Of("points") => Codes!UnitsComeBack(x[1])

\* What is encoded is decoded as it was, and nothing else is decoded.
CodesComeBack == DecodesExactly /\ UnitsComeBack

=============================================================================
