------------------------------ MODULE JsonScan ------------------------------
(***************************************************************************)
(* The scanning loops of the JSON library that look at a block of 16       *)
(* characters at once: white space (reader.h, SkipWhitespace), the part of *)
(* a string that needs no escape when it is read (ScanCopyUnescapedString, *)
(* SkipUnescapedString) and when it is written (writer.h,                  *)
(* ScanWriteUnescapedString).  Every loop is written three times, for      *)
(* SSE4.2, SSE2 and NEON; a build without them has the scalar loops.       *)
(*                                                                         *)
(* Memory is a function of addresses to kinds of characters: "tab" is a    *)
(* white space below 0x20, "high" is a byte of 0x80 or more, "quote" stands*)
(* for the backslash too.  A block has Width characters.                   *)
(***************************************************************************)
EXTENDS Integers, FiniteSetsExt, SequencesExt

CONSTANT Width              \* characters of a block: 16, two lanes of 8

Isa == {"SSE42", "SSE2", "NEON"}

Kind       == {"space", "tab", "plain", "high", "quote", "nul"}
Whitespace == {"space", "tab"}
Escaped    == {"quote", "tab", "nul"}

At(m, a) == IF a \in DOMAIN m THEN m[a] ELSE "plain"

Load(m, p) == [i \in 0..Width - 1 |-> At(m, p + i)]

\* Slip: the scalar loop in front of the blocks is left out.
RoundUp_Start(a) == a

RoundUp(a) == ((a + Width - 1) \div Width) * Width

\* Slip: the block of the end is read whole.
RoundDown_Up(a) == RoundUp(a)

RoundDown(a) == (a \div Width) * Width

-----------------------------------------------------------------------------
(* Where in a block the first character of the stop set is, Width if there is none. *)

\* pcmpistri with a negated result: characters from a nul on count as different.
Cmpistri(block, stop) ==
  LET same == {i \in DOMAIN block : block[i] \notin stop /\ \A j \in 0..i : block[j] # "nul"}
  IN  Min((DOMAIN block \ same) \cup {Width})

\* movemask and ffs
Ffs(block, stop) == LET mask == {i \in DOMAIN block : block[i] \in stop}
                    IN  IF mask = {} THEN 0 ELSE Min(mask) + 1

\* rev64: in each half the first character is the most significant byte
Clz(half) == Width \div 2 - 1 - Max(half)

Reversed(block, stop, from) ==
  {Width \div 2 - 1 - i : i \in {j \in 0..Width \div 2 - 1 : block[from + j] \in stop}}

\* Slip: characters of the second half are counted from its start.
Lanes_High(block, stop) ==
  LET high == Reversed(block, stop, Width \div 2)
      low  == Reversed(block, stop, 0)
  IN  IF low # {} THEN Clz(low) ELSE IF high # {} THEN Clz(high) ELSE Width

Lanes(block, stop) ==
  LET low  == Reversed(block, stop, 0)
      high == Reversed(block, stop, Width \div 2)
  IN  IF low # {} THEN Clz(low) ELSE IF high # {} THEN Width \div 2 + Clz(high) ELSE Width

Index(isa, block, stop) ==
  CASE isa = "SSE42" /\ stop = Kind \ Whitespace -> Cmpistri(block, stop)
    [] isa = "NEON"                              -> Lanes(block, stop)
    [] OTHER -> LET r == Ffs(block, stop) IN IF r # 0 THEN r - 1 ELSE Width

-----------------------------------------------------------------------------
(* The loops                                                               *)

\* One by one, from p to the character before the end.
Scalar(m, p, end, stop) == Min({a \in p..end - 1 : At(m, a) \in stop} \cup {end})

\* A turn of a loop over blocks, which ends when a block stops or more than the rest is asked for.
BlockTurn(isa, m, end, stop, t) ==
  IF t.found \/ t.at > end - Width THEN t
  ELSE LET r == Index(isa, Load(m, t.at), stop)
       IN  [at |-> t.at + r, found |-> r # Width]

\* Every turn passes a character at least.
Blocks(isa, m, p, end, stop) ==
  LET n == IF p < end THEN end - p ELSE 0
      turn[k \in 0..n] == IF k = 0 THEN [at |-> p, found |-> FALSE]
                          ELSE BlockTurn(isa, m, end, stop, turn[k - 1])
  IN  turn[n].at

\* Where the blocks of a text that ends with a nul begin, if its first part does not stop.
Aligned(m, p, stop) == LET a == Scalar(m, p, RoundUp(p), stop)
                       IN  IF a = RoundUp(p) THEN {a} ELSE {}

Terminated(isa, m, p, last, stop) ==
  IF Aligned(m, p, stop) = {} THEN Scalar(m, p, RoundUp(p), stop)
  ELSE Blocks(isa, m, RoundUp(p), last + 2 * Width, stop)

SkipWhitespaceScalar(m, p, end) == Scalar(m, p, end, Kind \ Whitespace)

SkipWhitespace(isa, m, p, last) ==
  IF At(m, p) \notin Whitespace THEN p ELSE Terminated(isa, m, p + 1, last, Kind \ Whitespace)

SkipWhitespaceBounded(isa, m, p, end) ==
  IF p = end \/ At(m, p) \notin Whitespace THEN p
  ELSE LET q == Blocks(isa, m, p + 1, end, Kind \ Whitespace)
       IN  SkipWhitespaceScalar(m, q, end)

Slice(m, p, q) == [i \in 1..q - p |-> At(m, p + i - 1)]

\* To a buffer: what is copied and where the reading stops.
ScanCopy(isa, m, p, last) ==
  LET q == Terminated(isa, m, p, last, Escaped) IN [copied |-> Slice(m, p, q), src |-> q]

Store(m, q, chars) ==
  [a \in DOMAIN m |-> IF a \in q..q + Len(chars) - 1 THEN chars[a - q + 1] ELSE m[a]]

\* Slip: the block is stored before it is looked at.
CopyTurn_StoresFirst(isa, t) ==
  LET r == Index(isa, Load(t.mem, t.src), Escaped)
  IN  IF t.found THEN t
      ELSE [mem |-> Store(t.mem, t.dst, Slice(t.mem, t.src, t.src + Width)),
            src |-> t.src + r, dst |-> t.dst + r, found |-> r # Width]

\* In place: of a block in which something stops only what is before it is stored.
CopyTurn(isa, t) ==
  LET r == Index(isa, Load(t.mem, t.src), Escaped)
  IN  IF t.found THEN t
      ELSE [mem |-> Store(t.mem, t.dst, Slice(t.mem, t.src, t.src + r)),
            src |-> t.src + r, dst |-> t.dst + r, found |-> r # Width]

\* From p on, to q; the nul at last stops.
CopyBlocks(isa, m, p, q, last) ==
  LET turn[k \in 0..last + 1 - p] == IF k = 0 THEN [mem |-> m, src |-> p, dst |-> q, found |-> FALSE]
                                     ELSE CopyTurn(isa, turn[k - 1])
  IN  turn[last + 1 - p]

ScanCopyInsitu(isa, m, src, dst, last) ==
  LET p      == Scalar(m, src, RoundUp(src), Escaped)
      moved  == Store(m, dst, Slice(m, src, p))
  IN  IF src = dst
      THEN LET a == Terminated(isa, m, src, last, Escaped) IN [mem |-> m, src |-> a, dst |-> a]
      ELSE IF p # RoundUp(src) THEN [mem |-> moved, src |-> p, dst |-> dst + (p - src)]
      ELSE CopyBlocks(isa, moved, p, dst + (p - src), last)

-----------------------------------------------------------------------------
(* The writer: a string has a length and may hold nul characters.          *)

\* The scalar part compares a char, which has a sign on the machines with SSE.
Refused(isa) == IF isa = "NEON" THEN Escaped ELSE Escaped \cup {"high"}

\* What is put and how far the string was read; the caller goes on while there is more.
ScanWrite(isa, m, head, src, length) ==
  LET end   == head + length
      first == Scalar(m, src, RoundUp(src), Refused(isa))
      q     == IF length < Width \/ src >= end \/ RoundUp(src) > end THEN src
               ELSE IF first # RoundUp(src) THEN first
               ELSE Blocks(isa, m, first, RoundDown(end), Escaped)
  IN  [put |-> Slice(m, src, q), src |-> q, more |-> q < end]

Escape(c) == IF c \in Escaped THEN <<"backslash", c>> ELSE <<c>>

\* A turn of WriteString: after each scan one character is written on its own.
WriteTurn(isa, m, head, length, t) ==
  LET scan == ScanWrite(isa, m, head, t.src, length)
  IN  CASE t.done                  -> t
        [] ~t.done /\ ~scan.more   -> [out |-> t.out \o scan.put, src |-> scan.src, done |-> TRUE]
        [] ~t.done /\ scan.more    -> [out |-> t.out \o scan.put \o Escape(At(m, scan.src)),
                                       src |-> scan.src + 1, done |-> FALSE]

WriteString(isa, m, head, length) ==
  LET turn[k \in 0..length + 1] == IF k = 0 THEN [out |-> <<>>, src |-> head, done |-> FALSE]
                                   ELSE WriteTurn(isa, m, head, length, turn[k - 1])
  IN  turn[length + 1].out

-----------------------------------------------------------------------------
(* Inputs and properties.  A text stands at the addresses from..last - 1 with a nul at    *)
(* last; `before` is how far the place it is copied to is behind it.                      *)

Input(text, from, beyond, before) ==
  [mem  |-> [a \in 0..from + Len(text) + 2 * Width |->
               IF a \in from..from + Len(text) - 1 THEN text[a - from + 1]
               ELSE IF a = from + Len(text) THEN "nul" ELSE beyond],
   from |-> from, last |-> from + Len(text), before |-> before]

\* The first nul at or after the start of a text.
Terminator(in) == Scalar(in.mem, in.from, in.last, {"nul"})

\* Every machine stops where the loop over single characters stops.
ScansAgree(in) ==
  \A isa \in Isa :
    LET stop == Scalar(in.mem, in.from, in.last, Escaped)
    IN  /\ SkipWhitespace(isa, in.mem, in.from, in.last)
             = SkipWhitespaceScalar(in.mem, in.from, Terminator(in))
        /\ SkipWhitespaceBounded(isa, in.mem, in.from, in.last)
             = SkipWhitespaceScalar(in.mem, in.from, in.last)
        /\ ScanCopy(isa, in.mem, in.from, in.last)
             = [copied |-> Slice(in.mem, in.from, stop), src |-> stop]

\* Blocks are aligned and begin in the text: no load reaches a page the text is not on.
LoadsStayOnPage(in) ==
  \A stop \in {Escaped, Kind \ Whitespace} : \A p \in in.from..in.last :
    \A a \in Aligned(in.mem, p, stop) : a % Width = 0 /\ a <= in.last

\* In place: the characters are moved and nothing that is still to be read changes.
InsituMoves(in) ==
  \A isa \in Isa :
    LET dst  == in.from - in.before
        r    == ScanCopyInsitu(isa, in.mem, in.from, dst, in.last)
        stop == Scalar(in.mem, in.from, in.last, Escaped)
    IN  /\ r.src = stop /\ r.dst = stop - in.before
        /\ Slice(r.mem, dst, r.dst) = Slice(in.mem, in.from, stop)
        /\ \A a \in DOMAIN in.mem : a >= stop \/ a < dst => r.mem[a] = in.mem[a]

\* The characters of a string one by one, escaped where they must be.
EscapedText(m, head, length) ==
  LET text[k \in 0..length] == IF k = 0 THEN <<>> ELSE text[k - 1] \o Escape(At(m, head + k - 1))
  IN  text[length]

\* The string of an input without its nul: nothing ends a string that is written but its length.
WithoutEnd(in) == [in.mem EXCEPT ![in.last] = in.mem[in.last + 1]]

\* What is written is every character of the string, escaped where it must be, and no other.
WriterEscapes(in) ==
  \A isa \in Isa : WriteString(isa, WithoutEnd(in), in.from, in.last - in.from)
                      = EscapedText(WithoutEnd(in), in.from, in.last - in.from)

=============================================================================
