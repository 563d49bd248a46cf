----------------------------- MODULE JsonStreams -----------------------------
(***************************************************************************)
(* The streams of the JSON library: a file or an istream read through a    *)
(* buffer (filereadstream.h, istreamwrapper.h) or memory (memorystream.h), *)
(* lines and columns counted (cursorstreamwrapper.h); a file written       *)
(* through a buffer (filewritestream.h); the growing buffer of a           *)
(* StringBuffer (stringbuffer.h, internal/stack.h).                        *)
(*                                                                         *)
(* Character i of a text is i, or -i when it is the end of a line; 0 is    *)
(* nul.                                                                    *)
(***************************************************************************)
EXTENDS Integers, FiniteSetsExt, SequencesExt

CONSTANTS
  BufferSizes,              \* sizes of the buffers of the user, 4 or more to read
  InitialCapacities,        \* capacities a StringBuffer begins with
  MaxLength,                \* bound: characters of a text
  MaxCapacity               \* bound: capacity of a StringBuffer

VARIABLE stream             \* a reader, a writer or a buffer

Lowest(a, b) == IF a < b THEN a ELSE b

-----------------------------------------------------------------------------
(* Readers.  Pointers into the buffer are counted from 0, last is -1 when there is none. *)

NewReader(kind, file, size) ==
  [kind |-> kind, file |-> file, size |-> size, from |-> 0, buffer |-> <<>>, last |-> -1, current |-> 0,
   readCount |-> 0, count |-> 0, eof |-> FALSE, taken |-> <<>>, line |-> 1, column |-> 0]

\* fread, istream::read: the next characters of the file.
Chunk(r) == SubSeq(r.file, r.from + 1, Lowest(r.from + r.size, Len(r.file)))

\* Slip: the nul behind the last character is not counted.
FileRefill_NoEnd(r) ==
  LET chunk == Chunk(r)
      full  == Len(chunk) >= r.size
  IN  [r EXCEPT !.count = @ + r.readCount, !.readCount = Len(chunk), !.from = @ + Len(chunk),
                !.buffer = IF full THEN chunk ELSE Append(chunk, 0), !.current = 0,
                !.last = IF chunk = <<>> THEN 0 ELSE Len(chunk) - 1, !.eof = ~full]

\* FileReadStream::Read
FileRefill(r) ==
  LET chunk == Chunk(r)
      full  == Len(chunk) >= r.size
  IN  [r EXCEPT !.count = @ + r.readCount, !.readCount = Len(chunk), !.from = @ + Len(chunk),
                !.buffer = IF full THEN chunk ELSE Append(chunk, 0), !.current = 0,
                !.last = IF full THEN Len(chunk) - 1 ELSE Len(chunk), !.eof = ~full]

\* BasicIStreamWrapper::Read: a read that fails tells how much it got.
IStreamRefill(r) ==
  LET chunk == Chunk(r)
      begun == [r EXCEPT !.count = @ + r.readCount, !.readCount = r.size, !.last = r.size - 1,
                         !.current = 0, !.from = @ + Len(chunk), !.buffer = chunk]
  IN  IF Len(chunk) = r.size THEN begun
      ELSE [begun EXCEPT !.readCount = Len(chunk), !.last = Len(chunk), !.buffer = Append(chunk, 0),
                         !.eof = TRUE]

Read(r) ==
  CASE r.current < r.last          -> [r EXCEPT !.current = @ + 1]
    [] r.current >= r.last /\ r.eof -> r
    [] OTHER -> IF r.kind = "file" THEN FileRefill(r) ELSE IStreamRefill(r)

\* MemoryStream: at the end it gives a nul and does not move.
MemoryPeek(r)  == IF r.current = Len(r.file) THEN 0 ELSE r.file[r.current + 1]
MemoryTaken(r) == IF r.current = Len(r.file) THEN r ELSE [r EXCEPT !.current = @ + 1]

Peek(r) == IF r.kind = "memory" THEN MemoryPeek(r) ELSE r.buffer[r.current + 1]
Tell(r) == IF r.kind = "memory" THEN r.current ELSE r.count + r.current

\* Whether four characters can be looked at.
Peek4(r) == IF r.kind = "memory" THEN r.current + 4 <= Len(r.file)
            ELSE r.current + (IF r.eof THEN 4 ELSE 3) <= r.last

\* Slip: the column goes on in the next line.
Counted_Column(r, c) == [r EXCEPT !.line = IF c < 0 THEN @ + 1 ELSE @, !.column = @ + 1]

\* CursorStreamWrapper::Take
Counted(r, c) == IF c < 0 THEN [r EXCEPT !.line = @ + 1, !.column = 0] ELSE [r EXCEPT !.column = @ + 1]

Take ==
  /\ stream.kind \in {"file", "istream", "memory"}
  /\ Len(stream.taken) <= Len(stream.file)
  /\ LET c == Peek(stream)
     IN  stream' = [Counted(IF stream.kind = "memory" THEN MemoryTaken(stream) ELSE Read(stream), c)
                      EXCEPT !.taken = Append(@, c)]

-----------------------------------------------------------------------------
(* FileWriteStream                                                         *)

NewWriter(size) == [kind |-> "writer", size |-> size, buffer |-> <<>>, written |-> <<>>, put |-> 0]

Flushed(w) == [w EXCEPT !.written = @ \o w.buffer, !.buffer = <<>>]

Put(w, c) == LET room == IF Len(w.buffer) >= w.size THEN Flushed(w) ELSE w
             IN  [room EXCEPT !.buffer = Append(@, c), !.put = @ + 1]

\* c is written n times where the buffer has room.
Filled(w, c, n) == [w EXCEPT !.buffer = @ \o [i \in 1..n |-> c], !.put = @ + n]

Avail(w) == w.size - Len(w.buffer)

\* Slip: the rest is put without a look at the room left by a flush.
PutN_Once(w, c, n) ==
  IF n > Avail(w) THEN Filled(Flushed(Filled(w, c, Avail(w))), c, n - Avail(w)) ELSE Filled(w, c, n)

\* A turn of the loop of PutN, which ends when nothing is left to put; behind the loop
\* the rest is put.
Turn(t, c) == IF t.left > Avail(t.writer)
              THEN [writer |-> Flushed(Filled(t.writer, c, Avail(t.writer))), left |-> t.left - Avail(t.writer)]
              ELSE [writer |-> Filled(t.writer, c, t.left), left |-> 0]

\* Only the first turn may find no room: n + 1 turns are enough.
PutN(w, c, n) ==
  LET turn[k \in 0..n + 1] == IF k = 0 THEN [writer |-> w, left |-> n] ELSE Turn(turn[k - 1], c)
  IN  turn[n + 1].writer

\* What is put is the number of the call.
Write ==
  /\ stream.kind = "writer"
  /\ LET c == stream.put
     IN  \/ stream' = Flushed(stream) /\ stream.buffer # <<>>
         \/ stream.put < MaxLength /\ stream' = Put(stream, c)
         \/ \E n \in 0..MaxLength - stream.put : stream' = PutN(stream, c, n)

-----------------------------------------------------------------------------
(* StringBuffer on a Stack: memory as cells, [exists, cell, top, initial]; `text` is what *)
(* its user put and did not take back.                                                  *)

NewBuffer(initial) ==
  [kind |-> "buffer", exists |-> FALSE, cell |-> <<>>, top |-> 0, initial |-> initial,
   text |-> <<>>, shown |-> FALSE]

\* Realloc keeps the cells; -1 is a cell nothing was written to.
Resize(b, capacity) ==
  [b EXCEPT !.exists = TRUE, !.cell = [i \in 1..capacity |-> IF i \in DOMAIN @ THEN @[i] ELSE -1]]

\* Slip: half as much again, whatever is asked for.
Expand_Half(b, n) ==
  LET capacity == Len(b.cell)
  IN  Resize(b, IF b.exists THEN capacity + (capacity + 1) \div 2 ELSE b.initial)

Expand(b, n) ==
  LET capacity == Len(b.cell)
      wider    == IF b.exists THEN capacity + (capacity + 1) \div 2 ELSE b.initial
  IN  Resize(b, IF wider < b.top + n THEN b.top + n ELSE wider)

Reserve(b, n) == IF n > Len(b.cell) - b.top THEN Expand(b, n) ELSE b

\* PushUnsafe and the characters that are put there.
PushUnsafe(b, chars) ==
  [b EXCEPT !.cell = [i \in DOMAIN @ |-> IF i - b.top \in DOMAIN chars THEN chars[i - b.top] ELSE @[i]],
            !.top = @ + Len(chars)]

Push(b, chars) == PushUnsafe(Reserve(b, Len(chars)), chars)

Pop(b, n) == [b EXCEPT !.top = @ - n]

\* StringBuffer: with a terminator that is taken back.
ShrinkToFit(b) == LET ended == Push(b, <<0>>) IN Pop(Resize(ended, ended.top), 1)

GetString(b) == Pop(Push(b, <<0>>), 1)

\* What a buffer is left with that was moved elsewhere.
MovedFrom(b) == NewBuffer(0)

Buffer ==
  /\ stream.kind = "buffer"
  /\ Len(stream.cell) < MaxCapacity
  /\ \/ \E n \in 1..2 : LET chars == [i \in 1..n |-> Len(stream.text) + i]
                        IN  /\ Len(stream.text) + n <= MaxLength
                            /\ stream' = [Push(stream, chars) EXCEPT !.text = @ \o chars, !.shown = FALSE]
     \/ \E n \in 1..2 : /\ n <= Len(stream.text)
                        /\ stream' = [Pop(stream, n) EXCEPT !.text = SubSeq(@, 1, Len(@) - n), !.shown = FALSE]
     \/ stream' = [stream EXCEPT !.top = 0, !.text = <<>>, !.shown = FALSE]
     \/ stream' = [ShrinkToFit(stream) EXCEPT !.shown = TRUE]
     \/ stream' = [GetString(stream) EXCEPT !.shown = TRUE]
     \/ stream' = MovedFrom(stream)

\* Reserve first, so that nothing is checked when the characters are put.
Reserved ==
  /\ stream.kind = "buffer"
  /\ Len(stream.cell) < MaxCapacity
  /\ \E n \in 1..MaxLength - Len(stream.text) :
       LET chars == [i \in 1..n |-> Len(stream.text) + i]
       IN  stream' = [PushUnsafe(Reserve(stream, n), chars) EXCEPT !.text = @ \o chars, !.shown = FALSE]

-----------------------------------------------------------------------------
Texts == UNION {{[i \in 1..n |-> IF i \in lines THEN -i ELSE i] : lines \in SUBSET (1..n)} :
                n \in 0..MaxLength}

Init ==
  \/ \E kind \in {"file", "istream"}, size \in BufferSizes, file \in Texts :
       stream = Read(NewReader(kind, file, size))
  \/ \E file \in Texts : stream = NewReader("memory", file, 0)
  \/ \E size \in 1..Max(BufferSizes) : stream = NewWriter(size)
  \/ \E initial \in InitialCapacities : stream = NewBuffer(initial)

Next == Take \/ Write \/ Buffer \/ Reserved

-----------------------------------------------------------------------------
(* Properties                                                              *)

IsReader == stream.kind \in {"file", "istream", "memory"}

\* The characters taken are those of the file, wherever the buffer ends, and nuls after them.
ReadsFile ==
  IsReader =>
    LET n == Len(stream.taken)
    IN  /\ stream.taken = [i \in 1..n |-> IF i <= Len(stream.file) THEN stream.file[i] ELSE 0]
        /\ Tell(stream) = Lowest(n, Len(stream.file))
        /\ Peek(stream) = IF n < Len(stream.file) THEN stream.file[n + 1] ELSE 0
        /\ n = 0 => (Peek4(stream) <=> Len(stream.file) >= 4)

\* Line and column are those of the next character.
CountsLines ==
  IsReader =>
    LET ends == {i \in DOMAIN stream.taken : stream.taken[i] < 0}
    IN  stream.line = Cardinality(ends) + 1 /\ stream.column = Len(stream.taken) - Max(ends \cup {0})

\* What was written and what the buffer holds is what was put, in its order.
WritesAll ==
  stream.kind = "writer" =>
    LET all == stream.written \o stream.buffer
    IN  Len(all) = stream.put /\ Len(stream.buffer) <= stream.size /\ \A i \in 2..Len(all) : all[i - 1] <= all[i]

\* A buffer holds its text however it grew, never more than it has room for, and a nul behind
\* the text when it was shown.
BufferHolds ==
  stream.kind = "buffer" =>
    /\ stream.top = Len(stream.text)
    /\ stream.top <= Len(stream.cell)
    /\ \A i \in DOMAIN stream.text : stream.cell[i] = stream.text[i]
    /\ stream.shown => stream.top < Len(stream.cell) /\ stream.cell[stream.top + 1] = 0

==============================================================================
