---------------------------- MODULE JsonHandlers ----------------------------
(***************************************************************************)
(* Those who listen to the reader of the JSON library: a Document, which   *)
(* builds a tree of the events (rapidjson/document.h), and the writers,    *)
(* which make a text of them again (writer.h, prettywriter.h).  The peer   *)
(* parses every request into a Document (JsonRequest::parse) and makes its *)
(* replies and its statistics with a Writer.                               *)
(*                                                                         *)
(* Events and lexemes are those of JsonReader.                             *)
(***************************************************************************)
EXTENDS JsonReader

CONSTANT IndentCharCount    \* PrettyWriter: characters of a level of indentation

-----------------------------------------------------------------------------
(* Document                                                                *)

Value(type, items) == [type |-> type, items |-> items]

EmptyDocument == [value |-> Value("null", <<>>), stack |-> <<>>, asserted |-> TRUE]

Push(d, v) == [d EXCEPT !.stack = Append(@, v)]

\* The n topmost values become the items of the container below them.
Top(d, n) == SubSeq(d.stack, Len(d.stack) - n + 1, Len(d.stack))

Enclose(d, n, items) ==
  LET base == Len(d.stack) - n
  IN  [d EXCEPT !.stack = Append(SubSeq(@, 1, base - 1), Value(d.stack[base].type, items))]

\* A member is two values.
AsMembers(values) == [i \in 1..Len(values) \div 2 |-> <<values[2 * i - 1], values[2 * i]>>]

EndObject(d, count) == Enclose(d, 2 * count, AsMembers(Top(d, 2 * count)))

EndArray(d, count) == Enclose(d, count, Top(d, count))

\* The events of Document: what is told with a value is the value's kind alone.
DocumentHandle(d, event) ==
  CASE event[1] \in {"string", "Key"} -> Push(d, Value("string", <<>>))
    [] event[1] = "scalar"            -> Push(d, Value("scalar", <<>>))
    [] event[1] = "StartObject"       -> Push(d, Value("object", <<>>))
    [] event[1] = "StartArray"        -> Push(d, Value("array", <<>>))
    [] event[1] = "EndObject"         -> EndObject(d, event[2])
    [] OTHER                          -> EndArray(d, event[2])

\* Slip: the stack is cleared when the parse was successful only.
ClearStack_OnSuccess(d, ok) == IF ok THEN [d EXCEPT !.stack = <<>>] ELSE d

ClearStack(d, ok) == [d EXCEPT !.stack = <<>>]

\* ParseStream: a text that is not JSON leaves the value the document had.
ParseStream(d, result) ==
  LET ok     == result.error = NoError
      filled == FoldLeft(DocumentHandle, d, result.events)
      moved  == [filled EXCEPT !.asserted = @ /\ Len(filled.stack) = 1,
                               !.value = IF Len(filled.stack) > 0 THEN Last(filled.stack) ELSE @]
  IN  ClearStack(IF ok THEN moved ELSE filled, ok)

\* The events a value generates.
RECURSIVE Accept(_)
Accept(v) ==
  CASE v.type = "object" ->
         <<Event("StartObject")>>
           \o FlattenSeq([i \in 1..Len(v.items) |-> <<Event("Key")>> \o Accept(v.items[i][2])])
           \o <<End("EndObject", Len(v.items))>>
    [] v.type = "array" ->
         <<Event("StartArray")>> \o FlattenSeq([i \in 1..Len(v.items) |-> Accept(v.items[i])])
           \o <<End("EndArray", Len(v.items))>>
    [] OTHER -> <<Event(v.type)>>

-----------------------------------------------------------------------------
(* Writer                                                                  *)

\* asserted: no assertion of the writer has failed; singleLineArray: the format option
\* of a PrettyWriter.
NewWriter(singleLineArray) ==
  [out |-> <<>>, levels |-> <<>>, hasRoot |-> FALSE, asserted |-> TRUE,
   singleLineArray |-> singleLineArray]

Put(w, lexemes)     == [w EXCEPT !.out = @ \o lexemes]
Asserting(w, holds) == [w EXCEPT !.asserted = @ /\ holds]
IsComplete(w)       == w.hasRoot /\ w.levels = <<>>

\* The value is one more of its level; in an object every other one is a name.
Counted(w, isName) ==
  IF w.levels = <<>> THEN [Asserting(w, ~w.hasRoot) EXCEPT !.hasRoot = TRUE]
  ELSE LET level == Last(w.levels)
       IN  [Asserting(w, level.inArray \/ level.count % 2 = 1 \/ isName)
              EXCEPT !.levels[Len(w.levels)].count = @ + 1]

\* Slip: in an object a comma comes before every value but the first.
Separator_Comma(level) == IF level.count = 0 THEN <<>> ELSE <<",">>

Separator(level) ==
  IF level.count = 0 THEN <<>>
  ELSE IF level.inArray \/ level.count % 2 = 0 THEN <<",">> ELSE <<":">>

Prefix(w, isName) ==
  Counted(IF w.levels = <<>> THEN w ELSE Put(w, Separator(Last(w.levels))), isName)

WriteIndent(w) == Put(w, [i \in 1..Len(w.levels) * IndentCharCount |-> "space"])
NewLine(w)     == WriteIndent(Put(w, <<"newline">>))

PrettyPrefix(w, isName) ==
  LET level == Last(w.levels)
      first == level.count = 0
      spaced ==
        CASE level.inArray /\ w.singleLineArray -> Put(w, IF first THEN <<>> ELSE <<",", "space">>)
          [] level.inArray /\ ~w.singleLineArray -> NewLine(Put(w, IF first THEN <<>> ELSE <<",">>))
          [] ~level.inArray /\ level.count % 2 = 0 -> NewLine(Put(w, IF first THEN <<>> ELSE <<",">>))
          [] OTHER -> Put(w, <<":", "space">>)
  IN  Counted(IF w.levels = <<>> THEN w ELSE spaced, isName)

\* Slip: every level is an array's.
OpenLevel_Array(w, inArray) ==
  Put([w EXCEPT !.levels = Append(@, [inArray |-> TRUE, count |-> 0])],
      IF inArray THEN <<"[">> ELSE <<"{">>)

OpenLevel(w, inArray) ==
  Put([w EXCEPT !.levels = Append(@, [inArray |-> inArray, count |-> 0])],
      IF inArray THEN <<"[">> ELSE <<"{">>)

\* What is asserted of the level that ends.
Ends(w, inArray) ==
  /\ w.levels # <<>>
  /\ Last(w.levels).inArray = inArray
  /\ inArray \/ Last(w.levels).count % 2 = 0

CloseLevel(w, inArray) ==
  Put([Asserting(w, Ends(w, inArray)) EXCEPT !.levels = Front(@)], IF inArray THEN <<"]">> ELSE <<"}">>)

\* Slip: the bracket of an empty container gets a line of its own too.
PrettyCloseLevel_AlwaysBreaks(w, inArray) ==
  LET inner == [w EXCEPT !.levels = Front(@)]
  IN  [CloseLevel(w, inArray) EXCEPT !.out =
         (IF inArray /\ w.singleLineArray THEN w.out ELSE NewLine(inner).out)
           \o (IF inArray THEN <<"]">> ELSE <<"}">>)]

\* The indentation of the closing bracket is that of the level outside.
PrettyCloseLevel(w, inArray) ==
  LET inner  == [w EXCEPT !.levels = Front(@)]
      breaks == Last(w.levels).count # 0 /\ ~(inArray /\ w.singleLineArray)
  IN  [CloseLevel(w, inArray) EXCEPT !.out =
         (IF breaks THEN NewLine(inner).out ELSE w.out) \o (IF inArray THEN <<"]">> ELSE <<"}">>)]

\* The events of a writer; its prefixes and ends are those of Writer or of PrettyWriter.
Written(w, event, Before(_, _), Close(_, _)) ==
  CASE event[1] \in {"string", "Key"} -> Put(Before(w, TRUE), <<"string">>)
    [] event[1] = "scalar"            -> Put(Before(w, FALSE), <<"scalar">>)
    [] event[1] = "StartObject"       -> OpenLevel(Before(w, FALSE), FALSE)
    [] event[1] = "StartArray"        -> OpenLevel(Before(w, FALSE), TRUE)
    [] event[1] = "EndObject"         -> Close(w, FALSE)
    [] OTHER                          -> Close(w, TRUE)

WriterHandle(w, event) == Written(w, event, Prefix, CloseLevel)
PrettyHandle(w, event) == Written(w, event, PrettyPrefix, PrettyCloseLevel)

WriterOf(events)         == FoldLeft(WriterHandle, NewWriter(FALSE), events)
PrettyOf(events, single) == FoldLeft(PrettyHandle, NewWriter(single), events)

-----------------------------------------------------------------------------
(* Properties                                                              *)

\* A Document that has parsed a text holds the tree of that text: its events are those
\* the text is read as.  A text that is refused, whatever the handler had been told of
\* it, leaves nothing on the stack that the next text would find there.
DocumentHoldsText ==
  verdict # "more" =>
    LET next   == [events |-> <<Event("StartArray"), Event("string"), Event("scalar"), End("EndArray", 2)>>,
                   error  |-> NoError]
        first  == ParseStream(EmptyDocument, Parse)
        second == ParseStream(first, next)
    IN  /\ IF Parse.error = NoError THEN first.asserted /\ Accept(first.value) = Parse.events
                                    ELSE first.value = EmptyDocument.value
        /\ second.asserted /\ Accept(second.value) = next.events

\* The reader never sends events in an order that a writer asserts against: at every
\* turn the writer is as deep in its levels as the reader in its containers.
WriterNeverAsserts ==
  LET w == WriterOf(st.events)
  IN  /\ w.asserted
      /\ Len(w.levels) = Told({"StartObject", "StartArray"}) - Told({"EndObject", "EndArray"})

\* The text a writer makes of a text it is told of is complete, has no space, and is
\* read as the same events: the text, with what kParseTrailingCommasFlag allows left out.
WriterCondenses ==
  verdict = "true" /\ job.refuse = 0 /\ st.error = NoError =>
    LET out == WriterOf(st.events).out
    IN  /\ IsComplete(WriterOf(st.events))
        /\ out = Meaningful(out)
        /\ st.events \in Reading(out)
        /\ ~job.trailing /\ ~job.stop => out = Meaningful(job.text)

Shown(c) == c \notin {"space", "newline"}

\* Brackets that are open before position i.
DepthAt(out, i) ==
  Cardinality({k \in 1..i - 1 : out[k] \in {"[", "{"}}) - Cardinality({k \in 1..i - 1 : out[k] \in {"]", "}"}})

\* The first thing shown behind position i.
NextShown(out, i) == CHOOSE k \in i + 1..Len(out) : Shown(out[k]) /\ \A j \in i + 1..k - 1 : ~Shown(out[j])

\* A pretty writer writes what the writer writes, in lines: each begins with the
\* indentation of the containers open there, the bracket that ends one counting as
\* outside, and the brackets of an empty container are side by side.
PrettyIndents ==
  \A single \in BOOLEAN :
  LET w   == PrettyOf(st.events, single)
      out == w.out
  IN  /\ w.asserted
      /\ SelectSeq(out, Shown) = WriterOf(st.events).out
      /\ \A i \in DOMAIN out : out[i] = "newline" =>
           LET k     == NextShown(out, i)
               depth == DepthAt(out, i) - (IF out[k] \in {"]", "}"} THEN 1 ELSE 0)
           IN  /\ k = i + IndentCharCount * depth + 1
               /\ ~(i > 1 /\ out[i - 1] \in {"[", "{"} /\ out[k] \in {"]", "}"})

\* What the reader tells a writer, the writer writes, and a reader reads again; the pretty
\* writer only adds lines (writer.h, prettywriter.h).
WritersKeepText == WriterNeverAsserts /\ WriterCondenses /\ PrettyIndents

=============================================================================
